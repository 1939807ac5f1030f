-------------------------- MODULE SimulatorProofs --------------------------
(***************************************************************************)
(* main(), for every program, every command line and every length of a run: *)
(* its counters and its trace, what the cycles of a run were spent on,      *)
(* where --retire-count stops it, and what is visible of the instructions   *)
(* under way when it stops.                                                 *)
(*                                                                          *)
(* A run of main() takes the steps of the pipeline, so IInv holds in every  *)
(* state of it; the rest is counting what one cycle can do.                 *)
(***************************************************************************)
EXTENDS Retirement, PipelineProofs

-----------------------------------------------------------------------------
(* The steps of main() *)

\* A step of main() is a cycle of the pipeline, or leaves the machine alone.
LEMMA SimStepsPipeline == [SimNext]_simVars => [Next]_vars
BY DEF SimNext, Tick, Abort, Finish, simVars, Next

\* What a counter is incremented by.
LEMMA OneIfType == ASSUME NEW c PROVE OneIf(c) \in {0, 1}
BY DEF OneIf

\* The counters a cycle that completes leaves.
LEMMA CountedStats ==
    ASSUME stats \in ExecutionStats
    PROVE  /\ count_cycle \in ExecutionStats
           /\ count_cycle.clock_cycles = stats.clock_cycles + 1
           /\ count_cycle.instruction_count =
                stats.instruction_count + OneIf(mem_wb.valid)
           /\ count_cycle.stall_cycles =
                stats.stall_cycles + OneIf(stall_fetch_decode)
           /\ count_cycle.branch_predictions =
                stats.branch_predictions + OneIf(resolves_branch)
           /\ count_cycle.branch_mispredictions =
                stats.branch_mispredictions
                  + OneIf(resolves_branch /\ flush_id_ex)
<1>1. /\ OneIf(mem_wb.valid) \in Nat /\ OneIf(stall_fetch_decode) \in Nat
      /\ OneIf(resolves_branch) \in Nat
      /\ OneIf(resolves_branch /\ flush_id_ex) \in Nat
  BY OneIfType
<1> QED
  BY <1>1 DEF count_cycle, ExecutionStats

\* The counters a cycle that throws leaves.
LEMMA AbortedStats ==
    ASSUME stats \in ExecutionStats, Abort
    PROVE  /\ stats' \in ExecutionStats
           /\ stats'.clock_cycles = stats.clock_cycles
           /\ stats'.instruction_count =
                stats.instruction_count + OneIf(mem_wb.valid)
           /\ stats'.stall_cycles = stats.stall_cycles
           /\ stats'.branch_predictions = stats.branch_predictions
           /\ stats'.branch_mispredictions = stats.branch_mispredictions
<1>1. OneIf(mem_wb.valid) \in Nat
  BY OneIfType
<1> QED
  BY <1>1 DEF Abort, ExecutionStats

\* The initial state of main() is well typed.
LEMMA SimInitType == SimInit => IInv /\ SimTypeOK
<1> SUFFICES ASSUME SimInit PROVE IInv /\ SimTypeOK
  OBVIOUS
<1>1. IInv /\ TypeOK
  BY InitInvariant DEF SimInit, IInv
<1>2. options \in CliOptions
  BY OptionsAssumption DEF SimInit
<1>3. stats \in ExecutionStats
  BY DEF SimInit, no_stats, ExecutionStats
<1> QED
  BY <1>1, <1>2, <1>3 DEF SimInit, SimTypeOK

\* Every step of main() keeps the types and the pipeline's invariant.
LEMMA SimNextType ==
    IInv /\ SimTypeOK /\ [SimNext]_simVars => IInv' /\ SimTypeOK'
<1> SUFFICES ASSUME IInv, SimTypeOK, [SimNext]_simVars
             PROVE  IInv' /\ SimTypeOK'
  OBVIOUS
<1>1. IInv' /\ TypeOK'
  BY SimStepsPipeline, NextInvariant DEF IInv
<1>2. CASE Tick
  BY <1>1, <1>2, CountedStats DEF Tick, SimTypeOK
<1>3. CASE Abort
  <2>1. stats' \in ExecutionStats
    BY <1>3, AbortedStats DEF SimTypeOK
  <2> QED
    BY <1>1, <1>3, <2>1 DEF Abort, SimTypeOK
<1>4. CASE Finish
  BY <1>1, <1>4 DEF Finish, SimTypeOK
<1>5. CASE UNCHANGED simVars
  BY <1>1, <1>5 DEF simVars, SimTypeOK
<1> QED
  BY <1>2, <1>3, <1>4, <1>5 DEF SimNext

(***************************************************************************)
(* Every state of every run of main() is well typed, and it keeps the       *)
(* pipeline's inductive invariant: stopping the loop early, or continuing   *)
(* it, never leaves the states the pipeline's theorems are about.           *)
(***************************************************************************)
THEOREM SimTypeCorrect == SimSpec => [](SimTypeOK /\ IInv)
<1>1. SimInit => IInv /\ SimTypeOK
  BY SimInitType
<1>2. IInv /\ SimTypeOK /\ [SimNext]_simVars => IInv' /\ SimTypeOK'
  BY SimNextType
<1> QED
  BY <1>1, <1>2, PTL DEF SimSpec

-----------------------------------------------------------------------------
(* The counters *)

\* A cycle issues an instruction, stalls or mispredicts, never two of these.
LEMMA OneOutcome ==
    OneIf(id_issues) + OneIf(stall_fetch_decode)
      + OneIf(resolves_branch /\ flush_id_ex) \in {0, 1}
BY DEF OneIf, id_issues, stall_fetch_decode

\* Before the first cycle the pipeline is empty and nothing is counted.
NothingCounted ==
    /\ ~error /\ ~halted
    /\ ~if_id.valid /\ ~id_ex.valid /\ ~ex_mem.valid /\ ~mem_wb.valid
    /\ stats = no_stats

\* StatsConsistent, with what holds before the first cycle.
StatsInv ==
    /\ StatsConsistent
    /\ stats.clock_cycles = 0 => NothingCounted

\* What is in flight after a cycle that completes.
LEMMA InFlightAfterCycle ==
    ASSUME IInv, run_pipeline_cycle
    PROVE  InFlight' = OneIf(id_issues) + OneIf(id_ex.valid)
                         + OneIf(ex_mem.valid)
<1>1. id_ex'.valid <=> id_issues
  BY StageIdFacts
<1>2. ex_mem'.valid <=> id_ex.valid
  BY StageExFacts
<1>3. mem_wb'.valid <=> ex_mem.valid
  BY StageMemFacts
<1> QED
  BY <1>1, <1>2, <1>3 DEF InFlight, OneIf

\* A cycle that completes keeps the counters consistent.
LEMMA StatsTick ==
    ASSUME IInv, SimTypeOK, StatsInv, Tick
    PROVE  StatsInv'
<1>1. stats' = count_cycle /\ run_pipeline_cycle /\ ~error /\ ~error'
  BY DEF Tick, run_pipeline_cycle, Running
<1>2. stats \in ExecutionStats
  BY DEF SimTypeOK
<1>3. /\ stats.clock_cycles \in Nat /\ stats.instruction_count \in Nat
      /\ stats.stall_cycles \in Nat /\ stats.branch_predictions \in Nat
      /\ stats.branch_mispredictions \in Nat
  BY <1>2 DEF ExecutionStats
<1>4. /\ stats'.clock_cycles = stats.clock_cycles + 1
      /\ stats'.instruction_count =
           stats.instruction_count + OneIf(mem_wb.valid)
      /\ stats'.stall_cycles = stats.stall_cycles + OneIf(stall_fetch_decode)
      /\ stats'.branch_predictions =
           stats.branch_predictions + OneIf(resolves_branch)
      /\ stats'.branch_mispredictions =
           stats.branch_mispredictions + OneIf(resolves_branch /\ flush_id_ex)
  BY <1>1, <1>2, CountedStats
<1>5. InFlight' = OneIf(id_issues) + OneIf(id_ex.valid) + OneIf(ex_mem.valid)
  BY <1>1, InFlightAfterCycle
<1>6. OneIf(error' /\ mem_wb'.valid) = 0
  BY <1>1 DEF OneIf
<1>7. stats'.branch_mispredictions <= stats'.branch_predictions
  BY <1>3, <1>4 DEF StatsInv, StatsConsistent, OneIf
<1>8. 1 + stats'.instruction_count + InFlight' + stats'.stall_cycles
        + stats'.branch_mispredictions <= stats'.clock_cycles
  <2>0. /\ OneIf(mem_wb.valid) \in {0, 1} /\ OneIf(id_ex.valid) \in {0, 1}
        /\ OneIf(ex_mem.valid) \in {0, 1} /\ OneIf(id_issues) \in {0, 1}
        /\ OneIf(stall_fetch_decode) \in {0, 1}
        /\ OneIf(resolves_branch /\ flush_id_ex) \in {0, 1}
    BY OneIfType
  <2>1. CASE stats.clock_cycles = 0
    <3>1. NothingCounted
      BY <2>1 DEF StatsInv
    <3>2. /\ OneIf(id_issues) = 0 /\ OneIf(stall_fetch_decode) = 0
          /\ OneIf(resolves_branch /\ flush_id_ex) = 0
          /\ OneIf(mem_wb.valid) = 0 /\ OneIf(id_ex.valid) = 0
          /\ OneIf(ex_mem.valid) = 0
      BY <3>1 DEF NothingCounted, OneIf, id_issues, stall_fetch_decode,
                  resolves_branch
    <3>3. /\ stats.instruction_count = 0 /\ stats.stall_cycles = 0
          /\ stats.branch_mispredictions = 0
      BY <3>1 DEF NothingCounted, no_stats
    <3> QED
      BY <1>4, <1>5, <2>1, <3>2, <3>3
  <2>2. CASE stats.clock_cycles > 0
    <3>1. 1 + stats.instruction_count + InFlight + stats.stall_cycles
            + stats.branch_mispredictions <= stats.clock_cycles
      BY <1>1, <1>3, <2>2 DEF StatsInv, StatsConsistent, OneIf, InFlight
    <3>2. InFlight = OneIf(id_ex.valid) + OneIf(ex_mem.valid)
                       + OneIf(mem_wb.valid)
      BY DEF InFlight
    <3> QED
      BY <1>3, <1>4, <1>5, <2>0, <3>1, <3>2, OneOutcome
  <2> QED
    BY <1>3, <2>1, <2>2
<1>9. stats'.clock_cycles > 0
  BY <1>3, <1>4
<1> QED
  <2>1. StatsConsistent'
    <3>1. stats'.clock_cycles + OneIf(error' /\ mem_wb'.valid)
            = stats'.clock_cycles
      BY <1>3, <1>4, <1>6
    <3> QED
      BY <1>7, <1>8, <3>1 DEF StatsConsistent
  <2>2. stats'.clock_cycles # 0
    BY <1>3, <1>4
  <2> QED
    BY <2>1, <2>2 DEF StatsInv

\* So does a cycle that throws: MEM/WB has retired and stays in its latch.
LEMMA StatsAbort ==
    ASSUME IInv, SimTypeOK, StatsInv, Abort
    PROVE  StatsInv'
<1>1. /\ ~error /\ error' /\ ex_mem.valid
      /\ id_ex' = id_ex /\ ex_mem' = ex_mem /\ mem_wb' = mem_wb
  BY DEF Abort, run_pipeline_cycle_throws, Running, memory_access_throws
<1>2. stats \in ExecutionStats
  BY DEF SimTypeOK
<1>3. /\ stats.clock_cycles \in Nat /\ stats.instruction_count \in Nat
      /\ stats.stall_cycles \in Nat /\ stats.branch_predictions \in Nat
      /\ stats.branch_mispredictions \in Nat
  BY <1>2 DEF ExecutionStats
<1>4. /\ stats'.clock_cycles = stats.clock_cycles
      /\ stats'.instruction_count =
           stats.instruction_count + OneIf(mem_wb.valid)
      /\ stats'.stall_cycles = stats.stall_cycles
      /\ stats'.branch_predictions = stats.branch_predictions
      /\ stats'.branch_mispredictions = stats.branch_mispredictions
  BY <1>2, AbortedStats
<1>5. InFlight' = InFlight /\ InFlight \in Nat
  BY <1>1 DEF InFlight, OneIf
<1>6. stats.clock_cycles # 0
  BY <1>1 DEF StatsInv, NothingCounted
<1>7. OneIf(error /\ mem_wb.valid) = 0
  BY <1>1 DEF OneIf
<1>8. OneIf(error' /\ mem_wb'.valid) = OneIf(mem_wb.valid)
  BY <1>1 DEF OneIf
<1>9. 1 + stats.instruction_count + InFlight + stats.stall_cycles
        + stats.branch_mispredictions <= stats.clock_cycles
  BY <1>3, <1>6, <1>7 DEF StatsInv, StatsConsistent
<1>10. OneIf(mem_wb.valid) \in {0, 1}
  BY OneIfType
<1>11. StatsConsistent'
  BY <1>3, <1>4, <1>5, <1>8, <1>9, <1>10 DEF StatsInv, StatsConsistent
<1> QED
  BY <1>4, <1>6, <1>11 DEF StatsInv

\* Every step of main() keeps the counters consistent.
LEMMA StatsNext ==
    IInv /\ SimTypeOK /\ StatsInv /\ [SimNext]_simVars => StatsInv'
<1> SUFFICES ASSUME IInv, SimTypeOK, StatsInv, [SimNext]_simVars
             PROVE  StatsInv'
  OBVIOUS
<1>1. CASE Tick
  BY <1>1, StatsTick
<1>2. CASE Abort
  BY <1>2, StatsAbort
<1>3. CASE UNCHANGED <<vars, stats>>
  BY <1>3 DEF StatsInv, StatsConsistent, NothingCounted, InFlight, vars
<1> QED
  BY <1>1, <1>2, <1>3 DEF SimNext, Finish, simVars

\* The counters of a new CPU are zero and its latches empty.
LEMMA StatsInit == SimInit => StatsInv
<1> SUFFICES ASSUME SimInit PROVE StatsInv
  OBVIOUS
<1>1. NothingCounted
  BY DEF SimInit, Init, NothingCounted, empty_if_id, empty_id_ex,
         empty_ex_mem, empty_mem_wb
<1> QED
  BY <1>1 DEF StatsInv, StatsConsistent, NothingCounted, no_stats

(***************************************************************************)
(* The statistics main() prints are consistent in every state of every run: *)
(* accuracy() never subtracts below zero, and the cycles cover the          *)
(* instructions, the stalls and the mispredictions.                         *)
(***************************************************************************)
THEOREM StatsCorrect == SimSpec => []StatsConsistent
<1>1. SimInit => StatsInv /\ IInv /\ SimTypeOK
  BY StatsInit, SimInitType
<1>2. StatsInv /\ IInv /\ SimTypeOK /\ [SimNext]_simVars
        => StatsInv' /\ IInv' /\ SimTypeOK'
  BY StatsNext, SimNextType
<1>3. StatsInv => StatsConsistent
  BY DEF StatsInv
<1> QED
  BY <1>1, <1>2, <1>3, PTL DEF SimSpec

-----------------------------------------------------------------------------
(* The trace *)

\* The trace's own state has its types.
TraceTypeOK ==
    /\ trace_options \in CliTraceOptions
    /\ trace_lines_printed \in Nat
    /\ retired_shown \in Nat

\* A traced run of main() is a run of main().
LEMMA TraceStepsSim == [TraceNext]_traceVars => [SimNext]_simVars
BY DEF TraceNext, TracedCycle, TraceFinish, traceVars, SimNext

\* The loop's iterations are its cycles, and the one an exception left.
LEMMA IterationStep ==
    ASSUME SimTypeOK, Tick \/ Abort
    PROVE  /\ Iterations = stats.clock_cycles
           /\ Iterations' = stats.clock_cycles + 1
           /\ stats'.instruction_count =
                stats.instruction_count + OneIf(mem_wb.valid)
           /\ stats.clock_cycles \in Nat
<1>1. stats \in ExecutionStats /\ stats.clock_cycles \in Nat
  BY DEF SimTypeOK, ExecutionStats
<1>2. CASE Tick
  <2>1. ~error /\ ~error' /\ stats' = count_cycle
    BY <1>2 DEF Tick, run_pipeline_cycle, Running
  <2>2. /\ stats'.clock_cycles = stats.clock_cycles + 1
        /\ stats'.instruction_count =
             stats.instruction_count + OneIf(mem_wb.valid)
    BY <1>1, <2>1, CountedStats
  <2> QED
    BY <1>1, <2>1, <2>2 DEF Iterations, OneIf
<1>3. CASE Abort
  <2>1. ~error /\ error'
    BY <1>3 DEF Abort, run_pipeline_cycle_throws, Running
  <2>2. /\ stats'.clock_cycles = stats.clock_cycles
        /\ stats'.instruction_count =
             stats.instruction_count + OneIf(mem_wb.valid)
    BY <1>1, <1>3, AbortedStats
  <2>3. /\ Iterations = stats.clock_cycles
        /\ Iterations' = stats.clock_cycles + 1
    BY <1>1, <2>1, <2>2 DEF Iterations, OneIf
  <2> QED
    BY <1>1, <2>2, <2>3
<1> QED
  BY <1>2, <1>3

\* The window moves by one entry in each cycle that is inside it.
LEMMA WindowStep ==
    ASSUME SimTypeOK, TraceTypeOK, TraceWindow, TracedCycle
    PROVE  TraceTypeOK' /\ TraceWindow'
<1> DEFINE o == trace_options
           c == stats.clock_cycles
           n == trace_lines_printed
<1>1. /\ Iterations = c /\ Iterations' = c + 1 /\ c \in Nat
      /\ stats'.instruction_count =
           stats.instruction_count + OneIf(mem_wb.valid)
  BY IterationStep DEF TracedCycle
<1>2. /\ o.trace \in BOOLEAN /\ o.trace_start \in Nat
      /\ o.has_trace_limit \in BOOLEAN /\ o.trace_limit \in Nat
      /\ n \in Nat /\ retired_shown \in Nat
      /\ o' = o
      /\ OneIf(mem_wb.valid) \in {0, 1}
  BY OneIfType DEF TraceTypeOK, CliTraceOptions, TracedCycle
<1>3. CASE should_print_trace
  <2>1. /\ entry'.cycle = c /\ n' = n + 1
        /\ retired_shown' = retired_shown + OneIf(mem_wb.valid)
    BY <1>3 DEF TracedCycle, print_pipeline_trace
  <2>2. /\ o.trace /\ c >= o.trace_start
        /\ o.has_trace_limit => n < o.trace_limit
    BY <1>3 DEF should_print_trace
  <2>3. n = c - o.trace_start
    BY <1>1, <1>2, <2>2 DEF TraceWindow, AtMost
  <2>4. TraceTypeOK'
    BY <1>2, <2>1 DEF TraceTypeOK
  <2>5. n' = IF o.has_trace_limit THEN AtMost(c + 1 - o.trace_start, o.trace_limit)
             ELSE c + 1 - o.trace_start
    BY <1>1, <1>2, <2>1, <2>2, <2>3 DEF AtMost
  <2>6. entry'.cycle = o.trace_start + n' - 1
    BY <1>1, <1>2, <2>1, <2>3
  <2>7. ~o.has_trace_limit /\ o.trace_start = 0 =>
           retired_shown' = stats'.instruction_count
    BY <1>1, <2>1, <2>2 DEF TraceWindow
  <2>8. ~(c + 1 <= o.trace_start)
    BY <1>1, <1>2, <2>2
  <2> QED
    BY <1>1, <1>2, <2>2, <2>4, <2>5, <2>6, <2>7, <2>8 DEF TraceWindow
<1>4. CASE ~should_print_trace
  <2>1. entry' = entry /\ n' = n /\ retired_shown' = retired_shown
    BY <1>4 DEF TracedCycle
  <2>2. \/ ~o.trace
        \/ c < o.trace_start
        \/ o.trace /\ o.has_trace_limit /\ n >= o.trace_limit
    BY <1>1, <1>2, <1>4 DEF should_print_trace
  <2>3. n' = IF ~o.trace THEN 0
             ELSE IF o.has_trace_limit
             THEN AtMost(IF c + 1 <= o.trace_start THEN 0
                         ELSE c + 1 - o.trace_start, o.trace_limit)
             ELSE IF c + 1 <= o.trace_start THEN 0
                  ELSE c + 1 - o.trace_start
    BY <1>1, <1>2, <2>1, <2>2 DEF TraceWindow, AtMost
  <2>4. n' > 0 => entry'.cycle = o.trace_start + n' - 1
    BY <2>1 DEF TraceWindow
  <2>5. ~(o.trace /\ ~o.has_trace_limit /\ o.trace_start = 0)
    BY <1>1, <1>2, <2>2
  <2>6. TraceTypeOK'
    BY <1>2, <2>1 DEF TraceTypeOK
  <2> QED
    BY <1>1, <1>2, <2>3, <2>4, <2>5, <2>6 DEF TraceWindow
<1> QED
  BY <1>3, <1>4

\* Every step of a traced run keeps the window.
LEMMA WindowNext ==
    SimTypeOK /\ TraceTypeOK /\ TraceWindow /\ [TraceNext]_traceVars
      => TraceTypeOK' /\ TraceWindow'
<1> SUFFICES ASSUME SimTypeOK, TraceTypeOK, TraceWindow, [TraceNext]_traceVars
             PROVE  TraceTypeOK' /\ TraceWindow'
  OBVIOUS
<1>1. CASE TracedCycle
  BY <1>1, WindowStep
<1>2. CASE UNCHANGED <<error, stats, trace_options, trace_lines_printed,
                       entry, retired_shown>>
  BY <1>2 DEF TraceTypeOK, TraceWindow, Iterations
<1> QED
  BY <1>1, <1>2 DEF TraceNext, TraceFinish, Finish, traceVars, simVars, vars

\* Nothing is printed before the first cycle.
LEMMA WindowInit == TraceInit => TraceTypeOK /\ TraceWindow
<1> SUFFICES ASSUME TraceInit PROVE TraceTypeOK /\ TraceWindow
  OBVIOUS
<1>1. trace_options \in CliTraceOptions
  BY TraceAssumption DEF TraceInit
<1>2. Iterations = 0 /\ stats.instruction_count = 0
  BY DEF TraceInit, SimInit, Init, no_stats, Iterations, OneIf
<1>3. trace_options.trace_start \in Nat /\ trace_options.trace_limit \in Nat
  BY <1>1 DEF CliTraceOptions
<1> QED
  BY <1>1, <1>2, <1>3 DEF TraceInit, TraceTypeOK, TraceWindow, AtMost

\* What every traced run keeps.
TraceInv == IInv /\ SimTypeOK /\ TraceTypeOK /\ TraceWindow

\* Before the first cycle nothing has been printed.
LEMMA TraceInvInit == TraceInit => TraceInv
BY WindowInit, SimInitType DEF TraceInit, TraceInv

\* Each iteration of the loop keeps the window.
LEMMA TraceInvNext == TraceInv /\ [TraceNext]_traceVars => TraceInv'
BY WindowNext, TraceStepsSim, SimNextType DEF TraceInv

(***************************************************************************)
(* --trace-start and --trace-limit select exactly the cycles they name, for *)
(* every start and every limit, and an unbounded trace shows every          *)
(* retirement, also that of a cycle that throws.                            *)
(***************************************************************************)
THEOREM TraceWindowCorrect == TraceSpec => []TraceWindow
<1>1. TraceInv => TraceWindow
  BY DEF TraceInv
<1> QED
  BY <1>1, TraceInvInit, TraceInvNext, PTL DEF TraceSpec

-----------------------------------------------------------------------------
(* Reading a trace from one entry to the next *)

\* Without its prediction, an entry's latch is printed like any other.
LEMMA PrintedAlike ==
    ASSUME NEW a, NEW b, a.valid <=> b.valid,
           a.valid => a.pc = b.pc /\ a.instruction = b.instruction
    PROVE  SameInstruction(print_latch(a), print_latch_prediction(b))
<1>1. print_latch(a) = print_latch(b)
  BY DEF print_latch
<1>2. [print_latch_prediction(b) EXCEPT !.next_pc = 0]
        = [print_latch(b) EXCEPT !.next_pc = 0]
  BY DEF print_latch_prediction, print_latch, bubble
<1> QED
  BY <1>1, <1>2 DEF SameInstruction

\* Consecutive cycles show consecutive entries.
LEMMA EntriesFollow ==
    ASSUME IInv, run_pipeline_cycle
    PROVE  Follows(print_pipeline_trace', print_pipeline_trace)
<1> DEFINE now == print_pipeline_trace
           next == print_pipeline_trace'
<1>0. /\ now.if_id = print_latch_prediction(if_id)
      /\ now.id_ex = print_latch_prediction(id_ex)
      /\ now.ex_mem = print_latch(ex_mem)
      /\ next.if_id = print_latch_prediction(if_id')
      /\ next.id_ex = print_latch_prediction(id_ex')
      /\ next.ex_mem = print_latch(ex_mem')
      /\ next.mem_wb = print_latch(mem_wb')
  BY DEF print_pipeline_trace, print_latch_prediction, print_latch
<1>1. next.mem_wb = now.ex_mem
  BY <1>0, StageMemFacts DEF print_latch
<1>2. SameInstruction(next.ex_mem, now.id_ex)
  BY <1>0, PrintedAlike, StageExFacts
<1>3. CASE id_issues
  <2>1. /\ id_ex'.valid /\ if_id.valid /\ id_ex'.pc = if_id.pc
        /\ id_ex'.instruction = if_id.instruction
        /\ id_ex'.predicted_next_pc = if_id.predicted_next_pc
    BY <1>3, StageIdFacts DEF id_issues
  <2>2. next.id_ex = now.if_id
    BY <1>0, <2>1 DEF print_latch_prediction, print_latch
  <2> QED
    BY <1>1, <1>2, <2>2 DEF Follows
<1>4. CASE ~id_issues
  <2>1. next.id_ex = bubble
    BY <1>0, <1>4, StageIdFacts DEF print_latch_prediction, print_latch
  <2>2. id_ex.valid => /\ now.id_ex.op = decode_instruction[id_ex.instruction].kind
                       /\ id_ex.instruction \in Word
                       /\ id_ex.control
                            = decode_instruction[id_ex.instruction].control
    BY <1>0 DEF print_latch_prediction, print_latch, IInv, TypeOK,
                IDEXRegister, LatchesDecoded, DecodedFrom
  <2>3. CASE ~if_id.valid
    <3>1. now.if_id = bubble
      BY <1>0, <2>3 DEF print_latch_prediction, print_latch
    <3> QED
      BY <1>1, <1>2, <2>1, <3>1 DEF Follows
  <2>4. CASE flush_id_ex
    <3>1. id_ex.valid /\ (id_ex.control.branch \/ id_ex.control.jump)
      BY <2>4 DEF flush_id_ex
    <3>2. now.id_ex.op \in Redirecting
      BY <2>2, <3>1, ControlFacts DEF Redirecting
    <3> QED
      BY <1>1, <1>2, <2>1, <3>2 DEF Follows
  <2>5. CASE stall_fetch_decode
    <3>1. id_ex.valid /\ id_ex.control.mem_read /\ if_id.valid /\ ~id_issues
      BY <2>5 DEF stall_fetch_decode, raw_dependency, id_issues
    <3>2. now.id_ex.op \in LoadKinds
      BY <2>2, <3>1, ControlFacts
    <3>3. ~fetch_stopped
      BY <3>1 DEF fetch_stopped, stop_fetch, halt_is_in_flight, IInv,
                  HaltBarrier
    <3>4. if_id' = if_id
      BY <2>5, <3>3, StageIfFacts
    <3> QED
      BY <1>0, <1>1, <1>2, <2>1, <3>2, <3>4 DEF Follows
  <2>6. CASE if_id.valid /\ ~is_valid_instruction(decoded)
    <3>1. now.if_id.op = "Invalid"
      BY <1>0, <2>6 DEF print_latch_prediction, print_latch, decoded,
                        is_valid_instruction
    <3> QED
      BY <1>1, <1>2, <2>1, <3>1 DEF Follows
  <2> QED
    BY <1>4, <2>3, <2>4, <2>5, <2>6 DEF id_issues
<1> QED
  BY <1>3, <1>4

\* The last entry and the state it leads to, when no cycle went unprinted.
EntryIsCurrent ==
    /\ trace_lines_printed > 0
    /\ ~error
    /\ entry.cycle + 1 = stats.clock_cycles
    => Follows(print_pipeline_trace, entry)

\* Entries lie behind the current cycle; inside the window, right behind it.
LEMMA LastEntry ==
    ASSUME TraceInv, TracedCycle, trace_lines_printed > 0
    PROVE  /\ entry.cycle \in Nat /\ entry.cycle < stats.clock_cycles
           /\ should_print_trace => entry.cycle + 1 = stats.clock_cycles
<1> DEFINE o == trace_options
           n == trace_lines_printed
<1>1. Iterations = stats.clock_cycles /\ stats.clock_cycles \in Nat
  BY IterationStep DEF TraceInv, TracedCycle
<1>2. /\ o.trace \in BOOLEAN /\ o.trace_start \in Nat
      /\ o.has_trace_limit \in BOOLEAN /\ o.trace_limit \in Nat
      /\ n \in Nat
  BY DEF TraceInv, TraceTypeOK, CliTraceOptions
<1>3. entry.cycle = o.trace_start + n - 1
  BY DEF TraceInv, TraceWindow
<1>4. n <= stats.clock_cycles - o.trace_start
  BY <1>1, <1>2 DEF TraceInv, TraceWindow, AtMost
<1>5. should_print_trace => n = stats.clock_cycles - o.trace_start
  BY <1>1, <1>2 DEF TraceInv, TraceWindow, AtMost, should_print_trace
<1> QED
  BY <1>1, <1>2, <1>3, <1>4, <1>5

\* The entry printed before a cycle is still about the cycle before.
LEMMA EntryStep ==
    TraceInv /\ EntryIsCurrent /\ [TraceNext]_traceVars => EntryIsCurrent'
<1> SUFFICES ASSUME TraceInv, EntryIsCurrent, [TraceNext]_traceVars
             PROVE  EntryIsCurrent'
  OBVIOUS
<1>1. CASE TracedCycle
  <2>1. CASE Abort
    BY <2>1 DEF Abort, run_pipeline_cycle_throws, EntryIsCurrent
  <2>2. CASE Tick /\ should_print_trace
    <3>1. entry' = print_pipeline_trace
      BY <1>1, <2>2 DEF TracedCycle
    <3>2. Follows(print_pipeline_trace', print_pipeline_trace)
      BY <2>2, EntriesFollow DEF Tick, TraceInv
    <3> QED
      BY <3>1, <3>2 DEF EntryIsCurrent
  <2>3. CASE Tick /\ ~should_print_trace
    <3>1. entry' = entry /\ trace_lines_printed' = trace_lines_printed
      BY <1>1, <2>3 DEF TracedCycle
    <3>2. /\ stats'.clock_cycles = stats.clock_cycles + 1
          /\ stats.clock_cycles \in Nat
      BY <2>3, CountedStats DEF Tick, TraceInv, SimTypeOK, ExecutionStats
    <3> QED
      BY <1>1, <3>1, <3>2, LastEntry DEF EntryIsCurrent
  <2> QED
    BY <1>1, <2>1, <2>2, <2>3 DEF TracedCycle
<1>2. CASE UNCHANGED <<vars, stats, trace_lines_printed, entry>>
  <2>1. print_pipeline_trace' = print_pipeline_trace
    BY <1>2 DEF print_pipeline_trace, print_latch_prediction, print_latch, vars
  <2> QED
    BY <1>2, <2>1 DEF EntryIsCurrent, vars
<1> QED
  BY <1>1, <1>2 DEF TraceNext, TraceFinish, Finish, traceVars, simVars

(***************************************************************************)
(* A trace can be read from one entry to the next, in every run: what       *)
(* print_pipeline_trace() shows in one latch is in the next latch of the    *)
(* next entry, and an instruction of IF/ID that is not was held by a load,  *)
(* dropped as unknown, or behind a branch or a jump.                        *)
(***************************************************************************)
THEOREM TraceCorrect == TraceSpec => TraceReadsOn
<1>1. TraceInit => TraceInv /\ EntryIsCurrent
  BY TraceInvInit DEF TraceInit, EntryIsCurrent
<1>2. TraceInv /\ EntryIsCurrent /\ [TraceNext]_traceVars
        => TraceInv' /\ EntryIsCurrent'
  BY TraceInvNext, EntryStep
<1>3. TraceInv /\ EntryIsCurrent /\ [TraceNext]_traceVars
        => [trace_lines_printed > 0
              /\ trace_lines_printed' > trace_lines_printed
              => Follows(entry', entry)]_traceVars
  <2> SUFFICES ASSUME TraceInv, EntryIsCurrent, [TraceNext]_traceVars,
                      trace_lines_printed > 0,
                      trace_lines_printed' > trace_lines_printed
               PROVE  Follows(entry', entry)
    OBVIOUS
  <2>1. trace_lines_printed \in Nat
    BY DEF TraceInv, TraceTypeOK
  <2>2. trace_lines_printed' # trace_lines_printed
    BY <2>1
  <2>3. TracedCycle /\ should_print_trace
    BY <2>2 DEF TraceNext, TracedCycle, TraceFinish, traceVars
  <2>4. entry' = print_pipeline_trace
    BY <2>3 DEF TracedCycle
  <2>5. entry.cycle + 1 = stats.clock_cycles
    BY <2>3, LastEntry
  <2>6. ~error
    BY <2>3 DEF TracedCycle, Tick, Abort, run_pipeline_cycle,
                run_pipeline_cycle_throws, Running
  <2> QED
    BY <2>4, <2>5, <2>6 DEF EntryIsCurrent
<1> QED
  BY <1>1, <1>2, <1>3, PTL DEF TraceSpec, TraceReadsOn

-----------------------------------------------------------------------------
(* The steps of a complete run *)

\* A complete run is a traced run.
LEMMA RetireStepsTrace == [RetireNext]_retireVars => [TraceNext]_traceVars
BY DEF RetireNext, RetireCycle, RetireFinish, retireVars, TraceNext

\* What the invariants of the simulator give in every state of a run.
RunInv == IInv /\ SimTypeOK /\ StatsInv

\* A run starts in a state of the pipeline and with zero counters.
LEMMA RunInvInit == RetireInit => RunInv
BY SimInitType, StatsInit DEF RetireInit, TraceInit, RunInv

\* Each step of a run is one of the pipeline and of the counters.
LEMMA RunInvNext == RunInv /\ [RetireNext]_retireVars => RunInv'
BY RetireStepsTrace, TraceStepsSim, SimNextType, StatsNext DEF RunInv

\* A step of the run: a cycle that completes, one that throws, or neither.
LEMMA RetireSteps ==
    ASSUME [RetireNext]_retireVars
    PROVE  \/ RetireCycle /\ Tick
           \/ RetireCycle /\ Abort
           \/ Finish /\ UNCHANGED <<vars, options, stats, historyVars>>
           \/ UNCHANGED <<vars, options, stats, status, historyVars>>
BY DEF RetireNext, RetireCycle, RetireFinish, TracedCycle, TraceFinish,
       Finish, retireVars, traceVars, simVars, historyVars

-----------------------------------------------------------------------------
(* --retire-count *)

\* The loop stops as soon as the count is reached.
LEMMA RetireCountStep ==
    RunInv /\ RetireCountExact /\ [RetireNext]_retireVars => RetireCountExact'
<1> SUFFICES ASSUME RunInv, RetireCountExact, [RetireNext]_retireVars
             PROVE  RetireCountExact'
  OBVIOUS
<1>1. /\ stats \in ExecutionStats /\ stats.instruction_count \in Nat
      /\ options.retire_count \in Nat
  BY DEF RunInv, SimTypeOK, ExecutionStats, CliOptions
<1>2. CASE Tick \/ Abort
  <2>1. stats'.instruction_count =
          stats.instruction_count + OneIf(mem_wb.valid)
    BY <1>2, IterationStep DEF RunInv
  <2>2. options' = options /\ keep_running /\ status' # "success"
    BY <1>2 DEF Tick, Abort
  <2>3. options.has_retire_count =>
          stats.instruction_count + 1 <= options.retire_count
    BY <1>1, <2>2 DEF keep_running, reached_target
  <2> QED
    BY <1>1, <2>1, <2>2, <2>3, OneIfType DEF RetireCountExact
<1>3. CASE Finish /\ UNCHANGED <<vars, options, stats>>
  <2>1. status' = "success" /\ ~halted => reached_target
    BY <1>3 DEF Finish
  <2> QED
    BY <1>1, <1>3, <2>1 DEF RetireCountExact, reached_target, vars
<1>4. CASE UNCHANGED <<vars, options, stats, status>>
  BY <1>4 DEF RetireCountExact, vars
<1> QED
  BY <1>2, <1>3, <1>4, RetireSteps

(***************************************************************************)
(* --retire-count=N never retires more than N instructions, and a run it    *)
(* ends has retired exactly N, whatever else stops the run in that cycle.   *)
(***************************************************************************)
THEOREM RetireCountCorrect == RetireSpec => []RetireCountExact
<1>1. RetireInit => RunInv /\ RetireCountExact
  <2> SUFFICES ASSUME RetireInit PROVE RetireCountExact
    BY RunInvInit
  <2>1. options.retire_count \in Nat
    BY OptionsAssumption DEF RetireInit, TraceInit, SimInit, CliOptions
  <2> QED
    BY <2>1 DEF RetireInit, TraceInit, SimInit, no_stats, RetireCountExact
<1>2. RunInv /\ RetireCountExact /\ [RetireNext]_retireVars
        => RunInv' /\ RetireCountExact'
  BY RunInvNext, RetireCountStep
<1> QED
  BY <1>1, <1>2, PTL DEF RetireSpec

-----------------------------------------------------------------------------
(* What the cycles of a run were spent on *)

\* The cycles for which nothing has entered behind a halt instruction.
HaltSlack ==
    OneIf(ex_mem.valid /\ ex_mem.control.halt)
      + 2 * OneIf(mem_wb.valid /\ mem_wb.control.halt)
      + 3 * OneIf(halted)

\* Every instruction, drop, stall and misprediction has a cycle of its own.
BudgetLow ==
    stats.clock_cycles > 0 =>
      1 + stats.instruction_count + InFlight + stats.stall_cycles
        + stats.branch_mispredictions + dropped + HaltSlack
          <= stats.clock_cycles

\* Fetch has run off the end of RAM, and no halt is under way.
Stuck ==
    /\ ~if_id.valid /\ ~id_ex.valid
    /\ ~valid_memory_access(pc, 4)
    /\ ~halt_is_in_flight /\ ~halted

\* Every cycle is that of an instruction or a drop, or of the one bubble an
\* instruction causes, or of a halt draining.
BudgetHigh ==
    \/ Stuck
    \/ stats.clock_cycles
         <= 2 * (stats.instruction_count + InFlight) + dropped
              + (1 - OneIf(id_ex.valid))
              + OneIf(mem_wb.valid /\ mem_wb.control.halt)
              + 2 * OneIf(halted)

\* Why IF/ID can be empty.
FetchPaused ==
    ~if_id.valid => \/ stats.clock_cycles = 0
                    \/ halt_is_in_flight
                    \/ halted
                    \/ ~valid_memory_access(pc, 4)

BudgetInv ==
    /\ dropped \in Nat
    /\ stats.clock_cycles = 0 => dropped = 0
    /\ ~error => BudgetLow /\ BudgetHigh /\ FetchPaused

\* What one cycle does to the counts, and to the halt that may be in flight.
LEMMA BudgetOutcome ==
    ASSUME RunInv, BudgetInv, RetireCycle, Tick
    PROVE  /\ ~error /\ ~error' /\ ~halted
           /\ stats'.clock_cycles = stats.clock_cycles + 1
           /\ stats'.instruction_count + InFlight' =
                stats.instruction_count + InFlight + OneIf(id_issues)
           /\ stats'.stall_cycles =
                stats.stall_cycles + OneIf(stall_fetch_decode)
           /\ stats'.branch_mispredictions =
                stats.branch_mispredictions
                  + OneIf(resolves_branch /\ flush_id_ex)
           /\ dropped' = dropped + OneIf(drops_unknown)
           /\ ex_mem'.valid /\ ex_mem'.control.halt <=>
                id_ex.valid /\ id_ex.control.halt
           /\ mem_wb'.valid /\ mem_wb'.control.halt <=>
                ex_mem.valid /\ ex_mem.control.halt
           /\ halted' <=> mem_wb.valid /\ mem_wb.control.halt
           /\ id_ex'.valid <=> id_issues
<1>1. run_pipeline_cycle /\ stats' = count_cycle /\ IInv
  BY DEF Tick, RunInv
<1>2. stats \in ExecutionStats
  BY DEF RunInv, SimTypeOK
<1>3. /\ stats.clock_cycles \in Nat /\ stats.instruction_count \in Nat
  BY <1>2 DEF ExecutionStats
<1>4. ~error /\ ~error' /\ ~halted
  BY <1>1 DEF run_pipeline_cycle, Running
<1>5. stats'.instruction_count + InFlight' =
        stats.instruction_count + InFlight + OneIf(id_issues)
  <2>1. stats'.instruction_count =
          stats.instruction_count + OneIf(mem_wb.valid)
    BY <1>1, <1>2, CountedStats
  <2>2. InFlight' = OneIf(id_issues) + OneIf(id_ex.valid) + OneIf(ex_mem.valid)
    BY <1>1, InFlightAfterCycle
  <2> QED
    BY <1>3, <2>1, <2>2, OneIfType DEF InFlight
<1>6. dropped' = dropped + OneIf(drops_unknown)
  BY <1>4 DEF RetireCycle
<1>7. halted' <=> mem_wb.valid /\ mem_wb.control.halt
  BY <1>1, <1>4 DEF run_pipeline_cycle, stage_WB
<1>8. /\ ex_mem'.valid /\ ex_mem'.control.halt <=>
           id_ex.valid /\ id_ex.control.halt
      /\ mem_wb'.valid /\ mem_wb'.control.halt <=>
           ex_mem.valid /\ ex_mem.control.halt
      /\ id_ex'.valid <=> id_issues
  BY <1>1, StageExFacts, StageMemFacts, StageIdFacts
<1> QED
  BY <1>1, <1>2, <1>4, <1>5, <1>6, <1>7, <1>8, CountedStats

\* Once fetch is stuck it stays so.
LEMMA StuckStays ==
    ASSUME RunInv, BudgetInv, RetireCycle, Tick, Stuck
    PROVE  Stuck'
<1>1. run_pipeline_cycle /\ IInv
  BY DEF Tick, RunInv
<1>2. /\ ~id_issues /\ ~stall_fetch_decode /\ ~flush_id_ex
      /\ ~fetch_stopped /\ pc_after_ex = pc
  BY DEF Stuck, id_issues, stall_fetch_decode, flush_id_ex, fetch_stopped,
         stop_fetch, pc_after_ex
<1>3. if_id' = empty_if_id /\ pc' = pc
  BY <1>1, <1>2 DEF run_pipeline_cycle, stage_IF, Stuck
<1>4. ~if_id'.valid /\ ~id_ex'.valid /\ ~ex_mem'.valid
  BY <1>1, <1>2, <1>3, StageIdFacts, StageExFacts DEF Stuck, empty_if_id
<1>5. ~(mem_wb'.valid /\ mem_wb'.control.halt) /\ ~halted'
  BY BudgetOutcome DEF Stuck, halt_is_in_flight
<1> QED
  BY <1>3, <1>4, <1>5 DEF Stuck, halt_is_in_flight

\* After a cycle IF/ID is empty only behind a halt or past the end of RAM.
LEMMA FetchPausedStep ==
    ASSUME RunInv, BudgetInv, RetireCycle, Tick
    PROVE  FetchPaused'
<1>1. run_pipeline_cycle /\ IInv
  BY DEF Tick, RunInv
<1>2. CASE fetch_stopped
  <2>1. CASE stop_fetch
    BY <1>1, <2>1, StageIdFacts
    DEF stop_fetch, FetchPaused, halt_is_in_flight
  <2>2. CASE halt_is_in_flight
    BY <2>2, BudgetOutcome DEF FetchPaused, halt_is_in_flight
  <2> QED
    BY <1>2, <2>1, <2>2 DEF fetch_stopped
<1>3. CASE ~fetch_stopped /\ stall_fetch_decode
  BY <1>1, <1>3, StageIfFacts DEF FetchPaused, stall_fetch_decode
<1>4. CASE ~fetch_stopped /\ ~stall_fetch_decode
  BY <1>1, <1>4
  DEF run_pipeline_cycle, stage_IF, next_if_id, FetchPaused
<1> QED
  BY <1>2, <1>3, <1>4

\* A cycle issues, stalls, mispredicts or drops; behind a halt it does nothing.
LEMMA OneOutcomeOrDrop ==
    ASSUME RunInv
    PROVE  /\ OneIf(id_issues) + OneIf(stall_fetch_decode)
                + OneIf(resolves_branch /\ flush_id_ex)
                + OneIf(drops_unknown) \in {0, 1}
           /\ \/ halt_is_in_flight
              \/ ~if_id.valid /\ ~id_ex.valid
              => /\ OneIf(id_issues) = 0 /\ OneIf(stall_fetch_decode) = 0
                 /\ OneIf(resolves_branch /\ flush_id_ex) = 0
                 /\ OneIf(drops_unknown) = 0
<1>1. OneIf(id_issues) + OneIf(stall_fetch_decode)
        + OneIf(resolves_branch /\ flush_id_ex) + OneIf(drops_unknown)
          \in {0, 1}
  BY DEF OneIf, id_issues, stall_fetch_decode, drops_unknown
<1>2. ASSUME halt_is_in_flight \/ (~if_id.valid /\ ~id_ex.valid)
      PROVE  /\ ~if_id.valid
             /\ ~resolves_branch
  <2>1. CASE id_ex.valid /\ id_ex.control.halt
    <3>1. ~if_id.valid
      BY <2>1 DEF RunInv, IInv, HaltBarrier
    <3>2. /\ id_ex.instruction \in Word
          /\ id_ex.control = decode_instruction[id_ex.instruction].control
      BY <2>1 DEF RunInv, IInv, TypeOK, IDEXRegister, LatchesDecoded,
                  DecodedFrom
    <3>3. ~id_ex.control.branch
      BY <2>1, <3>2, ControlFacts DEF HaltKinds, BranchKinds
    <3> QED
      BY <3>1, <3>3 DEF resolves_branch
  <2>2. CASE ~if_id.valid /\ ~id_ex.valid
    BY <2>2 DEF resolves_branch
  <2> QED
    BY <1>2, <2>1, <2>2 DEF halt_is_in_flight, RunInv, IInv, HaltBarrier
<1> QED
  BY <1>1, <1>2 DEF OneIf, id_issues, stall_fetch_decode, drops_unknown

\* The counts of a state, as numbers.
LEMMA BudgetNumbers ==
    ASSUME RunInv, BudgetInv
    PROVE  /\ stats.clock_cycles \in Nat
           /\ stats.instruction_count + InFlight \in Nat
           /\ stats.stall_cycles \in Nat
           /\ stats.branch_mispredictions \in Nat
           /\ dropped \in Nat
<1>1. stats \in ExecutionStats
  BY DEF RunInv, SimTypeOK
<1>2. InFlight \in Nat
  BY OneIfType DEF InFlight
<1> QED
  BY <1>1, <1>2 DEF ExecutionStats, BudgetInv

\* No cycle does more than the lower bound accounts for.
LEMMA BudgetLowStep ==
    ASSUME RunInv, BudgetInv, RetireCycle, Tick
    PROVE  BudgetLow'
<1> DEFINE c == stats.clock_cycles
           i == stats.instruction_count + InFlight
           st == stats.stall_cycles
           mp == stats.branch_mispredictions
           issue == OneIf(id_issues)
           stall == OneIf(stall_fetch_decode)
           miss == OneIf(resolves_branch /\ flush_id_ex)
           drop == OneIf(drops_unknown)
           hx == OneIf(id_ex.valid /\ id_ex.control.halt)
           hm == OneIf(ex_mem.valid /\ ex_mem.control.halt)
           hw == OneIf(mem_wb.valid /\ mem_wb.control.halt)
           slack == HaltSlack
           before == dropped
           after == dropped'
           slack_after == HaltSlack'
           c_after == c'
           i_after == i'
           st_after == st'
           mp_after == mp'
<1>1. c \in Nat /\ i \in Nat /\ before \in Nat /\ st \in Nat /\ mp \in Nat
  BY BudgetNumbers
<1>2. /\ c_after = c + 1 /\ i_after = i + issue /\ st_after = st + stall
      /\ mp_after = mp + miss /\ after = before + drop
  BY BudgetOutcome
<1>3. /\ issue \in {0, 1} /\ stall \in {0, 1} /\ miss \in {0, 1}
      /\ drop \in {0, 1} /\ hx \in {0, 1} /\ hm \in {0, 1} /\ hw \in {0, 1}
  BY OneIfType
<1>4. slack_after = hx + 2 * hm + 3 * hw
  BY BudgetOutcome DEF HaltSlack, OneIf
<1>5. slack = hm + 2 * hw
  BY BudgetOutcome DEF HaltSlack, OneIf
<1>6. hx + hm + hw <= 1
  BY DEF OneIf, RunInv, IInv, HaltBarrier
<1>7. issue + stall + miss + drop \in {0, 1}
  BY OneOutcomeOrDrop
<1>8. hx + hm + hw > 0 =>
        issue = 0 /\ stall = 0 /\ miss = 0 /\ drop = 0
  <2>1. hx + hm + hw > 0 => halt_is_in_flight
    BY DEF OneIf, halt_is_in_flight
  <2> QED
    BY <2>1, OneOutcomeOrDrop
<1>9. SUFFICES 1 + i_after + st_after + mp_after + after + slack_after
                 <= c_after
  <2>1. stats'.instruction_count \in Nat /\ InFlight' \in Nat
    <3>1. SimTypeOK'
      BY SimNextType DEF RunInv, SimNext
    <3> QED
      BY <3>1, OneIfType DEF SimTypeOK, ExecutionStats, InFlight
  <2>2. /\ st_after \in Nat /\ mp_after \in Nat /\ after \in Nat
        /\ slack_after \in Nat
    <3> HIDE DEF st, mp, stall, miss, drop, hx, hm, hw, before, after,
                 slack_after, st_after, mp_after
    <3> QED
      BY <1>1, <1>2, <1>3, <1>4
  <2> QED
    BY <2>1, <2>2 DEF BudgetLow
<1>10. c > 0 => 1 + i + st + mp + before + slack <= c
  <2>1. stats.instruction_count \in Nat /\ InFlight \in Nat
    BY OneIfType DEF RunInv, SimTypeOK, ExecutionStats, InFlight
  <2>2. BudgetLow
    BY BudgetOutcome DEF BudgetInv
  <2> QED
    BY <1>1, <1>3, <1>5, <2>1, <2>2 DEF BudgetLow
<1>11. c = 0 => /\ i = 0 /\ st = 0 /\ mp = 0 /\ before = 0
                /\ issue = 0 /\ stall = 0 /\ miss = 0 /\ drop = 0
                /\ hx = 0 /\ hm = 0 /\ hw = 0
  <2> SUFFICES ASSUME c = 0
               PROVE  /\ i = 0 /\ st = 0 /\ mp = 0 /\ before = 0
                      /\ issue = 0 /\ stall = 0 /\ miss = 0 /\ drop = 0
                      /\ hx = 0 /\ hm = 0 /\ hw = 0
    OBVIOUS
  <2>1. NothingCounted /\ dropped = 0
    BY DEF RunInv, StatsInv, BudgetInv
  <2>2. i = 0 /\ st = 0 /\ mp = 0
    BY <2>1 DEF NothingCounted, no_stats, InFlight, OneIf
  <2>3. issue = 0 /\ stall = 0 /\ miss = 0 /\ drop = 0
    BY <2>1, OneOutcomeOrDrop DEF NothingCounted
  <2>4. hx = 0 /\ hm = 0 /\ hw = 0
    BY <2>1 DEF NothingCounted, OneIf
  <2> QED
    BY <2>1, <2>2, <2>3, <2>4
<1> HIDE DEF c, i, st, mp, issue, stall, miss, drop, hx, hm, hw, slack,
             before, after, slack_after, c_after, i_after, st_after, mp_after
<1> QED
  BY <1>1, <1>2, <1>3, <1>4, <1>5, <1>6, <1>7, <1>8, <1>10, <1>11

\* No cycle is spent that the upper bound does not account for.
LEMMA BudgetHighStep ==
    ASSUME RunInv, BudgetInv, RetireCycle, Tick
    PROVE  BudgetHigh'
<1> DEFINE c == stats.clock_cycles
           i == stats.instruction_count + InFlight
           x == OneIf(id_ex.valid)
           hw == OneIf(mem_wb.valid /\ mem_wb.control.halt)
           hm == OneIf(ex_mem.valid /\ ex_mem.control.halt)
           issue == OneIf(id_issues)
           drop == OneIf(drops_unknown)
           before == dropped
           after == dropped'
           c_after == c'
           i_after == i'
<1>1. c \in Nat /\ i \in Nat /\ before \in Nat
  BY BudgetNumbers
<1>2. c_after = c + 1 /\ i_after = i + issue /\ after = before + drop
  BY BudgetOutcome
<1>3. /\ x \in {0, 1} /\ hw \in {0, 1} /\ hm \in {0, 1}
      /\ issue \in {0, 1} /\ drop \in {0, 1}
  BY OneIfType
<1>4. /\ OneIf(id_ex'.valid) = issue
      /\ OneIf(mem_wb'.valid /\ mem_wb'.control.halt) = hm
      /\ OneIf(halted') = hw
      /\ OneIf(halted) = 0
  BY BudgetOutcome DEF OneIf
<1>5. CASE Stuck
  BY <1>5, StuckStays DEF BudgetHigh
<1>6. CASE ~Stuck
  <2>1. c <= 2 * i + before + (1 - x) + hw
    BY <1>1, <1>3, <1>4, <1>6, BudgetOutcome DEF BudgetInv, BudgetHigh
  <2>2. SUFFICES c_after <= 2 * i_after + after + (1 - issue) + hm + 2 * hw
    BY <1>4 DEF BudgetHigh
  <2>3. x = 1 \/ issue = 1 \/ drop = 1 => hw = 0
    BY DEF RunInv, IInv, HaltBarrier, OneIf, id_issues, drops_unknown
  <2>4. x = 1 \/ issue = 1 \/ drop = 1 \/ c = 0 \/ hm = 1 \/ hw = 1
    <3> SUFFICES ASSUME ~id_ex.valid, ~id_issues, ~drops_unknown, c # 0
                 PROVE  hm = 1 \/ hw = 1
      BY DEF OneIf
    <3>1. ~if_id.valid
      BY DEF id_issues, drops_unknown, stall_fetch_decode, raw_dependency,
             flush_id_ex
    <3>2. halt_is_in_flight
      BY <1>6, <3>1, BudgetOutcome DEF BudgetInv, FetchPaused, Stuck
    <3> QED
      BY <3>2 DEF halt_is_in_flight, OneIf
  <2>5. c = 0 => i = 0 /\ before = 0 /\ issue = 0 /\ drop = 0
    <3> SUFFICES ASSUME c = 0 PROVE i = 0 /\ before = 0 /\ issue = 0 /\ drop = 0
      OBVIOUS
    <3>1. NothingCounted /\ dropped = 0
      BY DEF RunInv, StatsInv, BudgetInv
    <3> QED
      BY <3>1 DEF NothingCounted, no_stats, InFlight, OneIf, id_issues,
                  drops_unknown
  <2>6. issue + drop <= 1
    BY DEF OneIf, id_issues, drops_unknown
  <2> HIDE DEF c, i, x, hw, hm, issue, drop, before, after, c_after, i_after
  <2> QED
    BY <1>1, <1>2, <1>3, <2>1, <2>3, <2>4, <2>5, <2>6
<1> QED
  BY <1>5, <1>6

\* Every step of a run keeps the budget.
LEMMA BudgetStep ==
    RunInv /\ BudgetInv /\ [RetireNext]_retireVars => BudgetInv'
<1> SUFFICES ASSUME RunInv, BudgetInv, [RetireNext]_retireVars
             PROVE  BudgetInv'
  OBVIOUS
<1>1. CASE RetireCycle /\ Tick
  <2>1. dropped' \in Nat /\ stats'.clock_cycles # 0
    BY <1>1, BudgetNumbers, BudgetOutcome, OneIfType
  <2> QED
    BY <1>1, <2>1, BudgetLowStep, BudgetHighStep, FetchPausedStep
    DEF BudgetInv
<1>2. CASE RetireCycle /\ Abort
  <2>1. error' /\ dropped' = dropped
    BY <1>2 DEF RetireCycle, Abort, run_pipeline_cycle_throws
  <2>2. stats'.clock_cycles = stats.clock_cycles
    BY <1>2, AbortedStats DEF RunInv, SimTypeOK
  <2> QED
    BY <2>1, <2>2 DEF BudgetInv
<1>3. CASE UNCHANGED <<vars, stats, historyVars>>
  BY <1>3 DEF BudgetInv, BudgetLow, BudgetHigh, FetchPaused, Stuck,
              HaltSlack, InFlight, halt_is_in_flight, vars, historyVars
<1> QED
  BY <1>1, <1>2, <1>3, RetireSteps

\* An empty pipeline has nothing to account for.
LEMMA BudgetInit == RetireInit => BudgetInv
<1> SUFFICES ASSUME RetireInit PROVE BudgetInv
  OBVIOUS
<1>1. /\ dropped = 0 /\ stats = no_stats /\ ~halted
      /\ ~id_ex.valid /\ ~ex_mem.valid /\ ~mem_wb.valid
  BY DEF RetireInit, TraceInit, SimInit, Init, empty_id_ex, empty_ex_mem,
         empty_mem_wb
<1>2. BudgetLow /\ FetchPaused
  BY <1>1 DEF no_stats, BudgetLow, FetchPaused
<1>3. BudgetHigh
  BY <1>1 DEF no_stats, BudgetHigh, InFlight, OneIf
<1> QED
  BY <1>1, <1>2, <1>3 DEF BudgetInv

(***************************************************************************)
(* Every cycle of a run that halts is accounted for, whatever the program:  *)
(* at least one for each instruction, unknown instruction, stall and        *)
(* misprediction and four to fill the pipeline; at most one bubble per      *)
(* instruction on top.                                                      *)
(***************************************************************************)
THEOREM CycleBudgetCorrect == RetireSpec => []CycleBudget
<1>1. RetireInit => RunInv /\ BudgetInv
  BY RunInvInit, BudgetInit
<1>2. RunInv /\ BudgetInv /\ [RetireNext]_retireVars => RunInv' /\ BudgetInv'
  BY RunInvNext, BudgetStep
<1>3. RunInv /\ BudgetInv => CycleBudget
  <2> SUFFICES ASSUME RunInv, BudgetInv, halted PROVE CycleBudget
    BY DEF CycleBudget
  <2>1. ~error /\ ~id_ex.valid /\ ~ex_mem.valid /\ ~mem_wb.valid
    BY DEF RunInv, IInv, HaltBarrier, ErrorIsFinal
  <2>2. /\ InFlight = 0 /\ HaltSlack = 3 /\ OneIf(halted) = 1
        /\ OneIf(id_ex.valid) = 0
        /\ OneIf(mem_wb.valid /\ mem_wb.control.halt) = 0
    BY <2>1 DEF InFlight, HaltSlack, OneIf
  <2>3. /\ stats.clock_cycles \in Nat /\ stats.instruction_count \in Nat
        /\ stats.stall_cycles \in Nat /\ stats.branch_mispredictions \in Nat
        /\ dropped \in Nat
    BY DEF RunInv, SimTypeOK, ExecutionStats, BudgetInv
  <2>4. BudgetLow /\ BudgetHigh /\ ~Stuck
    BY <2>1 DEF BudgetInv, Stuck
  <2>5. stats.clock_cycles <= 2 * stats.instruction_count + dropped + 3
    <3>1. stats.clock_cycles
            <= 2 * (stats.instruction_count + 0) + dropped + (1 - 0) + 0 + 2 * 1
      BY <2>2, <2>4 DEF BudgetHigh
    <3> QED
      BY <2>3, <3>1
  <2>6. stats.clock_cycles # 0
    BY DEF RunInv, StatsInv, NothingCounted
  <2>7. 4 + stats.instruction_count + dropped + stats.stall_cycles
          + stats.branch_mispredictions <= stats.clock_cycles
    <3>1. 1 + stats.instruction_count + 0 + stats.stall_cycles
            + stats.branch_mispredictions + dropped + 3 <= stats.clock_cycles
      BY <2>2, <2>3, <2>4, <2>6 DEF BudgetLow
    <3> QED
      BY <2>3, <3>1
  <2> QED
    BY <2>5, <2>7 DEF CycleBudget
<1> QED
  BY <1>1, <1>2, <1>3, PTL DEF RetireSpec

-----------------------------------------------------------------------------
(* The state at an instruction boundary *)

\* Exec looks at the registers, the RAM and the pc, and at nothing else.
LEMMA ExecCongruent ==
    ASSUME NEW s, NEW t, NEW d, d.kind # "Invalid",
           s.regs = t.regs, s.mem = t.mem, s.pc = t.pc, s.writes = t.writes
    PROVE  /\ Faults(s, d) <=> Faults(t, d)
           /\ ~Faults(t, d) =>
                /\ Exec(s, d).regs = Exec(t, d).regs
                /\ Exec(s, d).mem = Exec(t, d).mem
                /\ Exec(s, d).pc = Exec(t, d).pc
                /\ Exec(s, d).writes = Exec(t, d).writes
                /\ Exec(s, d).halted = Exec(t, d).halted
                /\ Exec(s, d) = AtPc(Exec(s, d), Exec(s, d).pc)
<1>1. Rs1(s, d) = Rs1(t, d) /\ Rs2(s, d) = Rs2(t, d)
  BY DEF Rs1, Rs2
<1>2. EffectiveAddress(s, d) = EffectiveAddress(t, d)
  BY <1>1 DEF EffectiveAddress
<1>3. Faults(s, d) <=> Faults(t, d)
  BY <1>2 DEF Faults
<1>4. Result(s, d) = Result(t, d) /\ NextPc(s, d) = NextPc(t, d)
  BY <1>1, <1>2, Zenon DEF Result, NextPc
<1> SUFFICES ASSUME ~Faults(t, d), ~Faults(s, d)
             PROVE  /\ Exec(s, d).regs = Exec(t, d).regs
                    /\ Exec(s, d).mem = Exec(t, d).mem
                    /\ Exec(s, d).pc = Exec(t, d).pc
                    /\ Exec(s, d).writes = Exec(t, d).writes
                    /\ Exec(s, d).halted = Exec(t, d).halted
                    /\ Exec(s, d) = AtPc(Exec(s, d), Exec(s, d).pc)
  BY <1>3
<1>5. \A u : ~Faults(u, d) =>
        /\ Exec(u, d).regs = IF HasResult(d.kind)
                             THEN write_reg(u.regs, d.rd, Result(u, d))
                             ELSE u.regs
        /\ Exec(u, d).mem = IF d.kind \in StoreKinds
                            THEN write_bytes(u.mem, EffectiveAddress(u, d),
                                             Rs2(u, d), AccessWidth(d.kind))
                            ELSE u.mem
        /\ Exec(u, d).pc = NextPc(u, d)
        /\ Exec(u, d).writes = IF d.kind \in StoreKinds
                               THEN u.writes \cup {<<EffectiveAddress(u, d),
                                                     AccessWidth(d.kind)>>}
                               ELSE u.writes
  BY DEF Exec
<1>6. \A u : ~Faults(u, d) => Exec(u, d).halted = (d.kind \in HaltKinds)
  BY Zenon DEF Exec
<1>7. Exec(s, d) = AtPc(Exec(s, d), Exec(s, d).pc)
  BY DEF Exec, AtPc
<1>8. /\ Exec(s, d).regs = Exec(t, d).regs
      /\ Exec(s, d).mem = Exec(t, d).mem
      /\ Exec(s, d).pc = Exec(t, d).pc
      /\ Exec(s, d).writes = Exec(t, d).writes
  BY <1>1, <1>2, <1>4, <1>5
<1>9. Exec(s, d).halted = Exec(t, d).halted
  BY <1>6, Zenon
<1> QED
  BY <1>7, <1>8, <1>9

\* The retired state advanced by the instruction in MEM/WB.
Accessed == IF mem_wb.valid THEN RetiredNow ELSE retired

\* Advanced by the instruction in EX/MEM too.
Executed ==
    IF ex_mem.valid
    THEN ExecWord(AtPc(Accessed, ex_mem.pc), ex_mem.instruction)
    ELSE Accessed

\* s is a state with these registers, this RAM and these stores.
Holds(s, rf, m, w) ==
    s.regs = rf /\ s.mem = m /\ s.writes = w /\ s = AtPc(s, s.pc)

(***************************************************************************)
(* The inductive invariant behind DumpedAtBoundary: the retired state and   *)
(* its two successors are the CPU's state with the latches MEM/WB and       *)
(* EX/MEM applied to it, one after the other.                               *)
(***************************************************************************)
BoundaryInv ==
    /\ retired = AtPc(retired, retired.pc)
    /\ regs = retired.regs
    /\ halted = retired.halted
    /\ error => memory = retired.mem /\ memory_writes = retired.writes
    /\ ~error =>
         /\ Holds(Accessed, write_back(regs, mem_wb), memory, memory_writes)
         /\ Accessed.halted = (halted \/ (mem_wb.valid /\ mem_wb.control.halt))
         /\ ~memory_access_throws =>
              /\ Holds(Executed, RegsDrained, memory_after_mem,
                       memory_writes_after_mem)
              /\ Executed.halted = Drained.halted

\* A cycle that completes retires MEM/WB, and EX/MEM takes its place.
LEMMA AccessedMoves ==
    ASSUME RunInv, BoundaryInv, RetireCycle, Tick
    PROVE  retired' = Accessed /\ Accessed' = Executed
<1>1. run_pipeline_cycle /\ IInv /\ ~error
  BY DEF Tick, RunInv, run_pipeline_cycle, Running
<1>2. retired' = Accessed
  BY DEF RetireCycle, Accessed
<1>3. Accessed = AtPc(Accessed, Accessed.pc)
  BY <1>1 DEF BoundaryInv, Holds
<1>4. CASE ex_mem.valid
  <2>1. /\ mem_wb'.valid /\ mem_wb'.pc = ex_mem.pc
        /\ mem_wb'.instruction = ex_mem.instruction
    BY <1>1, <1>4, StageMemFacts
  <2>2. [Accessed EXCEPT !.pc = ex_mem.pc] = AtPc(Accessed, ex_mem.pc)
    BY <1>3 DEF AtPc
  <2>3. RetiredNow' = ExecWord([retired' EXCEPT !.pc = mem_wb'.pc],
                               mem_wb'.instruction)
    BY DEF RetiredNow, ExecWord
  <2>4. RetiredNow' = ExecWord(AtPc(Accessed, ex_mem.pc), ex_mem.instruction)
    BY <1>2, <2>1, <2>2, <2>3
  <2> QED
    BY <1>2, <1>4, <2>1, <2>4 DEF Accessed, Executed
<1>5. CASE ~ex_mem.valid
  <2>1. ~mem_wb'.valid
    BY <1>1, <1>5, StageMemFacts
  <2>2. Accessed' = retired'
    BY <2>1 DEF Accessed
  <2> QED
    BY <1>2, <1>5, <2>2 DEF Executed
<1> QED
  BY <1>4, <1>5

\* The instruction in ID/EX executes as in the instruction set.
LEMMA ExecutedMoves ==
    ASSUME RunInv, BoundaryInv, RetireCycle, Tick, ~memory_access_throws'
    PROVE  /\ Holds(Executed', RegsDrained', memory_after_mem',
                    memory_writes_after_mem')
           /\ Executed'.halted = Drained'.halted
           /\ id_ex.valid => Executed'.pc = Abs.pc
           /\ ~id_ex.valid => Executed' = Executed
<1>1. /\ run_pipeline_cycle /\ IInv /\ ~error /\ ~memory_access_throws
  BY DEF Tick, RunInv, run_pipeline_cycle, Running
<1>2. Accessed' = Executed
  BY AccessedMoves
<1>3. /\ Holds(Executed, RegsDrained, memory_after_mem,
               memory_writes_after_mem)
      /\ Executed.halted = Drained.halted
  BY <1>1 DEF BoundaryInv
<1>4. CASE id_ex.valid
  <2> DEFINE d == decode_instruction[id_ex.instruction]
             s == AtPc(Executed, id_ex.pc)
  <2>1. ex_mem'.valid /\ ex_mem'.pc = id_ex.pc
        /\ ex_mem'.instruction = id_ex.instruction
    BY <1>1, <1>4, StageExFacts
  <2>2. Executed' = Exec(s, d)
    <3>1. Executed' = ExecWord(AtPc(Accessed', ex_mem'.pc), ex_mem'.instruction)
      BY <2>1 DEF Executed, ExecWord, AtPc
    <3> QED
      BY <1>2, <2>1, <3>1 DEF ExecWord
  <2>3. d.kind # "Invalid" /\ Drained.pc = id_ex.pc
    BY <1>1, <1>4, ExecutingFacts
  <2>4. /\ s.regs = Drained.regs /\ s.mem = Drained.mem
        /\ s.pc = Drained.pc /\ s.writes = Drained.writes
    BY <1>3, <2>3 DEF Holds, AtPc, Drained
  <2>5. ~Faults(Drained, d)
    BY <1>1, <1>4, FaultMatches
  <2>6. Abs = Exec(Drained, d)
    BY <1>1, <1>4 DEF Abs, ExecWord
  <2> HIDE DEF s, d
  <2>7. /\ Executed'.regs = Abs.regs /\ Executed'.mem = Abs.mem
        /\ Executed'.pc = Abs.pc /\ Executed'.writes = Abs.writes
        /\ Executed'.halted = Abs.halted
        /\ Executed' = AtPc(Executed', Executed'.pc)
    BY <2>2, <2>3, <2>4, <2>5, <2>6, ExecCongruent
  <2> QED
    BY <1>1, <1>4, <2>7, DrainExecuted DEF Holds
<1>5. CASE ~id_ex.valid
  <2>1. ~ex_mem'.valid
    BY <1>1, <1>5, StageExFacts
  <2>2. Executed' = Executed
    BY <1>2, <2>1 DEF Executed
  <2> QED
    BY <1>1, <1>3, <1>5, <2>2, DrainBubble DEF Holds
<1> QED
  BY <1>4, <1>5

\* A cycle that completes keeps the boundary.
LEMMA BoundaryTick ==
    ASSUME RunInv, BoundaryInv, RetireCycle, Tick
    PROVE  BoundaryInv'
<1>1. /\ run_pipeline_cycle /\ IInv /\ ~error /\ ~error'
      /\ ~memory_access_throws
  BY DEF Tick, RunInv, run_pipeline_cycle, Running
<1>2. retired' = Accessed /\ Accessed' = Executed
  BY AccessedMoves
<1>3. /\ Holds(Accessed, write_back(regs, mem_wb), memory, memory_writes)
      /\ Holds(Executed, RegsDrained, memory_after_mem,
               memory_writes_after_mem)
  BY <1>1 DEF BoundaryInv
<1>4. /\ Accessed.halted = (halted \/ (mem_wb.valid /\ mem_wb.control.halt))
      /\ Executed.halted = Drained.halted
  BY <1>1 DEF BoundaryInv
<1>5. /\ regs' = write_back(regs, mem_wb) /\ mem_wb' = next_mem_wb
      /\ memory' = memory_after_mem
      /\ memory_writes' = memory_writes_after_mem
      /\ halted' = (halted \/ (mem_wb.valid /\ mem_wb.control.halt))
  BY <1>1 DEF run_pipeline_cycle, stage_WB, stage_MEM
<1>6. retired' = AtPc(retired', retired'.pc) /\ regs' = retired'.regs
  BY <1>2, <1>3, <1>5 DEF Holds
<1>7. halted' = retired'.halted
  BY <1>2, <1>4, <1>5
<1>8. Holds(Accessed', write_back(regs', mem_wb'), memory', memory_writes')
  <2>1. write_back(regs', mem_wb') = RegsDrained
    BY <1>5 DEF RegsDrained
  <2> QED
    BY <1>2, <1>3, <1>5, <2>1
<1>9. Accessed'.halted = (halted' \/ (mem_wb'.valid /\ mem_wb'.control.halt))
  <2>1. Drained.halted = (\/ halted
                          \/ mem_wb.valid /\ mem_wb.control.halt
                          \/ ex_mem.valid /\ ex_mem.control.halt)
    BY Zenon DEF Drained
  <2>2. mem_wb'.valid /\ mem_wb'.control.halt
          <=> ex_mem.valid /\ ex_mem.control.halt
    BY <1>1, StageMemFacts
  <2>3. halted' <=> halted \/ (mem_wb.valid /\ mem_wb.control.halt)
    BY <1>5, Zenon
  <2>4. (halted' \/ (mem_wb'.valid /\ mem_wb'.control.halt))
          = (\/ halted
             \/ mem_wb.valid /\ mem_wb.control.halt
             \/ ex_mem.valid /\ ex_mem.control.halt)
    BY <2>2, <2>3, Zenon
  <2> QED
    BY <1>2, <1>4, <2>1, <2>4, Zenon
<1>10. ~memory_access_throws' =>
         /\ Holds(Executed', RegsDrained', memory_after_mem',
                  memory_writes_after_mem')
         /\ Executed'.halted = Drained'.halted
  BY ExecutedMoves
<1> QED
  BY <1>1, <1>6, <1>7, <1>8, <1>9, <1>10, Zenon
  DEF BoundaryInv, Holds, AtPc, write_back, select_writeback_value

\* So does a cycle that throws: MEM/WB retires, the faulting access does not.
LEMMA BoundaryAbort ==
    ASSUME RunInv, BoundaryInv, RetireCycle, Abort
    PROVE  BoundaryInv'
<1>1. /\ ~error /\ error' /\ regs' = write_back(regs, mem_wb)
      /\ halted' = (halted \/ (mem_wb.valid /\ mem_wb.control.halt))
      /\ memory' = memory /\ memory_writes' = memory_writes
  BY DEF Abort, run_pipeline_cycle_throws, Running, stage_WB
<1>2. retired' = Accessed
  BY DEF RetireCycle, Accessed
<1>3. /\ Accessed = AtPc(Accessed, Accessed.pc)
      /\ Accessed.regs = regs' /\ Accessed.mem = memory'
      /\ Accessed.writes = memory_writes'
  BY <1>1 DEF BoundaryInv, Holds
<1>4. Accessed.halted = halted'
  BY <1>1 DEF BoundaryInv
<1> QED
  BY <1>1, <1>2, <1>3, <1>4 DEF BoundaryInv, AtPc

\* A cycle advances the sequential machine by what retires in it.
LEMMA BoundaryStep ==
    RunInv /\ BoundaryInv /\ [RetireNext]_retireVars => BoundaryInv'
<1> SUFFICES ASSUME RunInv, BoundaryInv, [RetireNext]_retireVars
             PROVE  BoundaryInv'
  OBVIOUS
<1>1. CASE RetireCycle /\ Tick
  BY <1>1, BoundaryTick
<1>2. CASE RetireCycle /\ Abort
  BY <1>2, BoundaryAbort
<1>3. CASE UNCHANGED <<vars, historyVars>>
  <2>1. Accessed' = Accessed /\ Executed' = Executed
    BY <1>3 DEF vars, historyVars, Accessed, Executed, RetiredNow, ExecWord,
                AtPc
  <2>2. /\ RegsDrained' = RegsDrained
        /\ memory_after_mem' = memory_after_mem
        /\ memory_writes_after_mem' = memory_writes_after_mem
        /\ memory_access_throws' = memory_access_throws
        /\ write_back(regs, mem_wb)' = write_back(regs, mem_wb)
    BY <1>3, Zenon DEF vars, RegsDrained, memory_after_mem,
       memory_writes_after_mem, memory_access_throws, next_mem_wb, write_back,
       is_store, select_writeback_value
  <2>3. Drained'.halted = Drained.halted
    BY <1>3, Zenon DEF vars, Drained
  <2> QED
    BY <1>3, <2>1, <2>2, <2>3 DEF BoundaryInv, Holds, AtPc, vars, historyVars
<1> QED
  BY <1>1, <1>2, <1>3, RetireSteps

\* Before the first cycle both machines are in the same state.
LEMMA BoundaryInit == RetireInit => BoundaryInv
<1> SUFFICES ASSUME RetireInit PROVE BoundaryInv
  OBVIOUS
<1>1. /\ retired = [regs |-> regs, mem |-> memory, pc |-> pc, halted |-> FALSE,
                    error |-> FALSE, writes |-> {}, recent |-> {},
                    older |-> {}]
      /\ halted = FALSE /\ ~error /\ memory_writes = {}
      /\ ~mem_wb.valid /\ ~ex_mem.valid
  BY DEF RetireInit, TraceInit, SimInit, Init, empty_mem_wb, empty_ex_mem
<1>2. Accessed = retired /\ Executed = retired
  BY <1>1 DEF Accessed, Executed
<1>3. /\ write_back(regs, mem_wb) = regs /\ RegsDrained = regs
      /\ memory_after_mem = memory
      /\ memory_writes_after_mem = memory_writes
  BY <1>1 DEF write_back, RegsDrained, next_mem_wb, empty_mem_wb,
              memory_after_mem, memory_writes_after_mem, is_store
<1>4. /\ retired = AtPc(retired, retired.pc) /\ retired.regs = regs
      /\ retired.mem = memory /\ retired.writes = memory_writes
  BY <1>1 DEF AtPc
<1>5. retired.halted = FALSE
  BY <1>1
<1>6. (halted \/ (mem_wb.valid /\ mem_wb.control.halt)) = FALSE
  BY <1>1, Zenon
<1>7. Drained.halted = FALSE
  <2>1. Drained.halted = (\/ halted
                          \/ mem_wb.valid /\ mem_wb.control.halt
                          \/ ex_mem.valid /\ ex_mem.control.halt)
    BY Zenon DEF Drained
  <2> QED
    BY <1>1, <2>1, Zenon
<1> QED
  BY <1>1, <1>2, <1>3, <1>4, <1>5, <1>6, <1>7, Zenon DEF BoundaryInv, Holds

(***************************************************************************)
(* Whatever stops a run and in whatever cycle, its registers are those      *)
(* after exactly the retired instructions, and its RAM and write log are    *)
(* at most the next instruction's store ahead of them.                      *)
(***************************************************************************)
THEOREM BoundaryCorrect == RetireSpec => []DumpedAtBoundary
<1>1. RetireInit => RunInv /\ BoundaryInv
  BY RunInvInit, BoundaryInit
<1>2. RunInv /\ BoundaryInv /\ [RetireNext]_retireVars
        => RunInv' /\ BoundaryInv'
  BY RunInvNext, BoundaryStep
<1>3. BoundaryInv => DumpedAtBoundary
  <2> SUFFICES ASSUME BoundaryInv PROVE DumpedAtBoundary
    OBVIOUS
  <2>1. CASE error
    BY <2>1 DEF BoundaryInv, DumpedAtBoundary, Unretired
  <2>2. CASE ~error
    <3>1. Holds(Accessed, write_back(regs, mem_wb), memory, memory_writes)
      BY <2>2 DEF BoundaryInv
    <3>2. Accessed = IF Unretired THEN RetiredNow ELSE retired
      BY <2>2 DEF Accessed, Unretired
    <3>3. regs = retired.regs /\ halted = retired.halted
      BY DEF BoundaryInv
    <3> QED
      BY <3>1, <3>2, <3>3 DEF DumpedAtBoundary, Holds
  <2> QED
    BY <2>1, <2>2
<1> QED
  BY <1>1, <1>2, <1>3, PTL DEF RetireSpec

-----------------------------------------------------------------------------
(* Retirement in program order *)

\* A number has one quotient and one remainder.
LEMMA ModUnique ==
    ASSUME NEW n \in Nat, n > 0, NEW q \in Int, NEW r \in Int,
           0 <= r, r < n
    PROVE  (n * q + r) % n = r
<1> DEFINE x == n * q + r
           p == x \div n
           t == x % n
<1>1. x \in Int
  <2>1. n * q \in Int
    OBVIOUS
  <2> QED
    BY <2>1
<1> HIDE DEF x
<1>2. p \in Int /\ t \in Int /\ 0 <= t /\ t < n /\ x = n * p + t
  BY <1>1
<1> HIDE DEF p, t
<1>3. n * q + r = n * p + t
  BY <1>2 DEF x
<1>4. n * q - n * p = n * (q - p)
  BY <1>2
<1>5. \A k \in Int : /\ k >= 1 => n * k >= n
                     /\ k <= -1 => n * k <= -n
  OBVIOUS
<1>6. q = p
  <2>1. n * (q - p) = t - r
    BY <1>2, <1>3, <1>4
  <2>2. ~(q - p >= 1) /\ ~(q - p <= -1)
    BY <1>2, <1>5, <2>1
  <2> QED
    BY <1>2, <2>2
<1>7. t = r
  BY <1>2, <1>3, <1>6
<1> QED
  BY <1>7 DEF t, x

\* Adding twice wraps like adding once.
LEMMA Add32Twice ==
    ASSUME NEW a \in Int, NEW b \in Int, NEW c \in Int
    PROVE  /\ add32(add32(a, b), c) = add32(a, b + c)
           /\ a \in Word => add32(a, 0) = a
<1> DEFINE n == WordSize
           x == a + b
           q == x \div n
           r == x % n
           y == r + c
           p == y \div n
           t == y % n
<1>1. n \in Nat /\ n > 0
  BY WordSizeFacts
<1> HIDE DEF n, x
<1>2. x \in Int /\ x + c = a + (b + c)
  BY DEF x
<1>3. q \in Int /\ r \in Int /\ x = n * q + r
  BY <1>1, <1>2
<1> HIDE DEF q, r
<1>4. y \in Int
  BY <1>3
<1>5. p \in Int /\ t \in Int /\ 0 <= t /\ t < n /\ y = n * p + t
  BY <1>1, <1>4
<1> HIDE DEF p, t
<1>6. n * (q + p) = n * q + n * p /\ q + p \in Int
  BY <1>1, <1>3, <1>5
<1>7. x + c = n * (q + p) + t
  BY <1>1, <1>3, <1>5, <1>6
<1>8. (x + c) % n = t
  BY <1>1, <1>5, <1>6, <1>7, ModUnique
<1>9. add32(add32(a, b), c) = t /\ add32(a, b + c) = (x + c) % n
  BY <1>2 DEF add32, t, y, r, x, n
<1>10. a \in Word => add32(a, 0) = a
  BY WordSizeFacts DEF add32, Word
<1> QED
  BY <1>8, <1>9, <1>10

\* The dropped words in front of the youngest instruction that left decode.
SkippedLast == IF id_ex.valid THEN skipped.id_ex ELSE skipped.if_id

(***************************************************************************)
(* The inductive invariant behind RetiresInOrder: the instructions of the   *)
(* latches stand one after the other in program order, with only dropped    *)
(* words between them.                                                      *)
(***************************************************************************)
OrderInv ==
    /\ skipped \in [if_id : Nat, id_ex : Nat, ex_mem : Nat, mem_wb : Nat]
    /\ id_ex.valid => skipped.if_id = 0
    /\ ~error =>
         /\ mem_wb.valid => mem_wb.pc = add32(retired.pc, 4 * skipped.mem_wb)
         /\ ex_mem.valid => ex_mem.pc = add32(Accessed.pc, 4 * skipped.ex_mem)
         /\ ~memory_access_throws =>
              /\ Executed.pc \in Word
              /\ Drained.pc = add32(Executed.pc, 4 * SkippedLast)

\* Where decode stands after a cycle, counted from the last executed one.
LEMMA DecodeMoves ==
    ASSUME RunInv, BoundaryInv, OrderInv, RetireCycle, Tick,
           ~memory_access_throws'
    PROVE  /\ Executed'.pc \in Word
           /\ Completed.pc = add32(Executed'.pc, 4 * skipped.if_id)
<1>1. /\ run_pipeline_cycle /\ IInv /\ ~error /\ ~memory_access_throws
  BY DEF Tick, RunInv, run_pipeline_cycle, Running
<1>2. Completed.pc = Abs.pc
  BY <1>1, CompletedFields
<1>3. CASE id_ex.valid
  <2>1. Executed'.pc = Abs.pc /\ skipped.if_id = 0
    BY <1>3, ExecutedMoves DEF OrderInv
  <2>2. Abs.pc \in Word
    BY <1>1, <1>3, DrainExecuted, StageExTypes DEF IInv
  <2>3. Abs.pc \in Int /\ 4 * skipped.if_id = 0
    BY <2>1, <2>2 DEF Word
  <2> QED
    BY <1>2, <2>1, <2>2, <2>3, Add32Twice
<1>4. CASE ~id_ex.valid
  <2>1. Executed' = Executed /\ Abs = Drained
    BY <1>1, <1>4, ExecutedMoves, DrainBubble
  <2>2. /\ Executed.pc \in Word
        /\ Drained.pc = add32(Executed.pc, 4 * skipped.if_id)
    BY <1>1, <1>4 DEF OrderInv, SkippedLast
  <2> QED
    BY <1>2, <2>1, <2>2
<1> QED
  BY <1>3, <1>4

\* A cycle keeps the instructions under way in program order.
LEMMA OrderTick ==
    ASSUME RunInv, BoundaryInv, OrderInv, RetireCycle, Tick
    PROVE  OrderInv'
<1>1. /\ run_pipeline_cycle /\ IInv /\ ~error /\ ~error'
      /\ ~memory_access_throws
  BY DEF Tick, RunInv, run_pipeline_cycle, Running
<1>2. retired' = Accessed /\ Accessed' = Executed
  BY AccessedMoves
<1>3. skipped' = skipped_after_cycle
  BY <1>1 DEF RetireCycle
<1>4. skipped.if_id \in Nat /\ skipped.id_ex \in Nat /\ skipped.ex_mem \in Nat
  BY DEF OrderInv
<1>5. /\ skipped'.if_id = IF id_issues THEN 0
                          ELSE skipped.if_id + OneIf(drops_unknown)
      /\ skipped'.id_ex = IF id_issues THEN skipped.if_id ELSE 0
      /\ skipped'.ex_mem = skipped.id_ex
      /\ skipped'.mem_wb = skipped.ex_mem
  BY <1>3 DEF skipped_after_cycle
<1>6. skipped' \in [if_id : Nat, id_ex : Nat, ex_mem : Nat, mem_wb : Nat]
  <2>1. skipped.if_id + OneIf(drops_unknown) \in Nat
    BY <1>4, OneIfType
  <2> QED
    BY <1>3, <1>4, <2>1 DEF skipped_after_cycle
<1>7. id_ex'.valid <=> id_issues
  BY <1>1, StageIdFacts
<1>8. mem_wb'.valid => mem_wb'.pc = add32(retired'.pc, 4 * skipped'.mem_wb)
  BY <1>1, <1>2, <1>5, StageMemFacts DEF OrderInv
<1>9. ex_mem'.valid => ex_mem'.pc = add32(Accessed'.pc, 4 * skipped'.ex_mem)
  BY <1>1, <1>2, <1>5, StageExFacts DEF OrderInv, SkippedLast, Drained
<1>10. ASSUME ~memory_access_throws'
       PROVE  /\ Executed'.pc \in Word
              /\ Drained'.pc = add32(Executed'.pc, 4 * SkippedLast')
  <2>1. /\ Executed'.pc \in Word
        /\ Completed.pc = add32(Executed'.pc, 4 * skipped.if_id)
    BY <1>10, DecodeMoves
  <2>2. CASE id_issues
    <3>1. SkippedLast' = skipped.if_id
      BY <1>5, <1>7, <2>2 DEF SkippedLast
    <3> QED
      BY <1>1, <1>10, <2>1, <2>2, <3>1, NextPcOfCycle
  <2>3. CASE ~id_issues /\ ~drops_unknown
    <3>1. SkippedLast' = skipped.if_id
      BY <1>4, <1>5, <1>7, <2>3 DEF SkippedLast, OneIf
    <3>2. Drained'.pc = Completed.pc
      BY <1>1, <1>10, <2>3, NextPcOfCycle
      DEF drops_unknown, is_valid_instruction
    <3> QED
      BY <2>1, <3>1, <3>2
  <2>4. CASE ~id_issues /\ drops_unknown
    <3>1. SkippedLast' = skipped.if_id + 1
      BY <1>4, <1>5, <1>7, <2>4 DEF SkippedLast, OneIf
    <3>2. Drained'.pc = add32(Completed.pc, 4)
      BY <1>1, <1>10, <2>4, NextPcOfCycle
      DEF drops_unknown, is_valid_instruction
    <3>3. /\ Executed'.pc \in Int /\ 4 * skipped.if_id \in Int
          /\ 4 * skipped.if_id + 4 = 4 * SkippedLast'
      BY <1>4, <2>1, <3>1 DEF Word
    <3>4. add32(add32(Executed'.pc, 4 * skipped.if_id), 4)
            = add32(Executed'.pc, 4 * skipped.if_id + 4)
      <4> DEFINE x == Executed'.pc
                 k == 4 * skipped.if_id
      <4>1. x \in Int /\ k \in Int /\ 4 \in Int
        BY <3>3
      <4> HIDE DEF x, k
      <4>2. add32(add32(x, k), 4) = add32(x, k + 4)
        BY <4>1, Add32Twice
      <4> QED
        BY <4>2 DEF x, k
    <3> QED
      BY <2>1, <3>2, <3>3, <3>4
  <2> QED
    BY <2>2, <2>3, <2>4
<1>11. id_ex'.valid => skipped'.if_id = 0
  BY <1>5, <1>7
<1> QED
  BY <1>1, <1>6, <1>8, <1>9, <1>10, <1>11 DEF OrderInv

\* So does every step of the run.
LEMMA OrderStep ==
    RunInv /\ BoundaryInv /\ OrderInv /\ [RetireNext]_retireVars => OrderInv'
<1> SUFFICES ASSUME RunInv, BoundaryInv, OrderInv, [RetireNext]_retireVars
             PROVE  OrderInv'
  OBVIOUS
<1>1. CASE RetireCycle /\ Tick
  BY <1>1, OrderTick
<1>2. CASE RetireCycle /\ Abort
  BY <1>2 DEF RetireCycle, Abort, run_pipeline_cycle_throws, OrderInv
<1>3. CASE UNCHANGED <<vars, historyVars>>
  <2>1. Accessed' = Accessed /\ Executed' = Executed
    BY <1>3 DEF vars, historyVars, Accessed, Executed, RetiredNow, ExecWord,
                AtPc
  <2>2. memory_access_throws' = memory_access_throws
    BY <1>3, Zenon DEF vars, memory_access_throws
  <2>3. Drained'.pc = Drained.pc /\ SkippedLast' = SkippedLast
    BY <1>3 DEF vars, historyVars, Drained, SkippedLast
  <2> QED
    BY <1>3, <2>1, <2>2, <2>3 DEF OrderInv, vars, historyVars
<1> QED
  BY <1>1, <1>2, <1>3, RetireSteps

\* An empty pipeline is in order.
LEMMA OrderInit == RetireInit => OrderInv
<1> SUFFICES ASSUME RetireInit PROVE OrderInv
  OBVIOUS
<1>1. /\ skipped = [if_id |-> 0, id_ex |-> 0, ex_mem |-> 0, mem_wb |-> 0]
      /\ retired.pc = pc
      /\ ~if_id.valid /\ ~id_ex.valid /\ ~ex_mem.valid /\ ~mem_wb.valid
  BY DEF RetireInit, TraceInit, SimInit, Init, empty_if_id, empty_id_ex,
         empty_ex_mem, empty_mem_wb
<1>2. Executed.pc = pc /\ Drained.pc = pc /\ SkippedLast = 0
  BY <1>1 DEF Executed, Accessed, Drained, SkippedLast
<1>3. pc \in Word /\ pc \in Int
  BY RunInvInit DEF RunInv, IInv, TypeOK, Word
<1>4. add32(pc, 0) = pc
  BY <1>3, Add32Twice
<1> QED
  BY <1>1, <1>2, <1>3, <1>4 DEF OrderInv

(***************************************************************************)
(* Instructions retire in program order in every run: the next to retire is *)
(* where the retired ones left off, beyond the unknown words dropped in     *)
(* between.  No stall, flush, misprediction or jump skips or repeats one.   *)
(***************************************************************************)
THEOREM OrderCorrect == RetireSpec => []RetiresInOrder
<1>1. RetireInit => RunInv /\ BoundaryInv /\ OrderInv
  BY RunInvInit, BoundaryInit, OrderInit
<1>2. RunInv /\ BoundaryInv /\ OrderInv /\ [RetireNext]_retireVars
        => RunInv' /\ BoundaryInv' /\ OrderInv'
  BY RunInvNext, BoundaryStep, OrderStep
<1>3. OrderInv => RetiresInOrder
  BY DEF OrderInv, RetiresInOrder, Unretired
<1> QED
  BY <1>1, <1>2, <1>3, PTL DEF RetireSpec

=============================================================================
