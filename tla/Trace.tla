------------------------------- MODULE Trace -------------------------------
(***************************************************************************)
(* The pipeline trace: main() prints an entry with the four latches before  *)
(* a cycle, from --trace-start on and at most --trace-limit times.          *)
(*                                                                          *)
(* An entry is what print_pipeline_trace() shows of each latch: a bubble,   *)
(* or the pc, the word, the name decoded from the word (the latch itself    *)
(* holds control signals, not a name), and for branches in the first two    *)
(* latches the predicted pc.                                                *)
(***************************************************************************)
EXTENDS Simulator

CONSTANT TraceOptions   \* the trace options of the command lines

CliTraceOptions ==
    [trace : BOOLEAN, trace_start : Nat,
     has_trace_limit : BOOLEAN, trace_limit : Nat]

ASSUME TraceAssumption == TraceOptions \subseteq CliTraceOptions

VARIABLES
    trace_options,
    trace_lines_printed,
    entry,           \* the last entry printed
    retired_shown    \* the entries that showed an instruction in MEM/WB

traceVars == <<simVars, trace_options, trace_lines_printed, entry,
               retired_shown>>

bubble == [valid |-> FALSE, pc |-> 0, instruction |-> 0, op |-> "bubble",
           next_pc |-> 0]

\* print_latch and latch_name, without a prediction.
print_latch(latch) ==
    IF ~latch.valid THEN bubble
    ELSE [valid |-> TRUE, pc |-> latch.pc, instruction |-> latch.instruction,
          op |-> decode_instruction[latch.instruction].kind, next_pc |-> 0]

\* print_latch with show_prediction; 0 where no prediction is printed.
print_latch_prediction(latch) ==
    IF latch.valid /\ decode_instruction[latch.instruction].control.branch
    THEN [print_latch(latch) EXCEPT !.next_pc = latch.predicted_next_pc]
    ELSE print_latch(latch)

print_pipeline_trace ==
    [cycle |-> stats.clock_cycles,
     if_id |-> print_latch_prediction(if_id),
     id_ex |-> print_latch_prediction(id_ex),
     ex_mem |-> print_latch(ex_mem),
     mem_wb |-> print_latch(mem_wb)]

\* Mutant of should_print_trace: the limit is passed by one.
should_print_trace_inclusive ==
    /\ trace_options.trace
    /\ stats.clock_cycles >= trace_options.trace_start
    /\ trace_options.has_trace_limit =>
         trace_lines_printed <= trace_options.trace_limit

should_print_trace ==
    /\ trace_options.trace
    /\ stats.clock_cycles >= trace_options.trace_start
    /\ trace_options.has_trace_limit =>
         trace_lines_printed < trace_options.trace_limit

-----------------------------------------------------------------------------
\* The body of main()'s loop: the entry, then the cycle.
TracedCycle ==
    /\ Tick \/ Abort
    /\ IF should_print_trace
       THEN /\ entry' = print_pipeline_trace
            /\ trace_lines_printed' = trace_lines_printed + 1
            /\ retired_shown' = retired_shown + OneIf(mem_wb.valid)
       ELSE UNCHANGED <<entry, trace_lines_printed, retired_shown>>
    /\ UNCHANGED trace_options

TraceFinish ==
    /\ Finish
    /\ UNCHANGED <<trace_options, trace_lines_printed, entry, retired_shown>>

TraceInit ==
    /\ SimInit
    /\ trace_options \in TraceOptions
    /\ trace_lines_printed = 0
    /\ entry = [cycle |-> 0, if_id |-> bubble, id_ex |-> bubble,
                ex_mem |-> bubble, mem_wb |-> bubble]
    /\ retired_shown = 0

TraceNext == TracedCycle \/ TraceFinish

TraceSpec == TraceInit /\ [][TraceNext]_traceVars

-----------------------------------------------------------------------------
(* Properties *)

\* Iterations of the loop so far; an exception leaves one unfinished.
Iterations == stats.clock_cycles + OneIf(error)

AtMost(a, b) == IF a <= b THEN a ELSE b

(***************************************************************************)
(* README.md: --trace-start=100 --trace-limit=20 "only print 20 trace       *)
(* entries starting at cycle 100".  The entries are those of consecutive    *)
(* cycles from the start, as many as the limit and the run allow; the cycle *)
(* that throws has one too; and an unbounded trace shows every retirement.  *)
(***************************************************************************)
TraceWindow ==
    LET o == trace_options
        cycles == IF Iterations <= o.trace_start THEN 0
                  ELSE Iterations - o.trace_start
    IN  /\ trace_lines_printed =
             IF ~o.trace THEN 0
             ELSE IF o.has_trace_limit THEN AtMost(cycles, o.trace_limit)
             ELSE cycles
        /\ trace_lines_printed > 0 =>
             entry.cycle = o.trace_start + trace_lines_printed - 1
        /\ o.trace /\ ~o.has_trace_limit /\ o.trace_start = 0 =>
             retired_shown = stats.instruction_count

\* The kinds after which the pc may go elsewhere.
Redirecting == BranchKinds \cup {"Jal", "Jalr"}

\* The same instruction, the prediction aside.
SameInstruction(a, b) == [a EXCEPT !.next_pc = 0] = [b EXCEPT !.next_pc = 0]

\* Can a trace entry be the one after `earlier`?
Follows(later, earlier) ==
    /\ later.mem_wb = earlier.ex_mem
    /\ SameInstruction(later.ex_mem, earlier.id_ex)
    /\ \/ later.id_ex = earlier.if_id
       \/ /\ later.id_ex = bubble
          /\ \/ later.if_id = earlier.if_id /\ earlier.id_ex.op \in LoadKinds
             \/ earlier.if_id.op = "Invalid"
             \/ earlier.id_ex.op \in Redirecting

(***************************************************************************)
(* A trace can be read from one entry to the next: what is in ID/EX and     *)
(* EX/MEM moves on by one latch under the same name, and what is in IF/ID   *)
(* moves on, or is held while a bubble takes its place (a load stands in    *)
(* front of it), or disappears; it disappears only when it is unknown or    *)
(* when a branch or jump stands in front of it.                             *)
(***************************************************************************)
TraceReadsOn ==
    [][trace_lines_printed > 0 /\ trace_lines_printed' > trace_lines_printed
         => Follows(entry', entry)]_traceVars

=============================================================================
