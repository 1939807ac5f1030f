---------------------------- MODULE MCRetirement ----------------------------
(***************************************************************************)
(* Complete runs for TLC, with the programs of MCPipeline.                  *)
(***************************************************************************)
EXTENDS Retirement, MCSimulator

\* No retirement count, and counts of 0, 2 and 3.
CountOptions ==
    [max_cycles : {MaxCycles}, has_retire_count : {TRUE},
     retire_count : {0, 2, 3}, dump_state : {FALSE},
     dump_ranges : {{}}, memory_expectations : {{}}]

\* A state file, a range outside RAM, a memory expectation.
JudgedOptions ==
    LET plain == CHOOSE o \in PlainOptions : TRUE
    IN  {[plain EXCEPT !.dump_state = TRUE],
         [plain EXCEPT !.dump_ranges = {[start_address |-> MemSize,
                                         byte_count |-> 1]}],
         [plain EXCEPT !.memory_expectations =
            {[address |-> 4 * SlotCount + 4, expected_value |-> 20]}]}

RunOptions == PlainOptions \cup CountOptions \cup JudgedOptions

\* The whole run, the first cycles, a later window, and no trace.
TraceWindows ==
    {[trace |-> TRUE, trace_start |-> 0, has_trace_limit |-> FALSE,
      trace_limit |-> 0],
     [trace |-> TRUE, trace_start |-> 0, has_trace_limit |-> TRUE,
      trace_limit |-> 3],
     [trace |-> TRUE, trace_start |-> 4, has_trace_limit |-> TRUE,
      trace_limit |-> 5],
     [trace |-> FALSE, trace_start |-> 0, has_trace_limit |-> FALSE,
      trace_limit |-> 0]}

=============================================================================
