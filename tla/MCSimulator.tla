---------------------------- MODULE MCSimulator ----------------------------
(***************************************************************************)
(* Instances of the simulator for TLC, with the programs of MCPipeline.     *)
(***************************************************************************)
EXTENDS Simulator, MCPipeline

CONSTANT MaxCycles   \* --max-cycles

PlainOptions ==
    {[max_cycles |-> MaxCycles, has_retire_count |-> FALSE, retire_count |-> 0,
      dump_state |-> FALSE, dump_ranges |-> {}, memory_expectations |-> {}]}

\* The built-in demo of main.cpp: addi, addi, add, and no ecall.
DemoProgram == {Image(<<1, 2, 3>>)}

=============================================================================
