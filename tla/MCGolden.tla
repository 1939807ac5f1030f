------------------------------ MODULE MCGolden ------------------------------
(***************************************************************************)
(* Golden tests for TLC: every program of a few instructions, at the start  *)
(* of Spike's RAM, followed by the ebreak at the halt symbol and two data   *)
(* words.                                                                   *)
(***************************************************************************)
EXTENDS Golden, MCSimulator

GoldenPrograms ==
    {Image(slots \o <<21, 20, 15>>) : slots \in [1 .. SlotCount -> SlotWords]}

\* The ebreak and the data words as overlapping ranges, and a misaligned range.
GoldenRanges ==
    LET data == HaltPc + 4
        R(start, count) == [start_address |-> start, byte_count |-> count]
    IN  {{R(data - 4, 8), R(data, 8)}, {R(data + 1, 4)}}

GoldenOptions ==
    [max_cycles : {MaxCycles}, has_retire_count : {FALSE}, retire_count : {0},
     dump_state : {TRUE}, dump_ranges : GoldenRanges,
     memory_expectations : {{}}]

=============================================================================
