---------------------------- MODULE MCStateDump ----------------------------
(***************************************************************************)
(* Dumps for TLC, to the standard output and to a state file.               *)
(***************************************************************************)
EXTENDS StateFile

CONSTANT MaxCount   \* the longest range of a --dump-memory

MemoryRequests ==
    [kind : {"memory"},
     ranges : {{range} : range \in
                 [start_address : 0 .. MemSize, byte_count : 0 .. MaxCount]},
     writes : {{}}]

\* Up to two ranges of any length.
SmallRanges == [start_address : 0 .. MemSize, byte_count : 0 .. MemSize]

StateRequests ==
    [kind : {"state"},
     ranges : {{r, s} : r \in SmallRanges, s \in SmallRanges},
     writes : {{}}]

\* Up to three stores of one, two or four bytes inside RAM.
Stores == {w \in [start_address : Address, byte_count : {1, 2, 4}] :
             range_end(w) <= MemSize}

Logs == {{u, v, w} : u \in Stores, v \in Stores, w \in Stores} \cup {{}}

WriteRequests == [kind : {"written", "state"}, ranges : {{}}, writes : Logs]

AllRequests == MemoryRequests \cup StateRequests \cup WriteRequests

=============================================================================
