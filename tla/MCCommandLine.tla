--------------------------- MODULE MCCommandLine ---------------------------
(***************************************************************************)
(* Command lines for TLC: 4-bit and 6-bit numbers in place of 32-bit and    *)
(* 64-bit ones, and each option with texts around its limits.               *)
(***************************************************************************)
EXTENDS CommandLine

N(magnitude) ==
    [negative |-> FALSE, magnitude |-> magnitude, complete |-> TRUE]
Minus(magnitude) ==
    [negative |-> TRUE, magnitude |-> magnitude, complete |-> TRUE]
Garbage == [negative |-> FALSE, magnitude |-> 1, complete |-> FALSE]

A(name, numbers, text) == [name |-> name, numbers |-> numbers, text |-> text]

\* -1, and the negative number that wraps to 1, among the numbers.
SmallArguments ==
         {A(name, <<>>, "") : name \in FlagNames \cup {"unknown"}}
    \cup {A(name, <<n>>, "") :
            name \in {"memory-size", "max-cycles"},
            n \in {N(0), N(7), N(U32), Minus(1), Minus(U64 - 1), N(U64),
                   Garbage}}
    \cup {A(name, <<N(3)>>, "") : name \in ValueNames}
    \cup {A(name, pair, "") :
            name \in PairNames,
            pair \in {<<N(2)>>, <<N(4), N(8)>>, <<N(U32 - 3), N(1)>>}}
    \cup {A("dump-state", <<>>, text) : text \in {"", "file"}}
    \cup {A("branch-predictor", <<>>, text) : text \in {"taken", "three-bit"}}
    \cup {A("program", <<>>, text) : text \in {"", "p.bin", "q.bin"}}

=============================================================================
