----------------------------- MODULE MCPipeline -----------------------------
(***************************************************************************)
(* Instances of the pipeline for TLC: 8-bit words (bytes of two bits), and  *)
(* a small instruction set in place of the 32-bit encodings.  Every program *)
(* of a few instructions is run, followed by an ecall and two data words.   *)
(***************************************************************************)
EXTENDS PipelineRefinement, Alu

CONSTANTS
    SlotCount,   \* instructions before the ecall
    SlotWords    \* the words they are chosen from

ASSUME MCAssumption == SlotCount \in Nat /\ SlotWords \subseteq Word

D(kind, rd, rs1, rs2, immediate) ==
    [kind |-> kind, rd |-> rd, rs1 |-> rs1, rs2 |-> rs2,
     immediate |-> immediate, control |-> control_of[kind]]

\* Immediates are 8-bit: 252 is -4, 255 is -1.
Encodings ==
    << D("Addi",  1, 1, 0, 1),     \*  1
       D("Addi",  2, 1, 0, 255),   \*  2
       D("Add",   1, 1, 2, 0),     \*  3
       D("Lw",    1, 0, 0, 16),    \*  4
       D("Lw",    2, 1, 0, 0),     \*  5
       D("Sw",    0, 1, 2, 16),    \*  6
       D("Lb",    2, 0, 0, 17),    \*  7
       D("Sb",    0, 0, 1, 18),    \*  8
       D("Beq",   0, 1, 2, 8),     \*  9
       D("Bne",   0, 1, 0, 252),   \* 10
       D("Jal",   1, 0, 0, 8),     \* 11
       D("Jalr",  2, 1, 0, 4),     \* 12
       D("Lui",   2, 0, 0, 16),    \* 13
       D("Auipc", 1, 0, 0, 3),     \* 14
       D("Ecall", 0, 0, 0, 0),     \* 15
       D("Addi",  0, 1, 0, 3),     \* 16
       D("Beq",   0, 0, 0, 6),     \* 17
       D("Lw",    0, 0, 0, 16),    \* 18
       D("Add",   2, 0, 1, 0),     \* 19
       D("Sw",    0, 0, 1, 8),     \* 20
       D("Ebreak", 0, 0, 0, 1),    \* 21
       D("Sltu",  1, 1, 2, 0),     \* 22
       D("Lhu",   2, 1, 0, 16),    \* 23
       D("Sh",    0, 0, 2, 12),    \* 24
       D("Blt",   0, 1, 2, 252),   \* 25
       D("Bgeu",  0, 1, 2, 8),     \* 26
       D("Lw",    1, 0, 0, 20),    \* 27
       D("Sw",    0, 0, 1, 24),    \* 28
       D("Sb",    0, 0, 1, 2)      \* 29
    >>

Decode ==
    [w \in Word |-> IF w \in DOMAIN Encodings THEN Encodings[w]
                    ELSE D("Invalid", 0, 0, 0, 0)]

\* The image of a sequence of words, little-endian.
Image(words) ==
    [i \in 1 .. 4 * Len(words) |->
        byte_of(words[((i - 1) \div 4) + 1], (i - 1) % 4)]

HaltAndData == <<15, 20, 131>>

ProgramsOf(count, words) ==
    {Image(slots \o HaltAndData) : slots \in [1 .. count -> words]}

SmallPrograms == ProgramsOf(SlotCount, SlotWords)

\* Four instructions, with stores that can hit the program itself.
StoringPrograms == ProgramsOf(4, {1, 4, 5, 6, 8, 11, 20, 24})

DataPrograms == SmallPrograms \cup StoringPrograms

OneConfig    == {[enable_forwarding |-> TRUE,
                  branch_predictor_type |-> "TwoBitSaturating"]}
AllPredictors == {[enable_forwarding |-> TRUE,
                   branch_predictor_type |-> t] : t \in BranchPredictorType}

BypassOff == {[enable_forwarding |-> FALSE,
               branch_predictor_type |-> "TwoBitSaturating"]}

=============================================================================
