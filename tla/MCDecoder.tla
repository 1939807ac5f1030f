----------------------------- MODULE MCDecoder -----------------------------
(***************************************************************************)
(* Samples for TLC: instructions of every kind with fields at the ends of   *)
(* their ranges, as assembled and with each single bit changed.             *)
(***************************************************************************)
EXTENDS Decoder

CONSTANTS
    Registers,   \* the register numbers of the assembled instructions
    Immediates   \* 12-bit immediates, also scaled to the other formats

\* Both ends of the range, alternating bits, and a single bit.
EdgeImmediates == {-2048, -1365, -1, 0, 1, 32, 1366, 2047}

\* The immediates each format can carry.
ImmediatesOf(kind) ==
    CASE kind \in AluRegKinds \cup {"Ecall"} -> {0}
      [] kind = "Ebreak" -> {1}
      [] kind \in ShiftKinds -> {i % 32 : i \in Immediates}
      [] kind \in BranchKinds -> {2 * i : i \in Immediates}
      [] kind = "Jal" -> {512 * i : i \in Immediates}
                           \cup {2 * i : i \in Immediates}
      [] kind \in UKinds -> {i * 2^20 : i \in Immediates}
                              \cup {i * 2^12 : i \in Immediates}
      [] OTHER -> Immediates

Field(present) == IF present THEN Registers ELSE {0}

InstructionsOf(kind) ==
    [kind : {kind}, rd : Field(HasRd(kind)), rs1 : Field(HasRs1(kind)),
     rs2 : Field(HasRs2(kind)), immediate : ImmediatesOf(kind)]

Flip(w, b) == IF b = 31
              THEN IF w < 0 THEN (w + 2^30) + 2^30 ELSE (w - 2^30) - 2^30
              ELSE IF bits(w, b, b) = 1 THEN w - 2^b ELSE w + 2^b

SamplesOf(instruction) ==
    [source : {instruction},
     word : {Encode(instruction)}
              \cup {Flip(Encode(instruction), b) : b \in 0 .. 31}]

EdgeSamples ==
    UNION {SamplesOf(i) :
             i \in UNION {InstructionsOf(k) : k \in InstructionKind \ {"Invalid"}}}

=============================================================================
