---------------------------- MODULE Instructions ----------------------------
(***************************************************************************)
(* What decode_instruction() produces: a DecodedInstruction with the         *)
(* control signals of its kind, and the source registers get_source_        *)
(* registers() reads from it.                                               *)
(*                                                                          *)
(* The bit layout of the encodings is a parameter (decode_instruction): the *)
(* pipeline depends on it only through the fields of the result.  Decoder   *)
(* models the layout itself, and DecoderProofs shows that the assumption    *)
(* made here holds of it.                                                   *)
(***************************************************************************)
EXTENDS Cpu, Control

\* The immediate is kept as the uint32_t it is cast to wherever it is used.
DecodedInstruction ==
    [kind : InstructionKind, rd : RegIndex, rs1 : RegIndex, rs2 : RegIndex,
     immediate : Word, control : ControlSignals]

\* Maps an instruction word to its DecodedInstruction.
CONSTANT decode_instruction

ASSUME DecodeAssumption ==
    /\ decode_instruction \in [Word -> DecodedInstruction]
    /\ \A w \in Word : decode_instruction[w].control
                         = control_of[decode_instruction[w].kind]

is_valid_instruction(decoded) == decoded.kind # "Invalid"

\* get_source_registers: the registers other than x0 an instruction reads.
uses_rs1(decoded) ==
    /\ decoded.kind \in AluRegKinds \cup AluImmKinds \cup LoadKinds
                          \cup StoreKinds \cup BranchKinds \cup {"Jalr"}
    /\ decoded.rs1 # 0

uses_rs2(decoded) ==
    decoded.kind \in AluRegKinds \cup StoreKinds \cup BranchKinds
      /\ decoded.rs2 # 0

=============================================================================
