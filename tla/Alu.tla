-------------------------------- MODULE Alu --------------------------------
(***************************************************************************)
(* execute_alu() of stages.cpp, for words of WordBits bits.                 *)
(***************************************************************************)
EXTENDS Cpu, Bitwise

CONSTANT WordBits

ASSUME AluWidthAssumption == WordSize = 2 ^ WordBits

alu(op, lhs, rhs) ==
    LET shamt == rhs % WordBits
    IN  CASE op = "Add"  -> add32(lhs, rhs)
          [] op = "Sub"  -> (lhs - rhs) % WordSize
          [] op = "And"  -> lhs & rhs
          [] op = "Or"   -> lhs | rhs
          [] op = "Xor"  -> lhs ^^ rhs
          [] op = "Sll"  -> (lhs * 2 ^ shamt) % WordSize
          [] op = "Srl"  -> lhs \div 2 ^ shamt
          [] op = "Sra"  -> (signed32(lhs) \div 2 ^ shamt) % WordSize
          [] op = "Slt"  -> IF signed32(lhs) < signed32(rhs) THEN 1 ELSE 0
          [] op = "Sltu" -> IF lhs < rhs THEN 1 ELSE 0
          [] op = "None" -> 0

=============================================================================
