------------------------------ MODULE Datapath ------------------------------
(***************************************************************************)
(* The pure helpers of stages.cpp: the ALU, the branch comparator, and the  *)
(* width and sign handling of loads and stores.                             *)
(*                                                                          *)
(* execute_alu is a parameter, because its bitwise and shift operations are *)
(* out of the provers' reach; module Alu defines it for TLC.  What the      *)
(* pipeline relies on is that it returns a word and that "Add" wraps.       *)
(***************************************************************************)
EXTENDS Instructions

CONSTANT execute_alu(_, _, _)

ASSUME AluAssumption ==
    /\ \A op \in ALUOp : \A a, b \in Word : execute_alu(op, a, b) \in Word
    /\ \A a, b \in Word : execute_alu("Add", a, b) = add32(a, b)

evaluate_branch(condition, lhs, rhs) ==
    CASE condition = "Equal"                  -> lhs = rhs
      [] condition = "NotEqual"               -> lhs # rhs
      [] condition = "LessThan"               -> signed32(lhs) < signed32(rhs)
      [] condition = "GreaterOrEqual"         -> signed32(lhs) >= signed32(rhs)
      [] condition = "LessThanUnsigned"       -> lhs < rhs
      [] condition = "GreaterOrEqualUnsigned" -> lhs >= rhs
      [] OTHER                                -> FALSE

\* Mutant of sign_extend_value: the negative value is not cast back to uint32_t.
sign_extend_value_not_cast(value, size) ==
    IF 2 * value < size THEN value ELSE value - size

\* sign_extend_value, for a value of `size` possible bit patterns.
sign_extend_value(value, size) ==
    IF 2 * value < size THEN value ELSE value + (WordSize - size)

width_bytes(control) ==
    CASE control.memory_width = "Byte"     -> 1
      [] control.memory_width = "HalfWord" -> 2
      [] control.memory_width = "Word"     -> 4
      [] OTHER                             -> 0

\* The branches of read_memory, for an access that passed the bounds check.
read_memory(memory, address, control) ==
    CASE control.memory_width = "Byte" /\ control.mem_unsigned ->
            read_u8(memory, address)
      [] control.memory_width = "Byte" /\ ~control.mem_unsigned ->
            sign_extend_value(read_u8(memory, address), ByteSize)
      [] control.memory_width = "HalfWord" /\ control.mem_unsigned ->
            read_u16(memory, address)
      [] control.memory_width = "HalfWord" /\ ~control.mem_unsigned ->
            sign_extend_value(read_u16(memory, address), ByteSize * ByteSize)
      [] control.memory_width = "Word" -> read_u32(memory, address)
      [] OTHER -> 0

write_memory(memory, address, value, control) ==
    write_bytes(memory, address, value, width_bytes(control))

=============================================================================
