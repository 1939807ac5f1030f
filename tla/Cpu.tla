-------------------------------- MODULE Cpu --------------------------------
(***************************************************************************)
(* The machine state of class CPU and the operations on it: 32-bit words,   *)
(* byte-addressed little-endian RAM, the register file with x0 hardwired to *)
(* zero, and the bounds check every memory access goes through.             *)
(*                                                                          *)
(* The widths are parameters.  The code has ByteSize = 256, hence           *)
(* WordSize = 2^32; TLC uses ByteSize = 4, hence 8-bit words in which the   *)
(* same wrap-around, sign-extension and misalignment cases occur.           *)
(***************************************************************************)
EXTENDS Integers

CONSTANTS
    ByteSize,       \* number of values of a byte
    MemSize,        \* bytes of simulated RAM (options.memory_size)
    kNumRegisters   \* registers x0 .. x(kNumRegisters-1)

WordSize == ByteSize * (ByteSize * (ByteSize * ByteSize))

Byte     == 0 .. ByteSize - 1
Word     == 0 .. WordSize - 1
Address  == 0 .. MemSize - 1
RegIndex == 0 .. kNumRegisters - 1

(***************************************************************************)
(* main.cpp parses the memory size as a uint32_t, so the RAM never covers   *)
(* the whole address space.                                                 *)
(***************************************************************************)
ASSUME CpuAssumption ==
    /\ ByteSize \in Nat /\ ByteSize >= 2
    /\ MemSize \in Nat /\ MemSize < WordSize
    /\ kNumRegisters \in Nat /\ kNumRegisters >= 1

RegFile == [RegIndex -> Word]
Memory  == [Address -> Byte]

\* uint32_t arithmetic.
add32(a, b) == (a + b) % WordSize
signed32(v) == IF 2 * v < WordSize THEN v ELSE v - WordSize

-----------------------------------------------------------------------------
(* Registers *)

read_reg(regs, reg_index) == IF reg_index = 0 THEN 0 ELSE regs[reg_index]

write_reg(regs, reg_index, value) ==
    IF reg_index = 0 THEN regs ELSE [regs EXCEPT ![reg_index] = value]

-----------------------------------------------------------------------------
(* Memory *)

\* validate_memory_access, as the condition under which it does not throw.
valid_memory_access(address, width) == width = 0 \/ address + width <= MemSize

read_u8(memory, address) == memory[address]

read_u16(memory, address) == memory[address] + ByteSize * memory[address + 1]

read_u32(memory, address) ==
    memory[address] + ByteSize *
      (memory[address + 1] + ByteSize *
        (memory[address + 2] + ByteSize * memory[address + 3]))

\* The i-th byte of a word, least significant first.
byte_of(value, i) ==
    CASE i = 0 -> value % ByteSize
      [] i = 1 -> (value \div ByteSize) % ByteSize
      [] i = 2 -> (value \div (ByteSize * ByteSize)) % ByteSize
      [] OTHER -> (value \div (ByteSize * ByteSize * ByteSize)) % ByteSize

\* The byte addresses of an access.
access_bytes(address, width) == address .. address + width - 1

\* write_u8, write_u16 and write_u32: the low `width` bytes, little-endian.
write_bytes(memory, address, value, width) ==
    [a \in Address |-> IF a \in access_bytes(address, width)
                       THEN byte_of(value, a - address)
                       ELSE memory[a]]

(***************************************************************************)
(* load_program: copy a non-empty image to RAM; it throws when the image    *)
(* does not fit.                                                            *)
(***************************************************************************)
load_image(memory, program, length, base_address) ==
    [a \in Address |-> IF a \in access_bytes(base_address, length)
                       THEN program[a - base_address + 1]
                       ELSE memory[a]]

=============================================================================
