----------------------------- MODULE StateDump -----------------------------
(***************************************************************************)
(* The memory dumps: print_memory_dump (one range, in lines of              *)
(* kBytesPerLine bytes), print_written_memory_dump (every byte the program  *)
(* wrote) and the memory section of print_architectural_state_json (the     *)
(* requested ranges, or every byte written when none is requested).  The    *)
(* last two mark the selected bytes and then scan RAM for maximal runs.     *)
(*                                                                          *)
(* Output is modelled by which bytes it contains and how often.             *)
(***************************************************************************)
EXTENDS Cpu, Sequences

CONSTANTS
    kBytesPerLine,   \* 16 in the code
    Requests         \* the dumps, with the write log of the CPU they dump

\* MemoryDumpRange, and MemoryWrite with the same two fields.
MemoryDumpRange == [start_address : Word, byte_count : Word]

DumpRequest ==
    [kind : {"memory", "written", "state"},
     ranges : SUBSET MemoryDumpRange,   \* the arguments of the dump
     writes : SUBSET MemoryDumpRange]   \* CPU::memory_writes()

\* A line divides the address space, as 16 does 2^32; --dump-memory has one range.
ASSUME DumpAssumption ==
    /\ kBytesPerLine \in Nat \ {0}
    /\ WordSize % kBytesPerLine = 0
    /\ Requests \subseteq DumpRequest
    /\ \A r \in Requests : r.kind = "memory" => \E g \in r.ranges : r.ranges = {g}

VARIABLES
    request,
    phase,        \* where the dump is
    selected,     \* the vectors selected and touched, as sets of addresses
    address,      \* the scan's position
    start,        \* where the run being scanned or printed began
    count,        \* byte_count of the range being printed
    offset,       \* of the next line in that range
    normalized,   \* the ranges found so far
    printed       \* how often each byte was output: 0, 1, or 2 for more

dumpVars == <<request, phase, selected, address, start, count, offset,
              normalized, printed>>

Once(times) == IF times = 2 THEN 2 ELSE times + 1

print_bytes(bytes) ==
    printed' = [a \in Address |-> IF a \in bytes THEN Once(printed[a])
                                                 ELSE printed[a]]

-----------------------------------------------------------------------------
\* The ranges whose bytes the dump outputs.
dumped_ranges ==
    IF request.kind = "written" \/ (request.kind = "state" /\ request.ranges = {})
    THEN request.writes
    ELSE request.ranges

range_end(range) == range.start_address + range.byte_count

range_bytes(range) == access_bytes(range.start_address, range.byte_count)

\* The 64-bit end of a range is compared with the size of RAM.
ranges_fit == \A range \in dumped_ranges : range_end(range) <= MemSize

Throw ==
    /\ phase = "check"
    /\ ~ranges_fit
    /\ phase' = "thrown"
    /\ UNCHANGED <<request, selected, address, start, count, offset,
                   normalized, printed>>

\* print_written_memory_dump returns early when nothing was written.
NoWrites ==
    /\ phase = "check"
    /\ request.kind = "written" /\ request.writes = {}
    /\ phase' = "done"
    /\ UNCHANGED <<request, selected, address, start, count, offset,
                   normalized, printed>>

StartLines ==
    /\ phase = "check"
    /\ request.kind = "memory"
    /\ ranges_fit
    /\ \E range \in request.ranges :
         start' = range.start_address /\ count' = range.byte_count
    /\ offset' = 0
    /\ phase' = "lines"
    /\ UNCHANGED <<request, selected, address, normalized, printed>>

Select ==
    /\ phase = "check"
    /\ request.kind # "memory"
    /\ request.kind = "written" => request.writes # {}
    /\ ranges_fit
    /\ selected' = UNION {range_bytes(range) : range \in dumped_ranges}
    /\ address' = 0
    /\ phase' = "skip"
    /\ UNCHANGED <<request, start, count, offset, normalized, printed>>

\* Mutant of Skip: the scan does not stop at the end of RAM.
SkipPastEnd ==
    /\ phase = "skip"
    /\ address <= MemSize /\ address \notin selected
    /\ address' = address + 1
    /\ UNCHANGED <<request, phase, selected, start, count, offset,
                   normalized, printed>>

\* The first inner loop, over bytes that are not selected.
Skip ==
    /\ phase = "skip"
    /\ address < MemSize /\ address \notin selected
    /\ address' = address + 1
    /\ UNCHANGED <<request, phase, selected, start, count, offset,
                   normalized, printed>>

BeginRun ==
    /\ phase = "skip"
    /\ address < MemSize /\ address \in selected
    /\ start' = address
    /\ phase' = "run"
    /\ UNCHANGED <<request, selected, address, count, offset, normalized,
                   printed>>

\* The second inner loop, over selected bytes.
Extend ==
    /\ phase = "run"
    /\ address < MemSize /\ address \in selected
    /\ address' = address + 1
    /\ UNCHANGED <<request, phase, selected, start, count, offset,
                   normalized, printed>>

\* Mutant of run_ended: a run is cut after a line.
run_ended_at_line ==
    \/ address = MemSize \/ address \notin selected
    \/ address - start = kBytesPerLine

run_ended == address = MemSize \/ address \notin selected

\* normalize_memory_ranges: the run is appended to the result.
PushRange ==
    /\ phase = "run"
    /\ run_ended
    /\ request.kind = "state"
    /\ normalized' = Append(normalized, [start_address |-> start,
                                         byte_count |-> address - start])
    /\ phase' = "skip"
    /\ UNCHANGED <<request, selected, address, start, count, offset, printed>>

\* print_written_memory_dump: the run is printed at once.
PrintRun ==
    /\ phase = "run"
    /\ run_ended
    /\ request.kind = "written"
    /\ count' = address - start
    /\ offset' = 0
    /\ phase' = "lines"
    /\ UNCHANGED <<request, selected, address, start, normalized, printed>>

bytes_this_line == IF count - offset < kBytesPerLine THEN count - offset
                                                     ELSE kBytesPerLine

\* Mutant of PrintLine: a full line is printed also at the end.
PrintLineFull ==
    /\ phase = "lines"
    /\ offset < count
    /\ print_bytes(access_bytes(start + offset, kBytesPerLine))
    /\ offset' = IF request.kind = "memory" THEN add32(offset, kBytesPerLine)
                                            ELSE offset + kBytesPerLine
    /\ UNCHANGED <<request, phase, selected, address, start, count,
                   normalized>>

\* Mutant of PrintLine: the offset is assigned the line instead of advanced.
PrintLineAssigns ==
    /\ phase = "lines"
    /\ offset < count
    /\ print_bytes(access_bytes(start + offset, bytes_this_line))
    /\ offset' = kBytesPerLine
    /\ UNCHANGED <<request, phase, selected, address, start, count,
                   normalized>>

(***************************************************************************)
(* One line.  The offset of print_memory_dump is a uint32_t, that of        *)
(* print_written_memory_dump a size_t.                                      *)
(***************************************************************************)
PrintLine ==
    /\ phase = "lines"
    /\ offset < count
    /\ print_bytes(access_bytes(start + offset, bytes_this_line))
    /\ offset' = IF request.kind = "memory" THEN add32(offset, kBytesPerLine)
                                            ELSE offset + kBytesPerLine
    /\ UNCHANGED <<request, phase, selected, address, start, count,
                   normalized>>

\* Mutant of EndLines: the loop ends only when the offset meets the count.
EndLinesExact ==
    /\ phase = "lines"
    /\ offset = count
    /\ phase' = IF request.kind = "memory" THEN "done" ELSE "skip"
    /\ UNCHANGED <<request, selected, address, start, count, offset,
                   normalized, printed>>

EndLines ==
    /\ phase = "lines"
    /\ offset >= count
    /\ phase' = IF request.kind = "memory" THEN "done" ELSE "skip"
    /\ UNCHANGED <<request, selected, address, start, count, offset,
                   normalized, printed>>

\* The scan is over; the JSON lists the bytes of the ranges found.
EndScan ==
    /\ phase = "skip"
    /\ address = MemSize
    /\ IF request.kind = "state"
       THEN print_bytes(UNION {range_bytes(normalized[i]) :
                                 i \in DOMAIN normalized})
       ELSE UNCHANGED printed
    /\ phase' = "done"
    /\ UNCHANGED <<request, selected, address, start, count, offset,
                   normalized>>

DumpInit ==
    /\ request \in Requests
    /\ phase = "check"
    /\ selected = {}
    /\ address = 0 /\ start = 0 /\ count = 0 /\ offset = 0
    /\ normalized = <<>>
    /\ printed = [a \in Address |-> 0]

DumpNext ==
    \/ Throw \/ NoWrites \/ StartLines \/ Select
    \/ Skip \/ BeginRun \/ Extend \/ PushRange \/ PrintRun
    \/ PrintLine \/ EndLines \/ EndScan

DumpSpec == DumpInit /\ [][DumpNext]_dumpVars /\ WF_dumpVars(DumpNext)

-----------------------------------------------------------------------------
(* Properties *)

\* The types of the dump's variables; the scan stays within RAM.
DumpTypeOK ==
    /\ request \in Requests
    /\ phase \in {"check", "skip", "run", "lines", "done", "thrown"}
    /\ selected \subseteq Address
    /\ address \in 0 .. MemSize /\ start \in 0 .. MemSize
    /\ count \in Word /\ offset \in Nat
    /\ normalized \in Seq(MemoryDumpRange)
    /\ printed \in [Address -> 0 .. 2]

DumpedBytes == UNION {range_bytes(range) : range \in dumped_ranges}

(***************************************************************************)
(* A dump that returns has output each byte it was asked for once, and no   *)
(* other, although ranges and writes may overlap, touch or be empty; one    *)
(* that throws has output none.                                             *)
(***************************************************************************)
EachByteOnce ==
    /\ phase = "done" =>
         printed = [a \in Address |-> IF a \in DumpedBytes THEN 1 ELSE 0]
    /\ phase = "thrown" => printed = [a \in Address |-> 0]

(***************************************************************************)
(* The ranges of the architectural state are canonical: ascending, not      *)
(* empty, and separated by at least one byte that is not selected.  Two     *)
(* states with the same bytes then have the same text, whatever the order,  *)
(* overlap and number of the requested ranges or the writes.                *)
(***************************************************************************)
RangesCanonical ==
    /\ \A i \in DOMAIN normalized :
         /\ normalized[i].byte_count > 0
         /\ range_end(normalized[i]) < MemSize =>
              range_end(normalized[i]) \notin selected
    /\ \A i, j \in DOMAIN normalized :
         i < j => range_end(normalized[i]) < normalized[j].start_address

scanning == phase \in {"skip", "run", "lines"}

\* What the loops do at one position of the scan, in their order.
place ==
    CASE phase = "run" -> 1
      [] phase = "lines" -> 2
      [] OTHER -> IF address \in selected THEN 0 ELSE 3

\* The line counter of a single range can reach its end.
line_counter_fits == request.kind = "memory" => count + kBytesPerLine <= WordSize

(***************************************************************************)
(* Why the nested loops end, although two of them share a position and the  *)
(* line counter is unsigned: every step takes the dump from its checks into *)
(* the loops or out of them, moves the scan on, or does what is next at its *)
(* position; and a line lifts the offset towards the end of its range.      *)
(***************************************************************************)
DumpProgresses ==
    [][line_counter_fits =>
         \/ phase = "check" /\ phase' # "check"
         \/ scanning /\ phase' \in {"done", "thrown"}
         \/ /\ scanning /\ scanning'
            /\ \/ address < address'
               \/ address' = address /\ place < place'
               \/ /\ UNCHANGED <<phase, address, count>>
                  /\ offset < count /\ offset < offset']_dumpVars

\* Every dump returns or throws.
DumpTerminates == <>(phase \in {"done", "thrown"})

=============================================================================
