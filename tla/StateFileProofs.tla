-------------------------- MODULE StateFileProofs --------------------------
(***************************************************************************)
(* The memory dumps and the state file, for every size of RAM, every set of *)
(* ranges and every write log.                                              *)
(*                                                                          *)
(* The argument is about the scan: at every moment the bytes found, or      *)
(* printed, are the selected ones below the position it has reached.        *)
(***************************************************************************)
EXTENDS StateFile, TLAPS

-----------------------------------------------------------------------------
(* Words, ranges and output *)

\* A number without remainder is a multiple.
LEMMA Multiple ==
    ASSUME NEW w \in Nat, NEW k \in Nat, k > 0, w % k = 0
    PROVE  \E n \in Nat : w = k * n
<1> DEFINE p == w \div k
           t == w % k
<1>1. p \in Int /\ t \in Int /\ w = k * p + t
  OBVIOUS
<1>2. t = 0
  OBVIOUS
<1> HIDE DEF p, t
<1>3. w = k * p
  BY <1>1, <1>2
<1>4. p \in Nat
  <2>1. p < 0 => k * p < 0
    BY <1>1
  <2> QED
    BY <1>1, <1>3, <2>1
<1> QED
  BY <1>3, <1>4

\* Between two multiples there is room for one step.
LEMMA NextMultiple ==
    ASSUME NEW k \in Nat, NEW a \in Nat, NEW b \in Nat, k > 0, k * a < k * b
    PROVE  /\ k * (a + 1) = k * a + k
           /\ k * a + k <= k * b
<1>1. k * (a + 1) = k * a + k
  OBVIOUS
<1>2. a < b
  <2>1. a >= b => k * a >= k * b
    OBVIOUS
  <2> QED
    BY <2>1
<1>3. k * (a + 1) <= k * b
  BY <1>2
<1> QED
  BY <1>1, <1>3

\* The facts about the constants that the dumps rely on.
LEMMA DumpConstants ==
    /\ MemSize \in Nat /\ WordSize \in Nat /\ MemSize < WordSize
    /\ kBytesPerLine \in Nat /\ kBytesPerLine > 0
    /\ \E n \in Nat : WordSize = kBytesPerLine * n
<1>1. MemSize \in Nat /\ ByteSize \in Nat /\ MemSize < WordSize
  BY CpuAssumption
<1>2. WordSize \in Nat
  <2>1. ByteSize * ByteSize \in Nat
    BY <1>1
  <2>2. ByteSize * (ByteSize * ByteSize) \in Nat
    BY <1>1, <2>1
  <2> QED
    BY <1>1, <2>2 DEF WordSize
<1>3. kBytesPerLine \in Nat /\ kBytesPerLine > 0
  BY DumpAssumption
<1>4. \E n \in Nat : WordSize = kBytesPerLine * n
  <2>1. WordSize % kBytesPerLine = 0
    BY DumpAssumption
  <2> QED
    BY <1>2, <1>3, <2>1, Multiple
<1> QED
  BY <1>1, <1>2, <1>3, <1>4

\* The elements of the bytes of a set of ranges.
LEMMA InRanges ==
    ASSUME NEW R, NEW a
    PROVE  a \in UNION {range_bytes(r) : r \in R} <=>
             \E r \in R : a \in range_bytes(r)
OBVIOUS

\* The bytes of a set are output once, and no others.
Marked(S) == [a \in Address |-> IF a \in S THEN 1 ELSE 0]

\* Printing bytes that have not been printed.
LEMMA MarkMore ==
    ASSUME NEW S, NEW bytes, printed = Marked(S),
           \A a \in Address : a \in bytes => a \notin S,
           print_bytes(bytes)
    PROVE  printed' = Marked(S \cup bytes)
BY DEF Marked, print_bytes, Once

\* The output counts stay counts.
LEMMA PrintedType ==
    ASSUME printed \in [Address -> 0 .. 2], NEW bytes, print_bytes(bytes)
    PROVE  printed' \in [Address -> 0 .. 2]
BY DEF print_bytes, Once

\* No address of a set is marked more than twice.
LEMMA MarkedType == ASSUME NEW S PROVE Marked(S) \in [Address -> 0 .. 2]
BY DEF Marked

\* The elements of S below n.
Below(S, n) == {a \in S : a < n}

\* The ranges of a request are ranges.
LEMMA RequestTypes ==
    ASSUME request \in Requests
    PROVE  /\ request.kind \in {"memory", "written", "state"}
           /\ dumped_ranges \subseteq MemoryDumpRange
           /\ request.kind = "memory" =>
                /\ dumped_ranges = request.ranges
                /\ \E g \in request.ranges : request.ranges = {g}
<1>1. request \in DumpRequest
  BY DumpAssumption
<1>2. /\ request.kind \in {"memory", "written", "state"}
      /\ request.ranges \subseteq MemoryDumpRange
      /\ request.writes \subseteq MemoryDumpRange
  BY <1>1 DEF DumpRequest
<1> QED
  BY <1>2, DumpAssumption DEF dumped_ranges

\* The bytes of ranges that fit are in RAM.
LEMMA FittingBytes ==
    ASSUME request \in Requests, ranges_fit
    PROVE  DumpedBytes \subseteq Address
<1>1. SUFFICES ASSUME NEW r \in dumped_ranges, NEW a \in range_bytes(r)
               PROVE  a \in Address
  BY InRanges DEF DumpedBytes
<1>2. /\ r.start_address \in Nat /\ r.byte_count \in Nat
      /\ r.start_address + r.byte_count <= MemSize
  BY RequestTypes, DumpConstants
  DEF ranges_fit, range_end, MemoryDumpRange, Word
<1>3. a \in r.start_address .. r.start_address + r.byte_count - 1
  BY DEF range_bytes, access_bytes
<1> QED
  BY <1>2, <1>3, DumpConstants DEF Address

-----------------------------------------------------------------------------
(* The invariant *)

\* Which phases belong to which dump, and what is known before the scan.
DumpControl ==
    /\ phase \in {"skip", "run"} => request.kind # "memory"
    /\ phase = "lines" => request.kind # "state"
    /\ phase \in {"skip", "run", "lines", "done"} => ranges_fit
    /\ phase \in {"skip", "run", "lines"} /\ request.kind # "memory" =>
         selected = DumpedBytes
    /\ phase = "check" \/ request.kind # "state" => normalized = <<>>

\* A run is made of selected bytes and has its first one from the start.
RunInv ==
    phase = "run" =>
        /\ start < MemSize /\ start <= address
        /\ start \in selected
        /\ \A a \in start .. address - 1 : a \in selected

\* Lines are printed of bytes to be dumped; the offset counts whole lines.
LinesInv ==
    phase = "lines" =>
        /\ start + count <= MemSize
        /\ \A a \in start .. start + count - 1 : a \in DumpedBytes
        /\ request.kind = "written" =>
             address = start + count /\ address \notin selected
        /\ request.kind = "memory" =>
             /\ DumpedBytes = start .. start + count - 1
             /\ offset + kBytesPerLine <= WordSize
             /\ \E m \in Nat : offset = kBytesPerLine * m

\* How far the output of the lines, and the dump, have come.
LineFront == IF offset < count THEN start + offset ELSE start + count

Frontier ==
    IF phase = "skip" THEN address ELSE IF phase = "run" THEN start ELSE LineFront

\* The ranges found end before the frontier, and are canonical.
RangesInv ==
    /\ RangesCanonical
    /\ phase \in {"skip", "run"} =>
         \A i \in DOMAIN normalized : range_end(normalized[i]) <= Frontier

Covered == UNION {range_bytes(normalized[i]) : i \in DOMAIN normalized}

(***************************************************************************)
(* What has been output, and for the architectural state what has been      *)
(* found, are the bytes to be dumped below the frontier.  A single range    *)
(* longer than WordSize - kBytesPerLine is excepted: its offset wraps, and  *)
(* the dump then never ends.                                                *)
(***************************************************************************)
OutputInv ==
    /\ phase \in {"check", "thrown"} => printed = Marked({})
    /\ phase \in {"skip", "run"} /\ request.kind = "state" =>
         /\ printed = Marked({})
         /\ Covered = Below(DumpedBytes, Frontier)
    /\ phase \in {"skip", "run", "lines"} /\ request.kind = "written" =>
         printed = Marked(Below(DumpedBytes, Frontier))
    /\ phase = "lines" /\ request.kind = "memory"
         /\ count + kBytesPerLine <= WordSize =>
         printed = Marked(Below(DumpedBytes, Frontier))
    /\ phase = "done" => printed = Marked(DumpedBytes)

DumpInv ==
    /\ DumpTypeOK
    /\ DumpControl /\ RunInv /\ LinesInv /\ RangesInv /\ OutputInv

-----------------------------------------------------------------------------
(* The steps of a dump *)

\* What depends on the request alone.
LEMMA SameRequest ==
    ASSUME request' = request
    PROVE  /\ dumped_ranges' = dumped_ranges
           /\ DumpedBytes' = DumpedBytes
           /\ ranges_fit' <=> ranges_fit
<1>1. dumped_ranges' = dumped_ranges
  BY DEF dumped_ranges
<1> QED
  BY <1>1 DEF DumpedBytes, ranges_fit

\* The initial state.
LEMMA DumpInvInit == ASSUME DumpInit PROVE DumpInv
<1>1. DumpTypeOK
  BY DumpConstants DEF DumpInit, DumpTypeOK, Word
<1>2. printed = Marked({})
  BY DEF DumpInit, Marked
<1> QED
  BY <1>1, <1>2
  DEF DumpInit, DumpInv, DumpControl, RunInv, LinesInv, RangesInv,
      RangesCanonical, OutputInv

\* Ranges that do not fit are refused before anything is output.
LEMMA ThrowStep == ASSUME DumpInv, Throw PROVE DumpInv'
<1>1. DumpTypeOK'
  BY DEF DumpInv, DumpTypeOK, Throw
<1>2. RangesInv'
  BY DEF DumpInv, RangesInv, RangesCanonical, DumpControl, Throw
<1> QED
  BY <1>1, <1>2
  DEF DumpInv, DumpControl, RunInv, LinesInv, OutputInv, Throw

\* With an empty write log there is nothing to dump.
LEMMA NoWritesStep == ASSUME DumpInv, NoWrites PROVE DumpInv'
<1>1. DumpTypeOK'
  BY DEF DumpInv, DumpTypeOK, NoWrites
<1>2. RangesInv'
  BY DEF DumpInv, RangesInv, RangesCanonical, DumpControl, NoWrites
<1>3. dumped_ranges = {}
  BY DEF NoWrites, dumped_ranges
<1>4. ranges_fit /\ DumpedBytes = {}
  BY <1>3 DEF ranges_fit, DumpedBytes
<1>5. ranges_fit' /\ DumpedBytes' = {}
  BY <1>4, SameRequest DEF NoWrites
<1>6. printed' = Marked({})
  BY DEF DumpInv, OutputInv, NoWrites
<1> QED
  BY <1>1, <1>2, <1>5, <1>6
  DEF DumpInv, DumpControl, RunInv, LinesInv, OutputInv, NoWrites

\* print_memory_dump starts on its one range.
LEMMA StartLinesStep == ASSUME DumpInv, StartLines PROVE DumpInv'
<1> USE DEF DumpInv
<1>1. PICK g \in request.ranges : request.ranges = {g}
  BY RequestTypes DEF DumpTypeOK, StartLines
<1>2. /\ g \in MemoryDumpRange /\ dumped_ranges = {g}
      /\ start' = g.start_address /\ count' = g.byte_count
  BY <1>1, RequestTypes DEF DumpTypeOK, StartLines
<1>3. /\ g.start_address \in Nat /\ g.byte_count \in Nat
      /\ g.byte_count \in Word
      /\ g.start_address + g.byte_count <= MemSize
  BY <1>2, DumpConstants
  DEF StartLines, ranges_fit, range_end, MemoryDumpRange, Word
<1>4. DumpedBytes = g.start_address .. g.start_address + g.byte_count - 1
  BY <1>2 DEF DumpedBytes, range_bytes, access_bytes
<1>5. DumpTypeOK'
  BY <1>2, <1>3, DumpConstants DEF DumpTypeOK, StartLines
<1>6. ranges_fit' /\ DumpedBytes' = DumpedBytes
  BY SameRequest DEF StartLines
<1>7. DumpControl'
  BY <1>6 DEF DumpControl, StartLines
<1>8. LinesInv'
  <2>1. offset' = 0 /\ 0 + kBytesPerLine <= WordSize /\ 0 = kBytesPerLine * 0
    <3>1. PICK n \in Nat : WordSize = kBytesPerLine * n
      BY DumpConstants
    <3>2. kBytesPerLine * 0 < kBytesPerLine * n /\ kBytesPerLine * 0 = 0
      BY <3>1, DumpConstants
    <3> QED
      BY <3>1, <3>2, NextMultiple, DumpConstants DEF StartLines
  <2>2. start' + count' <= MemSize
    BY <1>2, <1>3
  <2>3. DumpedBytes' = start' .. start' + count' - 1
    BY <1>2, <1>4, <1>6
  <2>4. offset' + kBytesPerLine <= WordSize /\ \E m \in Nat : offset' = kBytesPerLine * m
    BY <2>1
  <2> QED
    BY <2>2, <2>3, <2>4 DEF LinesInv, StartLines
<1>9. RangesInv'
  BY DEF RangesInv, RangesCanonical, DumpControl, StartLines
<1>10. OutputInv'
  <2>1. Below(DumpedBytes', Frontier') = {}
    <3>1. Frontier' = start'
      BY <1>2, <1>3 DEF Frontier, LineFront, StartLines
    <3> QED
      BY <1>2, <1>3, <1>4, <1>6, <3>1 DEF Below
  <2> QED
    BY <2>1 DEF OutputInv, StartLines
<1> QED
  BY <1>5, <1>7, <1>8, <1>9, <1>10 DEF RunInv, StartLines

\* The selected bytes are the bytes to dump.
LEMMA SelectStep == ASSUME DumpInv, Select PROVE DumpInv'
<1> USE DEF DumpInv
<1>1. selected' = DumpedBytes /\ DumpedBytes' = DumpedBytes /\ ranges_fit'
  BY SameRequest DEF Select, DumpedBytes
<1>2. DumpTypeOK'
  BY <1>1, FittingBytes, DumpConstants DEF DumpTypeOK, Select
<1>3. DumpControl'
  BY <1>1 DEF DumpControl, Select
<1>4. normalized' = <<>>
  BY DEF DumpControl, Select
<1>5. RangesInv'
  BY <1>4 DEF RangesInv, RangesCanonical
<1>6. Covered' = {}
  BY <1>4 DEF Covered
<1>7. Below(DumpedBytes', Frontier') = {}
  BY <1>1, FittingBytes DEF Below, Frontier, Select, DumpTypeOK, Address
<1> QED
  BY <1>2, <1>3, <1>5, <1>6, <1>7
  DEF RunInv, LinesInv, OutputInv, Select

\* The bytes to dump are addresses, from the moment the ranges are checked.
LEMMA BytesTyped ==
    ASSUME DumpInv, phase \in {"skip", "run", "lines"}
    PROVE  /\ ranges_fit /\ DumpedBytes \subseteq Address
           /\ request.kind # "memory" => selected = DumpedBytes
BY FittingBytes DEF DumpInv, DumpControl, DumpTypeOK

\* A normalized range has two words, and its end is a number.
LEMMA NormalizedTypes ==
    ASSUME normalized \in Seq(MemoryDumpRange), NEW i \in DOMAIN normalized
    PROVE  /\ normalized[i].start_address \in Int
           /\ normalized[i].byte_count \in Int
           /\ range_end(normalized[i]) \in Int
<1>1. normalized[i] \in MemoryDumpRange
  OBVIOUS
<1>2. normalized[i].start_address \in Int /\ normalized[i].byte_count \in Int
  BY <1>1 DEF MemoryDumpRange, Word
<1> QED
  BY <1>2 DEF range_end

\* A byte that is not selected moves the position and nothing else.
LEMMA SkipStep == ASSUME DumpInv, Skip PROVE DumpInv'
<1> USE DEF DumpInv
<1>1. /\ DumpedBytes' = DumpedBytes /\ ranges_fit' /\ selected = DumpedBytes
      /\ DumpedBytes \subseteq Address
  BY SameRequest, BytesTyped DEF Skip, DumpControl
<1>2. DumpTypeOK'
  BY DumpConstants DEF DumpTypeOK, Skip
<1>3. DumpControl'
  BY <1>1 DEF DumpControl, Skip
<1>4. Frontier = address /\ Frontier' = address + 1
  BY DEF Frontier, Skip
<1>5. RangesInv'
  <2>1. RangesCanonical'
    BY DEF RangesInv, RangesCanonical, range_end, Skip
  <2>2. ASSUME NEW i \in DOMAIN normalized
        PROVE  range_end(normalized[i]) <= address + 1
    <3>1. range_end(normalized[i]) <= address
      BY <1>4 DEF RangesInv, Skip
    <3>2. range_end(normalized[i]) \in Int
      BY NormalizedTypes DEF DumpTypeOK
    <3> QED
      BY <3>1, <3>2 DEF DumpTypeOK
  <2> QED
    BY <1>4, <2>1, <2>2 DEF RangesInv, range_end, Skip
<1>6. Below(DumpedBytes', Frontier') = Below(DumpedBytes, Frontier)
  <2>1. address \in Int /\ address \notin DumpedBytes
    BY <1>1 DEF DumpTypeOK, Skip
  <2>2. \A a \in DumpedBytes : a \in Int
    BY <1>1 DEF Address
  <2>3. \A a \in DumpedBytes : a < address + 1 <=> a < address
    BY <2>1, <2>2
  <2> QED
    BY <1>1, <1>4, <2>3 DEF Below
<1>7. Covered' = Covered
  BY DEF Covered, Skip
<1> QED
  BY <1>2, <1>3, <1>5, <1>6, <1>7
  DEF RunInv, LinesInv, OutputInv, Skip

\* A run begins where the scan is.
LEMMA BeginRunStep == ASSUME DumpInv, BeginRun PROVE DumpInv'
<1> USE DEF DumpInv
<1>1. /\ DumpedBytes' = DumpedBytes /\ ranges_fit' /\ selected = DumpedBytes
      /\ DumpedBytes \subseteq Address
  BY SameRequest, BytesTyped DEF BeginRun, DumpControl
<1>2. DumpTypeOK'
  BY DumpConstants DEF DumpTypeOK, BeginRun
<1>3. DumpControl'
  BY <1>1 DEF DumpControl, BeginRun
<1>4. Frontier = address /\ Frontier' = address
  BY DEF Frontier, BeginRun
<1>5. RunInv'
  BY DEF RunInv, BeginRun, DumpTypeOK
<1>6. RangesInv'
  BY <1>4 DEF RangesInv, RangesCanonical, range_end, BeginRun
<1>7. Covered' = Covered
  BY DEF Covered, BeginRun
<1> QED
  BY <1>1, <1>2, <1>3, <1>4, <1>5, <1>6, <1>7
  DEF LinesInv, OutputInv, BeginRun

\* A run grows by a selected byte.
LEMMA ExtendStep == ASSUME DumpInv, Extend PROVE DumpInv'
<1> USE DEF DumpInv
<1>1. /\ DumpedBytes' = DumpedBytes /\ ranges_fit' /\ selected = DumpedBytes
      /\ DumpedBytes \subseteq Address
  BY SameRequest, BytesTyped DEF Extend, DumpControl
<1>2. DumpTypeOK'
  BY DumpConstants DEF DumpTypeOK, Extend
<1>3. DumpControl'
  BY <1>1 DEF DumpControl, Extend
<1>4. Frontier = start /\ Frontier' = start
  BY DEF Frontier, Extend
<1>5. RunInv'
  BY DEF RunInv, Extend, DumpTypeOK
<1>6. RangesInv'
  BY <1>4 DEF RangesInv, RangesCanonical, range_end, Extend
<1>7. Covered' = Covered
  BY DEF Covered, Extend
<1> QED
  BY <1>1, <1>2, <1>3, <1>4, <1>5, <1>6, <1>7
  DEF LinesInv, OutputInv, Extend

\* A run that ended is not empty, and ends at a byte that is not selected.
LEMMA EndedRun ==
    ASSUME DumpInv, phase = "run", run_ended
    PROVE  /\ start \in Nat /\ address \in Nat /\ start < address
           /\ address <= MemSize
           /\ address < MemSize => address \notin selected
           /\ Below(DumpedBytes, address) =
                Below(DumpedBytes, start) \cup (start .. address - 1)
<1>1. /\ start \in Nat /\ address \in Nat /\ address <= MemSize
      /\ start < MemSize /\ start <= address /\ start \in selected
      /\ \A a \in start .. address - 1 : a \in selected
  BY DumpConstants DEF DumpInv, DumpTypeOK, RunInv
<1>2. start # address
  BY <1>1 DEF run_ended
<1>3. selected = DumpedBytes /\ DumpedBytes \subseteq Address
  BY BytesTyped DEF DumpInv, DumpControl
<1>4. ASSUME NEW a \in DumpedBytes
      PROVE  a < address <=> a < start \/ a \in start .. address - 1
  <2>1. a \in Int
    BY <1>3 DEF Address
  <2> QED
    BY <1>1, <1>2, <2>1
<1>5. Below(DumpedBytes, address) =
        Below(DumpedBytes, start) \cup (start .. address - 1)
  BY <1>1, <1>3, <1>4 DEF Below
<1> QED
  BY <1>1, <1>2, <1>5 DEF run_ended

\* normalize_memory_ranges appends the run, which lies after all the others.
LEMMA PushRangeStep == ASSUME DumpInv, PushRange PROVE DumpInv'
<1> DEFINE new == [start_address |-> start, byte_count |-> address - start]
           n   == Len(normalized)
<1>1. /\ DumpedBytes' = DumpedBytes /\ ranges_fit' /\ selected = DumpedBytes
      /\ DumpedBytes \subseteq Address
  BY SameRequest, BytesTyped DEF PushRange, DumpInv, DumpControl
<1>2. /\ start \in Nat /\ address \in Nat /\ start < address
      /\ address <= MemSize
      /\ address < MemSize => address \notin selected
      /\ Below(DumpedBytes, address) =
           Below(DumpedBytes, start) \cup (start .. address - 1)
  BY EndedRun DEF PushRange
<1>3. /\ new \in MemoryDumpRange
      /\ new.start_address = start /\ new.byte_count = address - start
      /\ range_end(new) = address
      /\ range_bytes(new) = start .. address - 1
  <2>1. start \in Word /\ address - start \in Word
    BY <1>2, DumpConstants DEF Word
  <2>2. start + (address - start) = address
    BY <1>2
  <2>3. new.start_address = start /\ new.byte_count = address - start
    OBVIOUS
  <2>4. new \in MemoryDumpRange
    BY <2>1 DEF MemoryDumpRange
  <2> HIDE DEF new
  <2> QED
    BY <1>2, <2>2, <2>3, <2>4 DEF range_end, range_bytes, access_bytes
<1> HIDE DEF new
<1>4. /\ normalized \in Seq(MemoryDumpRange) /\ n \in Nat
      /\ DOMAIN normalized = 1 .. n
  BY DEF DumpInv, DumpTypeOK
<1>5. /\ normalized' \in Seq(MemoryDumpRange)
      /\ DOMAIN normalized' = 1 .. n + 1
      /\ \A i \in 1 .. n : normalized'[i] = normalized[i]
      /\ normalized'[n + 1] = new
  <2>1. normalized' = Append(normalized, new)
    BY DEF PushRange, new
  <2>2. normalized' \in Seq(MemoryDumpRange)
    BY <1>3, <1>4, <2>1
  <2>3. Len(normalized') = n + 1
    BY <1>3, <1>4, <2>1
  <2>4. DOMAIN normalized' = 1 .. n + 1
    BY <2>2, <2>3
  <2>5. \A i \in 1 .. n : normalized'[i] = normalized[i]
    BY <1>3, <1>4, <2>1
  <2>6. normalized'[n + 1] = new
    BY <1>3, <1>4, <2>1
  <2> QED
    BY <2>2, <2>4, <2>5, <2>6
<1> HIDE DEF n
<1>6. DumpTypeOK'
  BY <1>5 DEF DumpInv, DumpTypeOK, PushRange
<1>7. DumpControl'
  BY <1>1 DEF DumpInv, DumpControl, PushRange
<1>8. Frontier = start /\ Frontier' = address
  BY DEF Frontier, PushRange
<1>9. ASSUME NEW i \in 1 .. n
      PROVE  /\ normalized[i].byte_count > 0
             /\ range_end(normalized[i]) \in Int
             /\ range_end(normalized[i]) < start
             /\ range_end(normalized[i]) < MemSize =>
                  range_end(normalized[i]) \notin selected
  <2>1. /\ range_end(normalized[i]) <= start
        /\ normalized[i].byte_count > 0
        /\ range_end(normalized[i]) < MemSize =>
             range_end(normalized[i]) \notin selected
    BY <1>4, <1>8 DEF DumpInv, RangesInv, RangesCanonical, PushRange
  <2>2. range_end(normalized[i]) \in Int
    BY <1>4, NormalizedTypes
  <2>3. start < MemSize /\ start \in selected
    BY DEF DumpInv, RunInv, PushRange
  <2> QED
    BY <1>2, <2>1, <2>2, <2>3
<1>10. RangesInv'
  <2>1. ASSUME NEW i \in 1 .. n + 1
        PROVE  /\ normalized'[i].byte_count > 0
               /\ range_end(normalized'[i]) < MemSize =>
                    range_end(normalized'[i]) \notin selected
               /\ range_end(normalized'[i]) <= address
    <3>1. CASE i \in 1 .. n
      BY <1>2, <1>5, <1>9, <3>1
    <3>2. CASE i = n + 1
      BY <1>2, <1>3, <1>5, <3>2
    <3> QED
      BY <1>4, <3>1, <3>2
  <2>2. ASSUME NEW i \in 1 .. n + 1, NEW j \in 1 .. n + 1, i < j
        PROVE  range_end(normalized'[i]) < normalized'[j].start_address
    <3>1. i \in 1 .. n /\ (j \in 1 .. n \/ j = n + 1)
      BY <1>4, <2>2
    <3>2. CASE j \in 1 .. n
      BY <1>4, <1>5, <2>2, <3>1, <3>2 DEF DumpInv, RangesInv, RangesCanonical
    <3>3. CASE j = n + 1
      BY <1>3, <1>5, <1>9, <3>1, <3>3
    <3> QED
      BY <3>1, <3>2, <3>3
  <2>3. RangesCanonical'
    BY <1>5, <2>1, <2>2 DEF RangesCanonical, range_end, PushRange
  <2> QED
    BY <1>5, <1>8, <2>1, <2>3 DEF RangesInv, range_end
<1>11. Covered' = Covered \cup range_bytes(new)
  <2>1. Covered = UNION {range_bytes(normalized[i]) : i \in 1 .. n}
    BY <1>4 DEF Covered
  <2>2. Covered' = UNION {range_bytes(normalized'[i]) : i \in 1 .. n + 1}
    BY <1>5 DEF Covered, range_bytes
  <2>3. ASSUME NEW a PROVE a \in Covered' <=> a \in Covered \/ a \in range_bytes(new)
    <3>1. a \in Covered <=> \E i \in 1 .. n : a \in range_bytes(normalized[i])
      BY <2>1
    <3>2. a \in Covered' <=>
            \E i \in 1 .. n + 1 : a \in range_bytes(normalized'[i])
      BY <2>2
    <3>3. \A i : i \in 1 .. n + 1 <=> i \in 1 .. n \/ i = n + 1
      BY <1>4
    <3> QED
      BY <1>5, <3>1, <3>2, <3>3
  <2> QED
    BY <2>3
<1>12. OutputInv'
  <2>1. printed = Marked({}) /\ Covered = Below(DumpedBytes, start)
    BY <1>8 DEF DumpInv, OutputInv, PushRange
  <2>2. Covered' = Below(DumpedBytes', Frontier')
    BY <1>1, <1>2, <1>3, <1>8, <1>11, <2>1
  <2> QED
    BY <2>1, <2>2 DEF OutputInv, PushRange
<1> QED
  BY <1>6, <1>7, <1>10, <1>12 DEF DumpInv, RunInv, LinesInv, PushRange

\* print_written_memory_dump starts on the lines of the run.
LEMMA PrintRunStep == ASSUME DumpInv, PrintRun PROVE DumpInv'
<1>1. /\ DumpedBytes' = DumpedBytes /\ ranges_fit' /\ selected = DumpedBytes
      /\ DumpedBytes \subseteq Address
  BY SameRequest, BytesTyped DEF PrintRun, DumpInv, DumpControl
<1>2. /\ start \in Nat /\ address \in Nat /\ start < address
      /\ address <= MemSize
  BY EndedRun DEF PrintRun
<1>3. /\ count' = address - start /\ offset' = 0 /\ start' = start
      /\ address' = address /\ start' + count' = address
  BY <1>2 DEF PrintRun
<1>4. DumpTypeOK'
  <2>1. count' \in Word
    BY <1>2, <1>3, DumpConstants DEF Word
  <2> QED
    BY <1>3, <2>1 DEF DumpInv, DumpTypeOK, PrintRun
<1>5. DumpControl'
  BY <1>1 DEF DumpInv, DumpControl, PrintRun
<1>6. Frontier = start /\ Frontier' = start
  BY <1>2, <1>3 DEF Frontier, LineFront, PrintRun
<1>7. LinesInv'
  <2>1. \A a \in start' .. start' + count' - 1 : a \in DumpedBytes'
    <3>1. start' .. start' + count' - 1 = start .. address - 1
      BY <1>2, <1>3
    <3>2. \A a \in start .. address - 1 : a \in DumpedBytes
      <4>1. phase = "run"
        BY DEF PrintRun
      <4>2. \A a \in start .. address - 1 : a \in selected
        BY <4>1 DEF DumpInv, RunInv
      <4> QED
        BY <1>1, <4>2
    <3> QED
      BY <1>1, <3>1, <3>2
  <2>2. start' + count' <= MemSize
    BY <1>2, <1>3
  <2>3. request'.kind = "written" /\ address' = start' + count'
    BY <1>3 DEF PrintRun
  <2>4. address' \notin selected'
    <3>1. MemSize \notin selected
      BY <1>1, DumpConstants DEF Address
    <3>2. address \notin selected
      BY <3>1 DEF PrintRun, run_ended
    <3> QED
      BY <1>3, <3>2 DEF PrintRun
  <2> QED
    BY <2>1, <2>2, <2>3, <2>4 DEF LinesInv
<1>8. RangesInv'
  BY DEF DumpInv, DumpControl, RangesInv, RangesCanonical, PrintRun
<1> QED
  BY <1>1, <1>4, <1>5, <1>6, <1>7, <1>8
  DEF DumpInv, RunInv, OutputInv, PrintRun

\* A line outputs the bytes between the old frontier and the new one.
LEMMA LinePrinted ==
    ASSUME NEW S, S \subseteq Address,
           start \in Nat, count \in Nat, offset \in Nat, offset < count,
           \A a \in start .. start + count - 1 : a \in S,
           printed = Marked(Below(S, start + offset)),
           print_bytes(access_bytes(start + offset, bytes_this_line)),
           start' = start, count' = count, offset' = offset + kBytesPerLine
    PROVE  printed' = Marked(Below(S, LineFront'))
<1> DEFINE low  == start + offset
           high == LineFront'
           line == access_bytes(low, bytes_this_line)
<1>1. /\ low \in Nat /\ high \in Nat /\ low <= high
      /\ line = low .. high - 1
      /\ high <= start + count
  <2>1. CASE offset + kBytesPerLine < count
    <3>1. high = low + kBytesPerLine /\ bytes_this_line = kBytesPerLine
      BY <2>1, DumpConstants DEF LineFront, bytes_this_line
    <3> QED
      BY <2>1, <3>1, DumpConstants DEF access_bytes
  <2>2. CASE ~(offset + kBytesPerLine < count)
    <3>1. high = start + count
      BY <2>2 DEF LineFront
    <3>2. bytes_this_line = count - offset
      BY <2>2, DumpConstants DEF bytes_this_line
    <3>3. low + (count - offset) - 1 = high - 1
      BY <3>1
    <3> QED
      BY <3>1, <3>2, <3>3 DEF access_bytes
  <2> QED
    BY <2>1, <2>2
<1>2. start <= low
  OBVIOUS
<1>3. print_bytes(line)
  OBVIOUS
<1> HIDE DEF low, high, line
<1>4. \A a \in line : a \in S /\ a \in Int /\ low <= a /\ a < high
  BY <1>1, <1>2
<1>5. \A a \in Address : a \in line => a \notin Below(S, low)
  BY <1>1, <1>4 DEF Below
<1>6. printed' = Marked(Below(S, low) \cup line)
  BY <1>3, <1>5, MarkMore DEF low
<1>7. Below(S, low) \cup line = Below(S, high)
  <2>1. ASSUME NEW a \in S PROVE a < high <=> a < low \/ a \in line
    <3>1. a \in Int
      BY DEF Address
    <3> QED
      BY <1>1, <3>1
  <2> QED
    BY <1>4, <2>1 DEF Below
<1> QED
  BY <1>6, <1>7 DEF high

\* One line.
LEMMA PrintLineStep == ASSUME DumpInv, PrintLine PROVE DumpInv'
<1>1. /\ start \in Nat /\ count \in Nat /\ offset \in Nat /\ offset < count
      /\ start' = start /\ count' = count
      /\ phase = "lines" /\ phase' = "lines" /\ request' = request
      /\ print_bytes(access_bytes(start + offset, bytes_this_line))
  BY DumpConstants DEF DumpInv, DumpTypeOK, PrintLine, Word
<1>2. /\ DumpedBytes' = DumpedBytes /\ ranges_fit'
      /\ DumpedBytes \subseteq Address
  BY <1>1, SameRequest, BytesTyped
<1>3. /\ start + count <= MemSize
      /\ \A a \in start .. start + count - 1 : a \in DumpedBytes
      /\ request.kind = "written" =>
           address = start + count /\ address \notin selected
      /\ request.kind = "memory" =>
           /\ DumpedBytes = start .. start + count - 1
           /\ offset + kBytesPerLine <= WordSize
           /\ \E m \in Nat : offset = kBytesPerLine * m
  BY <1>1 DEF DumpInv, LinesInv
<1>4. /\ request.kind # "memory" => offset' = offset + kBytesPerLine
      /\ request.kind = "memory" => offset' = add32(offset, kBytesPerLine)
  BY DEF PrintLine
<1>5. add32(offset, kBytesPerLine) \in Nat
  BY <1>1, DumpConstants DEF add32
<1>6. DumpTypeOK'
  <2>1. printed' \in [Address -> 0 .. 2]
    BY <1>1, PrintedType DEF DumpInv, DumpTypeOK
  <2>2. offset' \in Nat
    BY <1>1, <1>4, <1>5, DumpConstants
  <2> QED
    BY <2>1, <2>2 DEF DumpInv, DumpTypeOK, PrintLine
<1>7. DumpControl'
  BY <1>2 DEF DumpInv, DumpControl, PrintLine
<1>8. request.kind = "memory" =>
        /\ offset' + kBytesPerLine <= WordSize
        /\ \E m \in Nat : offset' = kBytesPerLine * m
        /\ count + kBytesPerLine <= WordSize => offset' = offset + kBytesPerLine
  <2>1. SUFFICES ASSUME request.kind = "memory"
                 PROVE  /\ offset' + kBytesPerLine <= WordSize
                        /\ \E m \in Nat : offset' = kBytesPerLine * m
                        /\ count + kBytesPerLine <= WordSize =>
                             offset' = offset + kBytesPerLine
    OBVIOUS
  <2>2. PICK m \in Nat : offset = kBytesPerLine * m
    BY <1>3, <2>1
  <2>3. PICK n \in Nat : WordSize = kBytesPerLine * n
    BY DumpConstants
  <2>4. kBytesPerLine * (m + 1) = offset + kBytesPerLine
    BY <2>2, DumpConstants
  <2>5. offset + kBytesPerLine <= WordSize
    BY <1>3, <2>1
  <2>6. CASE offset + kBytesPerLine < WordSize
    <3>1. offset' = offset + kBytesPerLine
      BY <1>1, <1>4, <2>1, <2>6, DumpConstants DEF add32
    <3>2. kBytesPerLine * (m + 1) < kBytesPerLine * n
      BY <2>3, <2>4, <2>6
    <3>3. kBytesPerLine * (m + 1) + kBytesPerLine <= kBytesPerLine * n
      BY <3>2, NextMultiple, DumpConstants
    <3> QED
      BY <2>3, <2>4, <3>1, <3>3
  <2>7. CASE offset + kBytesPerLine = WordSize
    <3>1. offset' = 0
      BY <1>4, <2>1, <2>7, DumpConstants DEF add32
    <3>2. kBytesPerLine * 0 = 0
      BY DumpConstants
    <3>3. kBytesPerLine <= WordSize
      BY <1>1, <2>7, DumpConstants
    <3>4. ~(count + kBytesPerLine <= WordSize)
      BY <1>1, <2>7, DumpConstants
    <3> QED
      BY <3>1, <3>2, <3>3, <3>4, DumpConstants
  <2> QED
    BY <1>1, <2>5, <2>6, <2>7, DumpConstants
<1>9. LinesInv'
  <2>1. address' = address /\ selected' = selected
    BY DEF PrintLine
  <2> QED
    BY <1>1, <1>2, <1>3, <1>8, <2>1 DEF LinesInv
<1>10. RangesInv'
  BY DEF DumpInv, DumpControl, RangesInv, RangesCanonical, PrintLine
<1>11. ASSUME \/ request.kind = "written"
              \/ request.kind = "memory" /\ count + kBytesPerLine <= WordSize
       PROVE  printed' = Marked(Below(DumpedBytes', Frontier'))
  <2>1. Frontier = start + offset /\ Frontier' = LineFront'
    BY <1>1 DEF Frontier, LineFront
  <2>2. offset' = offset + kBytesPerLine
    BY <1>4, <1>8, <1>11
  <2>3. printed = Marked(Below(DumpedBytes, start + offset))
    BY <1>1, <1>11, <2>1 DEF DumpInv, OutputInv
  <2>4. printed' = Marked(Below(DumpedBytes, LineFront'))
    BY <1>1, <1>2, <1>3, <2>2, <2>3, LinePrinted
  <2> QED
    BY <1>2, <2>1, <2>4
<1> QED
  BY <1>1, <1>6, <1>7, <1>9, <1>10, <1>11
  DEF DumpInv, RunInv, OutputInv

\* After the last line: the range is printed, or the scan goes on.
LEMMA EndLinesStep == ASSUME DumpInv, EndLines PROVE DumpInv'
<1>1. /\ start \in Nat /\ count \in Nat /\ offset \in Nat /\ offset >= count
      /\ phase = "lines" /\ request' = request
  BY DumpConstants DEF DumpInv, DumpTypeOK, EndLines, Word
<1>2. /\ DumpedBytes' = DumpedBytes /\ ranges_fit'
      /\ DumpedBytes \subseteq Address
  BY <1>1, SameRequest, BytesTyped
<1>3. Frontier = start + count
  BY <1>1 DEF Frontier, LineFront
<1>4. DumpTypeOK'
  BY DEF DumpInv, DumpTypeOK, EndLines
<1>5. DumpControl'
  BY <1>2 DEF DumpInv, DumpControl, EndLines
<1>6. RangesInv'
  BY <1>1 DEF DumpInv, DumpControl, RangesInv, RangesCanonical, EndLines
<1>7. request.kind \in {"memory", "written"}
  BY <1>1, RequestTypes DEF DumpInv, DumpControl, DumpTypeOK
<1>8. OutputInv'
  <2>1. CASE request.kind = "memory"
    <3>1. phase' = "done" /\ printed' = printed
      BY <2>1 DEF EndLines
    <3>2. /\ DumpedBytes = start .. start + count - 1
          /\ offset + kBytesPerLine <= WordSize
      BY <1>1, <2>1 DEF DumpInv, LinesInv
    <3>3. count + kBytesPerLine <= WordSize
      BY <1>1, <3>2, DumpConstants
    <3>4. printed = Marked(Below(DumpedBytes, start + count))
      BY <1>1, <1>3, <2>1, <3>3 DEF DumpInv, OutputInv
    <3>5. Below(DumpedBytes, start + count) = DumpedBytes
      BY <1>1, <3>2 DEF Below
    <3> QED
      BY <1>2, <3>1, <3>4, <3>5 DEF OutputInv
  <2>2. CASE request.kind = "written"
    <3>1. phase' = "skip" /\ printed' = printed /\ Frontier' = address
      BY <2>2 DEF EndLines, Frontier
    <3>2. address = start + count
      BY <1>1, <2>2 DEF DumpInv, LinesInv
    <3>3. printed = Marked(Below(DumpedBytes, address))
      BY <1>1, <1>3, <2>2, <3>2 DEF DumpInv, OutputInv
    <3> QED
      BY <1>1, <1>2, <2>2, <3>1, <3>3 DEF OutputInv
  <2> QED
    BY <1>7, <2>1, <2>2
<1>9. phase' \in {"done", "skip"}
  BY DEF EndLines
<1> QED
  BY <1>4, <1>5, <1>6, <1>8, <1>9 DEF DumpInv, RunInv, LinesInv

\* At the end of RAM everything has been found, and is output once.
LEMMA EndScanStep == ASSUME DumpInv, EndScan PROVE DumpInv'
<1>1. /\ phase = "skip" /\ phase' = "done" /\ request' = request
      /\ address = MemSize /\ Frontier = MemSize
  BY DEF EndScan, Frontier
<1>2. /\ DumpedBytes' = DumpedBytes /\ ranges_fit'
      /\ DumpedBytes \subseteq Address
  BY <1>1, SameRequest, BytesTyped
<1>3. Below(DumpedBytes, MemSize) = DumpedBytes
  <2>1. \A a \in DumpedBytes : a < MemSize
    BY <1>2, DumpConstants DEF Address
  <2> QED
    BY <2>1 DEF Below
<1>4. request.kind \in {"state", "written"}
  BY <1>1, RequestTypes DEF DumpInv, DumpControl, DumpTypeOK
<1>5. printed' = Marked(DumpedBytes)
  <2>1. CASE request.kind = "state"
    <3>1. printed = Marked({}) /\ Covered = DumpedBytes
      BY <1>1, <1>3, <2>1 DEF DumpInv, OutputInv
    <3>2. print_bytes(Covered)
      BY <2>1 DEF EndScan, Covered
    <3>3. printed' = Marked({} \cup Covered)
      BY <3>1, <3>2, MarkMore
    <3> QED
      BY <3>1, <3>3
  <2>2. CASE request.kind = "written"
    <3>1. printed' = printed
      BY <2>2 DEF EndScan
    <3>2. printed = Marked(Below(DumpedBytes, MemSize))
      BY <1>1, <2>2 DEF DumpInv, OutputInv
    <3> QED
      BY <1>3, <3>1, <3>2
  <2> QED
    BY <1>4, <2>1, <2>2
<1>6. DumpTypeOK'
  <2>1. printed' \in [Address -> 0 .. 2]
    BY <1>5, MarkedType
  <2> QED
    BY <2>1 DEF DumpInv, DumpTypeOK, EndScan
<1>7. DumpControl'
  BY <1>1, <1>2 DEF DumpInv, DumpControl, EndScan
<1>8. RangesInv'
  BY <1>1 DEF DumpInv, RangesInv, RangesCanonical, range_end, EndScan
<1>9. OutputInv'
  BY <1>1, <1>2, <1>5 DEF OutputInv
<1> QED
  BY <1>1, <1>6, <1>7, <1>8, <1>9 DEF DumpInv, RunInv, LinesInv

\* The invariant of the dump is inductive.
LEMMA DumpStep == ASSUME DumpInv, DumpNext PROVE DumpInv'
BY ThrowStep, NoWritesStep, StartLinesStep, SelectStep, SkipStep, BeginRunStep,
   ExtendStep, PushRangeStep, PrintRunStep, PrintLineStep, EndLinesStep,
   EndScanStep
DEF DumpNext

\* It depends on the variables of the dump alone.
LEMMA DumpStutter == ASSUME DumpInv, UNCHANGED dumpVars PROVE DumpInv'
<1>1. DumpTypeOK'
  BY DEF DumpInv, DumpTypeOK, dumpVars
<1>2. /\ DumpedBytes' = DumpedBytes /\ (ranges_fit' <=> ranges_fit)
      /\ Frontier' = Frontier /\ Covered' = Covered
  BY SameRequest DEF dumpVars, Frontier, LineFront, Covered
<1>3. DumpControl'
  BY <1>2 DEF DumpInv, DumpControl, dumpVars
<1>4. RunInv'
  BY DEF DumpInv, RunInv, dumpVars
<1>5. LinesInv'
  BY <1>2 DEF DumpInv, LinesInv, dumpVars
<1>6. RangesInv'
  BY <1>2 DEF DumpInv, RangesInv, RangesCanonical, range_end, dumpVars
<1>7. OutputInv'
  BY <1>2 DEF DumpInv, OutputInv, dumpVars
<1> QED
  BY <1>1, <1>3, <1>4, <1>5, <1>6, <1>7 DEF DumpInv

-----------------------------------------------------------------------------
(* The state file *)

(***************************************************************************)
(* Until the stream fails, every piece printed is in its buffer or in the   *)
(* file; a call that returns has printed all of the state.                  *)
(***************************************************************************)
FileInv ==
    /\ pieces \in Nat /\ buffered \in Nat /\ on_disk \in Nat
    /\ file = "unopened" => phase = "check"
    /\ file \in {"unopened", "open"} /\ ~bad => on_disk + buffered = pieces
    /\ file = "closing" /\ outcome = "returned" =>
         phase = "done" /\ on_disk + buffered = 1 + Cardinality(DumpedBytes)

\* What a finished dump outputs are the bytes asked for.
LEMMA StateSize ==
    ASSUME DumpInv, phase = "done"
    PROVE  state_size = 1 + Cardinality(DumpedBytes)
<1>1. printed = Marked(DumpedBytes) /\ DumpedBytes \subseteq Address
  BY FittingBytes DEF DumpInv, OutputInv, DumpControl, DumpTypeOK
<1>2. {a \in Address : printed[a] > 0} = DumpedBytes
  BY <1>1 DEF Marked
<1> QED
  BY <1>2 DEF state_size

\* A file that cannot be opened ends the dump before it began.
LEMMA OpenFailsStep == ASSUME DumpInv, FileInv, OpenFails PROVE DumpInv'
<1>1. phase = "check" /\ phase' = "thrown"
  BY DEF FileInv, OpenFails
<1>2. DumpTypeOK'
  BY <1>1 DEF DumpInv, DumpTypeOK, OpenFails
<1>3. RangesInv'
  BY <1>1 DEF DumpInv, RangesInv, RangesCanonical, DumpControl, OpenFails
<1> QED
  BY <1>1, <1>2, <1>3
  DEF DumpInv, DumpControl, RunInv, LinesInv, OutputInv, OpenFails

\* One piece of text.
LEMMA PrintPieceStep ==
    ASSUME FileInv, PrintPiece
    PROVE  /\ pieces' \in Nat /\ buffered' \in Nat /\ on_disk' \in Nat
           /\ ~bad' => on_disk' + buffered' = pieces'
<1>1. /\ pieces \in Nat /\ buffered \in Nat /\ on_disk \in Nat
      /\ ~bad => on_disk + buffered = pieces
      /\ pieces' = pieces + 1
  BY DEF FileInv, PrintPiece
<1>2. CASE bad /\ UNCHANGED <<buffered, on_disk, bad>>
  BY <1>1, <1>2
<1>3. CASE ~bad /\ buffered' = buffered + 1 /\ on_disk' = on_disk
  BY <1>1, <1>3
<1>4. CASE ~bad /\ on_disk' = on_disk + buffered /\ buffered' = 1
  BY <1>1, <1>4
<1>5. CASE bad' = TRUE /\ UNCHANGED <<buffered, on_disk>>
  BY <1>1, <1>5
<1> QED
  BY <1>2, <1>3, <1>4, <1>5 DEF PrintPiece

\* The invariant is inductive.
LEMMA FileStep ==
    ASSUME DumpInv, FileInv, [FileNext]_fileVars
    PROVE  DumpInv' /\ FileInv'
<1>1. CASE Open
  <2>1. DumpInv'
    BY <1>1, DumpStutter DEF Open
  <2> QED
    BY <1>1, <2>1 DEF Open, FileInv, streamVars
<1>2. CASE OpenFails
  BY <1>2, OpenFailsStep DEF OpenFails, FileInv, streamVars
<1>3. CASE Dump
  <2>1. DumpInv'
    BY <1>3, DumpStep DEF Dump
  <2>2. file # "unopened" /\ file' \in {file, "closing"}
    BY <1>3 DEF Dump
  <2>3. file' = "closing" => outcome' # "returned"
    BY <1>3 DEF Dump
  <2> QED
    BY <1>3, <2>1, <2>2, <2>3 DEF Dump, FileInv, streamVars
<1>4. CASE PrintPiece
  <2>1. DumpInv'
    BY <1>4, DumpStutter DEF PrintPiece
  <2> QED
    BY <1>4, <2>1, PrintPieceStep DEF PrintPiece, FileInv
<1>5. CASE Check
  <2>1. DumpInv'
    BY <1>5, DumpStutter DEF Check
  <2>2. phase' = "done" /\ DumpedBytes' = DumpedBytes
    BY <1>5, SameRequest DEF Check, dumpVars
  <2>3. ~bad => on_disk' + buffered' = 1 + Cardinality(DumpedBytes)
    BY <1>5, StateSize DEF Check, FileInv, streamVars
  <2> QED
    BY <1>5, <2>1, <2>2, <2>3 DEF Check, FileInv, streamVars
<1>6. CASE Close
  <2>1. DumpInv'
    BY <1>6, DumpStutter DEF Close
  <2> QED
    BY <1>6, <2>1 DEF Close, FileInv
<1>7. CASE UNCHANGED fileVars
  <2>1. DumpInv'
    BY <1>7, DumpStutter DEF fileVars
  <2>2. DumpedBytes' = DumpedBytes
    BY <1>7, SameRequest DEF fileVars, dumpVars
  <2> QED
    BY <1>7, <2>1, <2>2 DEF fileVars, dumpVars, streamVars, FileInv
<1> QED
  BY <1>1, <1>2, <1>3, <1>4, <1>5, <1>6, <1>7 DEF FileNext

\* The two invariants hold in every state of writing the file.
LEMMA FileInvariant == FileSpec => [](DumpInv /\ FileInv)
<1>1. FileInit => DumpInv /\ FileInv
  BY DumpInvInit DEF FileInit, FileInv, DumpInit
<1>2. DumpInv /\ FileInv /\ [FileNext]_fileVars => (DumpInv /\ FileInv)'
  BY FileStep
<1> QED
  BY <1>1, <1>2, PTL DEF FileSpec

(***************************************************************************)
(* Every dump keeps its types, and its scan stays within RAM.               *)
(***************************************************************************)
THEOREM DumpTypeCorrect == FileSpec => []DumpTypeOK
<1>1. DumpInv => DumpTypeOK
  BY DEF DumpInv
<1> QED
  BY <1>1, FileInvariant, PTL

(***************************************************************************)
(* A dump that returns has output each byte it was asked for once and no    *)
(* other, whatever the ranges and the write log; one that throws, none.     *)
(***************************************************************************)
THEOREM DumpCorrect == FileSpec => []EachByteOnce
<1>1. DumpInv => EachByteOnce
  BY DEF DumpInv, OutputInv, EachByteOnce, Marked
<1> QED
  BY <1>1, FileInvariant, PTL

(***************************************************************************)
(* normalize_memory_ranges yields ascending, non-empty ranges with a gap    *)
(* between any two.                                                         *)
(***************************************************************************)
THEOREM NormalizedCorrect == FileSpec => []RangesCanonical
<1>1. DumpInv => RangesCanonical
  BY DEF DumpInv, RangesInv
<1> QED
  BY <1>1, FileInvariant, PTL

(***************************************************************************)
(* write_architectural_state notices every write that fails while it        *)
(* prints, for every capacity of the stream's buffer.                       *)
(***************************************************************************)
THEOREM PrintingCorrect == FileSpec => []NothingLostWhilePrinting
<1>1. DumpInv /\ FileInv => NothingLostWhilePrinting
  BY DEF DumpInv, DumpControl, FileInv, NothingLostWhilePrinting
<1> QED
  BY <1>1, FileInvariant, PTL

-----------------------------------------------------------------------------
(* The dump comes to an end *)

\* Where the loops lead from one position of the scan.
LEMMA Places ==
    /\ phase = "skip" => place = IF address \in selected THEN 0 ELSE 3
    /\ phase = "run" => place = 1
    /\ phase = "lines" => place = 2
BY DEF place

\* The steps within the loops.
LEMMA LoopProgress ==
    ASSUME DumpInv, line_counter_fits, scanning, scanning',
           Skip \/ BeginRun \/ Extend \/ PushRange \/ PrintRun \/ PrintLine
             \/ EndLines
    PROVE  \/ address < address'
           \/ address' = address /\ place < place'
           \/ /\ UNCHANGED <<phase, address, count>>
              /\ offset < count /\ offset < offset'
<1>1. /\ address \in Nat /\ selected \subseteq Address
      /\ count \in Nat /\ offset \in Nat
  BY DumpConstants DEF DumpInv, DumpTypeOK, Word
<1>2. /\ phase' = "skip" => place' = IF address' \in selected' THEN 0 ELSE 3
      /\ phase' = "run" => place' = 1
      /\ phase' = "lines" => place' = 2
  BY DEF place
<1>3. CASE Skip \/ Extend
  BY <1>1, <1>3 DEF Skip, Extend
<1>4. CASE BeginRun
  <2>1. place = 0 /\ place' = 1 /\ address' = address
    BY <1>2, <1>4, Places DEF BeginRun
  <2> QED
    BY <2>1
<1>5. CASE PushRange
  <2>1. MemSize \notin selected
    BY <1>1, DumpConstants DEF Address
  <2>2. address \notin selected
    BY <1>5, <2>1 DEF PushRange, run_ended
  <2>3. place = 1 /\ place' = 3 /\ address' = address
    BY <1>2, <1>5, <2>2, Places DEF PushRange
  <2> QED
    BY <2>3
<1>6. CASE PrintRun
  <2>1. place = 1 /\ place' = 2 /\ address' = address
    BY <1>2, <1>6, Places DEF PrintRun
  <2> QED
    BY <2>1
<1>7. CASE PrintLine
  <2>1. /\ phase = "lines" /\ offset < count
        /\ UNCHANGED <<phase, address, count>>
        /\ offset' = IF request.kind = "memory"
                     THEN add32(offset, kBytesPerLine)
                     ELSE offset + kBytesPerLine
    BY <1>7 DEF PrintLine
  <2>2. request.kind = "memory" =>
          add32(offset, kBytesPerLine) = offset + kBytesPerLine
    <3>1. ASSUME request.kind = "memory"
          PROVE  offset + kBytesPerLine < WordSize
      BY <1>1, <2>1, <3>1, DumpConstants DEF line_counter_fits
    <3> QED
      BY <1>1, <3>1, DumpConstants DEF add32
  <2> QED
    BY <1>1, <2>1, <2>2, DumpConstants
<1>8. CASE EndLines
  <2>1. /\ phase = "lines" /\ request.kind # "memory" /\ phase' = "skip"
        /\ address' = address /\ selected' = selected
    BY <1>8 DEF EndLines, scanning
  <2>2. request.kind = "written"
    BY <2>1, RequestTypes DEF DumpInv, DumpTypeOK, DumpControl
  <2>3. address \notin selected
    BY <2>1, <2>2 DEF DumpInv, LinesInv
  <2>4. place = 2 /\ place' = 3
    BY <1>2, <2>1, <2>3, Places
  <2> QED
    BY <2>1, <2>4
<1> QED
  BY <1>3, <1>4, <1>5, <1>6, <1>7, <1>8

(***************************************************************************)
(* No dump can go round its loops for ever: each step brings it nearer to   *)
(* its end, for every RAM, every selection and every write log, and for     *)
(* every single range that leaves its uint32_t line counter room for one    *)
(* line more.                                                               *)
(***************************************************************************)
THEOREM DumpProgressCorrect == FileSpec => DumpProgresses
<1> DEFINE Nearer ==
      \/ phase = "check" /\ phase' # "check"
      \/ scanning /\ phase' \in {"done", "thrown"}
      \/ /\ scanning /\ scanning'
         /\ \/ address < address'
            \/ address' = address /\ place < place'
            \/ /\ UNCHANGED <<phase, address, count>>
               /\ offset < count /\ offset < offset'
<1>1. ASSUME DumpInv, FileInv, [FileNext]_fileVars
      PROVE  [line_counter_fits => Nearer]_dumpVars
  <2>1. SUFFICES ASSUME line_counter_fits, DumpNext \/ OpenFails
                 PROVE  Nearer
    BY <1>1 DEF FileNext, fileVars, Open, Dump, PrintPiece, Check, Close
  <2>2. CASE Throw \/ NoWrites \/ StartLines \/ Select
    BY <2>2 DEF Throw, NoWrites, StartLines, Select
  <2>3. CASE OpenFails
    BY <1>1, <2>3 DEF OpenFails, FileInv
  <2>4. CASE EndScan
    BY <2>4 DEF EndScan, scanning
  <2>5. CASE \/ Skip \/ BeginRun \/ Extend \/ PushRange \/ PrintRun
             \/ PrintLine \/ EndLines
    <3>1. scanning
      BY <2>5 DEF Skip, BeginRun, Extend, PushRange, PrintRun, PrintLine,
         EndLines, scanning
    <3>2. scanning' \/ phase' \in {"done", "thrown"}
      BY <2>5 DEF Skip, BeginRun, Extend, PushRange, PrintRun, PrintLine,
         EndLines, scanning
    <3> QED
      BY <1>1, <2>1, <2>5, <3>1, <3>2, LoopProgress
  <2> QED
    BY <2>1, <2>2, <2>3, <2>4, <2>5 DEF DumpNext
<1> QED
  BY <1>1, FileInvariant, PTL DEF DumpProgresses, FileSpec

=============================================================================
