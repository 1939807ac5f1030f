----------------------------- MODULE StateFile -----------------------------
(***************************************************************************)
(* write_architectural_state(): how --dump-state gets the state into a      *)
(* file, and which failures of the disk it notices.  The file is opened,    *)
(* print_architectural_state_json() of StateDump selects the bytes, the     *)
(* text goes to the stream, and the stream is tested.  The other dumps go   *)
(* to the standard output.                                                  *)
(*                                                                          *)
(* The file stream is external: it collects what is printed in a buffer of  *)
(* BufferSize pieces, writes the buffer out when it is full and when the    *)
(* stream is closed, and either write may fail.  A failure while printing   *)
(* sets the stream's bad bit, after which printing does nothing; one in the *)
(* destructor, which cannot throw, goes nowhere.                            *)
(***************************************************************************)
EXTENDS StateDump, FiniteSets

CONSTANT BufferSize   \* capacity of the stream's buffer, in pieces of text

ASSUME StateFileAssumption == BufferSize \in Nat \ {0}

VARIABLES
    file,       \* "none", or "unopened", "open", "closing" and "closed"
    pieces,     \* pieces of text handed to the stream
    buffered,   \* pieces in the stream's buffer
    on_disk,    \* pieces in the file
    bad,        \* the stream's bad bit
    outcome     \* "none", then "returned" or "thrown"

streamVars == <<pieces, buffered, on_disk, bad>>

fileVars == <<dumpVars, file, streamVars, outcome>>

\* pc, halted and the registers are one piece of text, each byte another.
state_size == 1 + Cardinality({a \in Address : printed[a] > 0})

FileInit ==
    /\ DumpInit
    /\ file = IF request.kind = "state" THEN "unopened" ELSE "none"
    /\ pieces = 0 /\ buffered = 0 /\ on_disk = 0
    /\ bad = FALSE
    /\ outcome = "none"

-----------------------------------------------------------------------------
Open ==
    /\ file = "unopened"
    /\ file' = "open"
    /\ UNCHANGED <<dumpVars, streamVars, outcome>>

\* Nothing is dumped.
OpenFails ==
    /\ file = "unopened"
    /\ file' = "closed"
    /\ phase' = "thrown"
    /\ outcome' = "thrown"
    /\ UNCHANGED <<request, selected, address, start, count, offset,
                   normalized, printed, streamVars>>

(***************************************************************************)
(* A step of the dump.  The ranges are checked when the file has been       *)
(* opened, and truncated, already; the exception closes it.                 *)
(***************************************************************************)
Dump ==
    /\ file \in {"none", "open"}
    /\ DumpNext
    /\ IF file = "open" /\ phase' = "thrown"
       THEN file' = "closing" /\ outcome' = "thrown"
       ELSE UNCHANGED <<file, outcome>>
    /\ UNCHANGED streamVars

\* The stream takes a piece, writes its full buffer first, or fails to.
PrintPiece ==
    /\ file = "open" /\ phase = "done"
    /\ pieces < state_size
    /\ pieces' = pieces + 1
    /\ \/ bad /\ UNCHANGED <<buffered, on_disk, bad>>
       \/ /\ ~bad /\ buffered < BufferSize
          /\ buffered' = buffered + 1
          /\ UNCHANGED <<on_disk, bad>>
       \/ /\ ~bad /\ buffered = BufferSize
          /\ on_disk' = on_disk + buffered
          /\ buffered' = 1
          /\ UNCHANGED bad
       \/ /\ ~bad /\ buffered = BufferSize
          /\ bad' = TRUE
          /\ UNCHANGED <<buffered, on_disk>>
    /\ UNCHANGED <<dumpVars, file, outcome>>

\* Mutant of Check: the stream is not looked at.
CheckNothing ==
    /\ file = "open" /\ phase = "done"
    /\ pieces = state_size
    /\ file' = "closing"
    /\ outcome' = "returned"
    /\ UNCHANGED <<dumpVars, streamVars>>

\* if (!output) after printing.
Check ==
    /\ file = "open" /\ phase = "done"
    /\ pieces = state_size
    /\ file' = "closing"
    /\ outcome' = IF bad THEN "thrown" ELSE "returned"
    /\ UNCHANGED <<dumpVars, streamVars>>

\* The destructor of the stream: its buffer gets a last chance.
Close ==
    /\ file = "closing"
    /\ file' = "closed"
    /\ \/ on_disk' = on_disk + buffered
       \/ buffered > 0 /\ UNCHANGED on_disk
    /\ buffered' = 0
    /\ UNCHANGED <<dumpVars, pieces, bad, outcome>>

FileNext == Open \/ OpenFails \/ Dump \/ PrintPiece \/ Check \/ Close

\* One thread prints and returns; no call waits.
FileSpec == FileInit /\ [][FileNext]_fileVars /\ WF_fileVars(FileNext)

-----------------------------------------------------------------------------
(* Properties *)

(***************************************************************************)
(* A write that failed while printing, at whichever piece, is noticed: when *)
(* the function goes on to return, the file and the buffer together hold    *)
(* the whole state.  A state whose ranges do not fit is never returned.     *)
(***************************************************************************)
NothingLostWhilePrinting ==
    file = "closing" /\ outcome = "returned" =>
        ranges_fit /\ on_disk + buffered = 1 + Cardinality(DumpedBytes)

-----------------------------------------------------------------------------
(* What the program says and does not do *)

(***************************************************************************)
(* The function fails with "failed to write architectural-state file" and   *)
(* otherwise reports the file: when it has returned, the state is written.  *)
(***************************************************************************)
ReportedMeansWritten ==
    file = "closed" /\ outcome = "returned" => on_disk = state_size

=============================================================================
