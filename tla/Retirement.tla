----------------------------- MODULE Retirement -----------------------------
(***************************************************************************)
(* Complete runs of main(), trace included, with their retired              *)
(* instructions: where a run stopped by --retire-count or --max-cycles      *)
(* leaves the machine, and what its cycles were spent on.                   *)
(*                                                                          *)
(* The history variable `retired` is the sequential machine advanced by     *)
(* each instruction stage_WB retires, and by nothing else.  main() can stop *)
(* at the end of any cycle, with up to four younger instructions in the     *)
(* latches; the properties say what of theirs is visible in the dumps.      *)
(***************************************************************************)
EXTENDS Trace, IsaSemantics

VARIABLES
    retired,   \* the state after the retired instructions, in order
    dropped,   \* how many unknown instructions decode has dropped
    skipped    \* how many of them stood right before each latch's instruction

historyVars == <<retired, dropped, skipped>>

retireVars == <<traceVars, historyVars>>

\* The instruction in MEM/WB, executed from where the retired ones left off.
RetiredNow ==
    ExecWord([retired EXCEPT !.pc = mem_wb.pc], mem_wb.instruction)

\* stage_ID meets an unknown word that no flush removes.
drops_unknown ==
    if_id.valid /\ ~is_valid_instruction(decoded) /\ ~flush_id_ex

\* The counts move with the instructions; if_id's waits for the next to issue.
skipped_after_cycle ==
    [if_id |-> IF id_issues THEN 0 ELSE skipped.if_id + OneIf(drops_unknown),
     id_ex |-> IF id_issues THEN skipped.if_id ELSE 0,
     ex_mem |-> skipped.id_ex,
     mem_wb |-> skipped.ex_mem]

\* An iteration of main()'s loop: stage_WB always runs, stage_ID unless one threw.
RetireCycle ==
    /\ TracedCycle
    /\ retired' = IF mem_wb.valid THEN RetiredNow ELSE retired
    /\ dropped' = IF error' THEN dropped ELSE dropped + OneIf(drops_unknown)
    /\ skipped' = IF error' THEN skipped ELSE skipped_after_cycle

RetireFinish == TraceFinish /\ UNCHANGED historyVars

RetireInit ==
    /\ TraceInit
    /\ retired = [regs |-> regs, mem |-> memory, pc |-> pc, halted |-> FALSE,
                  error |-> FALSE, writes |-> {}, recent |-> {}, older |-> {}]
    /\ dropped = 0
    /\ skipped = [if_id |-> 0, id_ex |-> 0, ex_mem |-> 0, mem_wb |-> 0]

RetireNext == RetireCycle \/ RetireFinish

\* main() is one thread; no call waits.
RetireSpec ==
    RetireInit /\ [][RetireNext]_retireVars /\ WF_retireVars(RetireNext)

-----------------------------------------------------------------------------
(* Properties *)

(***************************************************************************)
(* The instruction in MEM/WB has accessed memory and has not retired.  When *)
(* the cycle after threw, it has.                                           *)
(***************************************************************************)
Unretired == mem_wb.valid /\ ~error

(***************************************************************************)
(* At the end of every cycle the registers are exactly those after the      *)
(* retired instructions, although four younger ones are under way, some on  *)
(* a wrong path; RAM and the write log are at most one store ahead of them: *)
(* stage_MEM of the next instruction to retire.  So a run that              *)
(* --retire-count stops dumps the registers of that instruction boundary,   *)
(* and a RAM that may hold the next instruction's store.                    *)
(***************************************************************************)
DumpedAtBoundary ==
    LET visible == IF Unretired THEN RetiredNow ELSE retired
    IN  /\ regs = retired.regs
        /\ memory = visible.mem
        /\ memory_writes = visible.writes
        /\ halted = retired.halted

(***************************************************************************)
(* Instructions retire in program order: the next to retire is where the    *)
(* retired ones left off, but for the unknown instructions decode dropped   *)
(* between them.  No flush, stall or misprediction makes the machine skip   *)
(* or repeat one.                                                           *)
(***************************************************************************)
RetiresInOrder ==
    Unretired => mem_wb.pc = add32(retired.pc, 4 * skipped.mem_wb)

(***************************************************************************)
(* Every cycle of a completed run is accounted for: the four cycles that    *)
(* fill the pipeline, one per instruction, and one per stall and redirect.  *)
(* An instruction causes at most one bubble, so a run of n instructions     *)
(* takes at most 2n + 3 cycles, and one more for each unknown instruction,  *)
(* which stage_ID drops without counting it.                                *)
(***************************************************************************)
CycleBudget ==
    halted =>
      /\ 4 + stats.instruction_count + dropped + stats.stall_cycles
           + stats.branch_mispredictions <= stats.clock_cycles
      /\ stats.clock_cycles <= 2 * stats.instruction_count + dropped + 3

(***************************************************************************)
(* --retire-count=N stops after exactly N instructions: a cycle retires at  *)
(* most one, and the loop looks at the count before every cycle, also when  *)
(* the last of them halts or the next one faults.                           *)
(***************************************************************************)
RetireCountExact ==
    options.has_retire_count =>
      /\ stats.instruction_count <= options.retire_count
      /\ status = "success" /\ ~halted =>
           stats.instruction_count = options.retire_count

=============================================================================
