-------------------------- MODULE BranchPredictor --------------------------
(***************************************************************************)
(* Class BranchPredictor: the two static policies and the table of two-bit  *)
(* saturating counters.  The table is shared by every branch whose pc maps  *)
(* to the same entry; the code has kEntryCount = 64.                        *)
(***************************************************************************)
EXTENDS Integers

CONSTANT kEntryCount

ASSUME PredictorAssumption == kEntryCount \in Nat /\ kEntryCount >= 1

BranchPredictorType == {"AlwaysNotTaken", "AlwaysTaken", "TwoBitSaturating"}

\* SaturatingCounterState
StronglyNotTaken == 0
WeaklyNotTaken   == 1
WeaklyTaken      == 2
StronglyTaken    == 3

CounterState == StronglyNotTaken .. StronglyTaken
Counters     == [0 .. kEntryCount - 1 -> CounterState]

\* BranchPredictor::reset, called by the constructor.
reset_counters == [i \in 0 .. kEntryCount - 1 |-> WeaklyNotTaken]

index_for(branch_pc) == (branch_pc \div 4) % kEntryCount

predict(counters, branch_pc, type) ==
    CASE type = "AlwaysNotTaken"   -> FALSE
      [] type = "AlwaysTaken"      -> TRUE
      [] type = "TwoBitSaturating" ->
            counters[index_for(branch_pc)] >= WeaklyTaken

\* Mutant of update: the counter wraps instead of saturating.
update_wraps(counters, branch_pc, actual_taken, type) ==
    IF type # "TwoBitSaturating" THEN counters
    ELSE [counters EXCEPT ![index_for(branch_pc)] =
             IF actual_taken THEN (@ + 1) % 5 ELSE (@ + 3) % 4]

update(counters, branch_pc, actual_taken, type) ==
    IF type # "TwoBitSaturating" THEN counters
    ELSE [counters EXCEPT ![index_for(branch_pc)] =
             IF actual_taken THEN IF @ < StronglyTaken THEN @ + 1 ELSE @
             ELSE IF @ > StronglyNotTaken THEN @ - 1 ELSE @]

=============================================================================
