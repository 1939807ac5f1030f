---------------------------- MODULE CommandLine ----------------------------
(***************************************************************************)
(* parse_cli(): the arguments are taken one by one from the left, each      *)
(* changes the options or is rejected with an exception, and one condition  *)
(* between options is checked at the end.                                   *)
(*                                                                          *)
(* An argument is its name, its number texts (one, or two when a colon      *)
(* separates them) and its other text.  A number text is a sign, a          *)
(* magnitude and whether std::stoull reads it to its end; what stoull makes *)
(* of the sign is part of the model.                                        *)
(***************************************************************************)
EXTENDS Integers, Sequences, FiniteSetsExt

CONSTANTS
    U32, U64,            \* 2^32 and 2^64
    DefaultMemorySize,   \* 64 * 1024
    DefaultMaxCycles,    \* 100
    Arguments,           \* the arguments a command line may hold
    MaxArguments         \* bound on their number

NumberText == [negative : BOOLEAN, magnitude : Nat, complete : BOOLEAN]

U64Names == {"trace-start", "trace-limit", "max-cycles", "retire-count"}
U32Names == {"load-address", "memory-size"}
ValueNames == U64Names \cup U32Names
PairNames == {"dump-memory", "state-memory", "expect-memory"}
TextNames == {"dump-state", "branch-predictor", "program", "unknown"}
FlagNames == {"help", "trace", "dump-regs", "dump-written-memory"}

Argument == [name : ValueNames \cup PairNames \cup TextNames \cup FlagNames,
             numbers : Seq(NumberText), text : STRING]

ASSUME CommandLineAssumption ==
    /\ U32 \in Nat /\ U32 > 4 /\ U64 \in Nat /\ U64 >= U32
    /\ DefaultMemorySize \in 1 .. U32 - 1
    /\ DefaultMaxCycles \in 0 .. U64 - 1
    /\ \A argument \in Arguments :
         /\ argument \in Argument
         /\ argument.name \in ValueNames => Len(argument.numbers) = 1
    /\ MaxArguments \in Nat

VARIABLES
    args,      \* argv
    index,     \* the argument parse_cli looks at next
    options,   \* the CliOptions under construction
    outcome    \* "parsing", "accepted", or "rejected" by an exception

cliVars == <<args, index, options, outcome>>

default_options ==
    [program_path |-> "", load_address |-> 0, memory_size |-> DefaultMemorySize,
     branch_predictor_type |-> "two-bit", max_cycles |-> DefaultMaxCycles,
     retire_count |-> 0, has_retire_count |-> FALSE, dump_regs |-> FALSE,
     dump_written_memory |-> FALSE, dump_state_path |-> "",
     state_memory_ranges |-> <<>>, dump_memory |-> FALSE,
     dump_memory_range |-> <<0, 0>>, memory_expectations |-> <<>>,
     trace |-> FALSE, trace_start |-> 0, trace_limit |-> 0,
     has_trace_limit |-> FALSE, show_help |-> FALSE]

-----------------------------------------------------------------------------
(* Numbers *)

\* std::stoull and the check for trailing characters, when neither throws.
parses_u64(t) == t.complete /\ t.magnitude < U64

\* A minus sign negates within 64 bits: "-1" is U64 - 1.
parse_u64(t) == IF t.negative THEN (U64 - t.magnitude) % U64 ELSE t.magnitude

parses_u32(t) == parses_u64(t) /\ parse_u64(t) < U32

\* Mutant of parses_pair: the word at ADDRESS may reach beyond 32 bits.
parses_pair_to_the_end(argument) ==
    /\ Len(argument.numbers) = 2
    /\ \A i \in 1 .. 2 : parses_u32(argument.numbers[i])

\* START:LENGTH and ADDRESS:VALUE; the word at ADDRESS must not wrap.
parses_pair(argument) ==
    /\ Len(argument.numbers) = 2
    /\ \A i \in 1 .. 2 : parses_u32(argument.numbers[i])
    /\ argument.name = "expect-memory" =>
         parse_u64(argument.numbers[1]) <= (U32 - 1) - 3

value_of(argument) == parse_u64(argument.numbers[1])

pair_of(argument) == <<value_of(argument), parse_u64(argument.numbers[2])>>

-----------------------------------------------------------------------------
(* The arguments *)

current == args[index]

\* Does the branch of the if chain for this argument not throw?
accepts(argument) ==
    CASE argument.name \in U32Names ->
            /\ parses_u32(argument.numbers[1])
            /\ argument.name = "memory-size" => value_of(argument) # 0
      [] argument.name \in U64Names -> parses_u64(argument.numbers[1])
      [] argument.name \in PairNames -> parses_pair(argument)
      [] argument.name = "dump-state" -> argument.text # ""
      [] argument.name = "branch-predictor" ->
            argument.text \in {"not-taken", "taken", "two-bit"}
      [] argument.name = "program" -> options.program_path = ""
      [] OTHER -> argument.name \in FlagNames

LooksAt(names) ==
    /\ outcome = "parsing"
    /\ index <= Len(args)
    /\ current.name \in names

Accept(new_options) ==
    /\ accepts(current)
    /\ options' = new_options
    /\ index' = index + 1
    /\ UNCHANGED <<args, outcome>>

Flag ==
    /\ LooksAt(FlagNames)
    /\ Accept(CASE current.name = "help" ->
                     [options EXCEPT !.show_help = TRUE]
                [] current.name = "trace" -> [options EXCEPT !.trace = TRUE]
                [] current.name = "dump-regs" ->
                     [options EXCEPT !.dump_regs = TRUE]
                [] OTHER -> [options EXCEPT !.dump_written_memory = TRUE])

\* Mutant of TraceLimit: a limit alone does not switch the trace on.
TraceLimitOnly ==
    /\ LooksAt({"trace-limit"})
    /\ Accept([options EXCEPT !.trace_limit = value_of(current),
                              !.has_trace_limit = TRUE])

TraceStart ==
    /\ LooksAt({"trace-start"})
    /\ Accept([options EXCEPT !.trace = TRUE,
                              !.trace_start = value_of(current)])

TraceLimit ==
    /\ LooksAt({"trace-limit"})
    /\ Accept([options EXCEPT !.trace = TRUE,
                              !.trace_limit = value_of(current),
                              !.has_trace_limit = TRUE])

MaxCycles ==
    /\ LooksAt({"max-cycles"})
    /\ Accept([options EXCEPT !.max_cycles = value_of(current)])

RetireCount ==
    /\ LooksAt({"retire-count"})
    /\ Accept([options EXCEPT !.retire_count = value_of(current),
                              !.has_retire_count = TRUE])

LoadAddress ==
    /\ LooksAt({"load-address"})
    /\ Accept([options EXCEPT !.load_address = value_of(current)])

MemorySize ==
    /\ LooksAt({"memory-size"})
    /\ Accept([options EXCEPT !.memory_size = value_of(current)])

\* Given twice, the second range replaces the first.
DumpMemory ==
    /\ LooksAt({"dump-memory"})
    /\ Accept([options EXCEPT !.dump_memory = TRUE,
                              !.dump_memory_range = pair_of(current)])

StateMemory ==
    /\ LooksAt({"state-memory"})
    /\ Accept([options EXCEPT !.state_memory_ranges =
                                 Append(@, pair_of(current))])

ExpectMemory ==
    /\ LooksAt({"expect-memory"})
    /\ Accept([options EXCEPT !.memory_expectations =
                                 Append(@, pair_of(current))])

DumpState ==
    /\ LooksAt({"dump-state"})
    /\ Accept([options EXCEPT !.dump_state_path = current.text])

BranchPredictor ==
    /\ LooksAt({"branch-predictor"})
    /\ Accept([options EXCEPT !.branch_predictor_type = current.text])

\* An argument that does not begin with '-'; an empty one sets nothing.
ProgramPath ==
    /\ LooksAt({"program"})
    /\ Accept([options EXCEPT !.program_path = current.text])

\* The exception leaves parse_cli(), and main() fails.
RejectArgument ==
    /\ outcome = "parsing"
    /\ index <= Len(args)
    /\ ~accepts(current)
    /\ outcome' = "rejected"
    /\ UNCHANGED <<args, index, options>>

\* After the loop: state ranges need a state file.
EndOfArguments ==
    /\ outcome = "parsing"
    /\ index > Len(args)
    /\ outcome' = IF /\ options.state_memory_ranges # <<>>
                     /\ options.dump_state_path = ""
                  THEN "rejected" ELSE "accepted"
    /\ UNCHANGED <<args, index, options>>

CliInit ==
    /\ args \in UNION {[1 .. n -> Arguments] : n \in 0 .. MaxArguments}
    /\ index = 1
    /\ options = default_options
    /\ outcome = "parsing"

CliNext ==
    \/ Flag \/ TraceStart \/ TraceLimit \/ MaxCycles \/ RetireCount
    \/ LoadAddress \/ MemorySize \/ BranchPredictor \/ ProgramPath
    \/ DumpMemory \/ DumpState \/ StateMemory \/ ExpectMemory
    \/ RejectArgument \/ EndOfArguments

CliSpec == CliInit /\ [][CliNext]_cliVars

-----------------------------------------------------------------------------
(* Properties *)

\* Where the options of these names stand among the first n arguments.
GivenUpTo(names, n) == {i \in 1 .. n : args[i].name \in names}

Given(names) == GivenUpTo(names, Len(args))

\* The last argument of this name among the first n, if there is one.
LastValue(name, n, default) ==
    IF GivenUpTo({name}, n) = {} THEN default
    ELSE value_of(args[Max(GivenUpTo({name}, n))])

LastPair(name, n, default) ==
    IF GivenUpTo({name}, n) = {} THEN default
    ELSE pair_of(args[Max(GivenUpTo({name}, n))])

LastText(name, n, default) ==
    IF GivenUpTo({name}, n) = {} THEN default
    ELSE args[Max(GivenUpTo({name}, n))].text

\* The pairs of a repeatable option, all of them and in the order given: each
\* stands where the count of that option has come to.
ListsPairs(pairs, name, n) ==
    /\ Len(pairs) = Cardinality(GivenUpTo({name}, n))
    /\ \A i \in GivenUpTo({name}, n) :
         pairs[Cardinality(GivenUpTo({name}, i))] = pair_of(args[i])

\* The options o say what the first n arguments say.
OptionsMean(o, n) ==
    /\ o.program_path = LastText("program", n, "")
    /\ o.load_address = LastValue("load-address", n, 0)
    /\ o.memory_size = LastValue("memory-size", n, DefaultMemorySize)
    /\ o.branch_predictor_type =
         LastText("branch-predictor", n, "two-bit")
    /\ o.max_cycles = LastValue("max-cycles", n, DefaultMaxCycles)
    /\ o.retire_count = LastValue("retire-count", n, 0)
    /\ o.has_retire_count = (GivenUpTo({"retire-count"}, n) # {})
    /\ o.dump_regs = (GivenUpTo({"dump-regs"}, n) # {})
    /\ o.dump_written_memory =
         (GivenUpTo({"dump-written-memory"}, n) # {})
    /\ o.dump_state_path = LastText("dump-state", n, "")
    /\ ListsPairs(o.state_memory_ranges, "state-memory", n)
    /\ o.dump_memory = (GivenUpTo({"dump-memory"}, n) # {})
    /\ o.dump_memory_range = LastPair("dump-memory", n, <<0, 0>>)
    /\ ListsPairs(o.memory_expectations, "expect-memory", n)
    /\ o.trace =
         (GivenUpTo({"trace", "trace-start", "trace-limit"}, n) # {})
    /\ o.trace_start = LastValue("trace-start", n, 0)
    /\ o.trace_limit = LastValue("trace-limit", n, 0)
    /\ o.has_trace_limit = (GivenUpTo({"trace-limit"}, n) # {})
    /\ o.show_help = (GivenUpTo({"help"}, n) # {})

(***************************************************************************)
(* What an accepted command line means does not depend on how its options   *)
(* are interleaved: each option has the value of its last occurrence, the   *)
(* repeatable ones all of theirs, and the flags that go with a value (has_  *)
(* and trace) are set exactly when it is given.                             *)
(***************************************************************************)
OptionsFromArguments == outcome = "accepted" => OptionsMean(options, Len(args))

(***************************************************************************)
(* What the rest of the program takes for granted of accepted options,      *)
(* whatever signs and sizes the numbers were written with: a RAM smaller    *)
(* than the address space and not empty, 32-bit addresses and lengths,      *)
(* expected words that do not wrap, and a state file for the state ranges.  *)
(***************************************************************************)
OptionsAreSafe ==
    outcome = "accepted" =>
      /\ options.memory_size \in 1 .. U32 - 1
      /\ options.load_address \in 0 .. U32 - 1
      /\ options.max_cycles \in 0 .. U64 - 1
      /\ \A i \in DOMAIN options.memory_expectations :
           options.memory_expectations[i][1] + 4 <= U32
      /\ \A i \in DOMAIN options.state_memory_ranges, j \in 1 .. 2 :
           options.state_memory_ranges[i][j] \in 0 .. U32 - 1
      /\ Given({"state-memory"}) # {} => options.dump_state_path # ""

=============================================================================
