------------------------- MODULE CommandLineProofs -------------------------
(***************************************************************************)
(* parse_cli() for every command line: what the options mean is what the    *)
(* arguments looked at so far say, and the numbers among them have been     *)
(* checked.                                                                 *)
(***************************************************************************)
EXTENDS CommandLine, FiniteSetTheorems, TLAPS

U32Values == 0 .. U32 - 1
U64Values == 0 .. U64 - 1

\* Addresses of words that end within 32 bits.
WordAddresses == {a \in U32Values : a + 4 <= U32}

\* The texts an option may have.
Texts == {argument.text : argument \in Arguments} \cup {"", "two-bit"}

\* The CliOptions that parse_cli() can build.
CliOptions ==
    [program_path : Texts, load_address : U32Values,
     memory_size : 1 .. U32 - 1, branch_predictor_type : Texts,
     max_cycles : U64Values, retire_count : U64Values,
     has_retire_count : BOOLEAN, dump_regs : BOOLEAN,
     dump_written_memory : BOOLEAN, dump_state_path : Texts,
     state_memory_ranges : Seq(U32Values \X U32Values),
     dump_memory : BOOLEAN, dump_memory_range : U32Values \X U32Values,
     memory_expectations : Seq(WordAddresses \X U32Values),
     trace : BOOLEAN, trace_start : U64Values, trace_limit : U64Values,
     has_trace_limit : BOOLEAN, show_help : BOOLEAN]

CliTypeOK ==
    /\ args \in Seq(Arguments)
    /\ index \in 1 .. Len(args) + 1
    /\ options \in CliOptions
    /\ outcome \in {"parsing", "accepted", "rejected"}

\* What parse_cli() keeps up from one argument to the next.
CliInv ==
    /\ CliTypeOK
    /\ OptionsMean(options, index - 1)
    /\ outcome = "accepted" =>
         /\ index = Len(args) + 1
         /\ options.state_memory_ranges = <<>> \/ options.dump_state_path # ""

-----------------------------------------------------------------------------
(* Numbers *)

\* A number stoull accepts is a 64-bit one, however it is signed.
LEMMA ParsedNumber ==
    ASSUME NEW t \in NumberText, parses_u64(t)
    PROVE  parse_u64(t) \in U64Values
<1>1. U64 \in Nat /\ U64 > 0 /\ t.magnitude \in 0 .. U64 - 1
  BY CommandLineAssumption DEF parses_u64, NumberText
<1>2. (U64 - t.magnitude) % U64 \in 0 .. U64 - 1
  BY <1>1
<1> QED
  BY <1>1, <1>2 DEF parse_u64, U64Values

\* The value of an option that was accepted.
LEMMA AcceptedValue ==
    ASSUME NEW argument \in Arguments, argument.name \in ValueNames,
           accepts(argument)
    PROVE  /\ value_of(argument) \in U64Values
           /\ argument.name = "load-address" => value_of(argument) \in U32Values
           /\ argument.name = "memory-size" =>
                value_of(argument) \in 1 .. U32 - 1
<1>1. argument.numbers[1] \in NumberText
  BY CommandLineAssumption DEF Argument
<1>2. parses_u64(argument.numbers[1])
  BY DEF accepts, ValueNames, U64Names, U32Names, PairNames, parses_u32
<1>3. value_of(argument) \in U64Values
  BY <1>1, <1>2, ParsedNumber DEF value_of
<1>4. argument.name \in U32Names =>
        /\ value_of(argument) < U32
        /\ argument.name = "memory-size" => value_of(argument) # 0
  BY DEF accepts, U64Names, U32Names, PairNames, parses_u32, value_of
<1> QED
  BY <1>3, <1>4, CommandLineAssumption DEF U64Values, U32Values, U32Names

\* The two numbers of an option that was accepted.
LEMMA AcceptedPair ==
    ASSUME NEW argument \in Arguments, argument.name \in PairNames,
           accepts(argument)
    PROVE  /\ pair_of(argument) \in U32Values \X U32Values
           /\ argument.name = "expect-memory" =>
                pair_of(argument) \in WordAddresses \X U32Values
<1>1. parses_pair(argument)
  BY Zenon DEF accepts, PairNames, U64Names, U32Names
<1>2. argument.numbers[1] \in NumberText /\ argument.numbers[2] \in NumberText
  BY <1>1, CommandLineAssumption DEF Argument, parses_pair
<1>3. /\ parses_u32(argument.numbers[1])
      /\ parses_u32(argument.numbers[2])
  BY <1>1 DEF parses_pair
<1>4. /\ parse_u64(argument.numbers[1]) \in U32Values
      /\ parse_u64(argument.numbers[2]) \in U32Values
  BY <1>2, <1>3, ParsedNumber, CommandLineAssumption
     DEF parses_u32, U32Values, U64Values
<1>5. argument.name = "expect-memory" =>
        parse_u64(argument.numbers[1]) \in WordAddresses
  BY <1>1, <1>4, CommandLineAssumption
     DEF parses_pair, WordAddresses, U32Values
<1> QED
  BY <1>4, <1>5 DEF pair_of, value_of

-----------------------------------------------------------------------------
(* The arguments looked at *)

\* One more argument, and where options of these names stand.
LEMMA GivenNext ==
    ASSUME NEW names, NEW n \in Nat
    PROVE  /\ args[n + 1].name \notin names =>
                GivenUpTo(names, n + 1) = GivenUpTo(names, n)
           /\ args[n + 1].name \in names =>
                GivenUpTo(names, n + 1) = GivenUpTo(names, n) \cup {n + 1}
<1>1. 1 .. (n + 1) = (1 .. n) \cup {n + 1}
  OBVIOUS
<1> HIDE DEF GivenUpTo
<1> QED
  BY <1>1, Zenon DEF GivenUpTo

\* The positions are finitely many.
LEMMA GivenFinite ==
    ASSUME NEW names, NEW n \in Nat
    PROVE  /\ IsFiniteSet(GivenUpTo(names, n))
           /\ Cardinality(GivenUpTo(names, n)) \in Nat
           /\ GivenUpTo(names, n) \subseteq 1 .. n
<1>1. GivenUpTo(names, n) \subseteq 1 .. n
  BY DEF GivenUpTo
<1>2. IsFiniteSet(1 .. n)
  BY FS_Interval
<1>3. IsFiniteSet(GivenUpTo(names, n))
  BY <1>1, <1>2, FS_Subset
<1> QED
  BY <1>1, <1>3, FS_CardinalityType

\* An option stays what it is when another one is looked at.
LEMMA OtherOption ==
    ASSUME NEW name, NEW n \in Nat, args[n + 1].name # name
    PROVE  /\ GivenUpTo({name}, n + 1) = GivenUpTo({name}, n)
           /\ \A d : LastValue(name, n + 1, d) = LastValue(name, n, d)
           /\ \A d : LastPair(name, n + 1, d) = LastPair(name, n, d)
           /\ \A d : LastText(name, n + 1, d) = LastText(name, n, d)
           /\ \A p : ListsPairs(p, name, n) => ListsPairs(p, name, n + 1)
<1>1. GivenUpTo({name}, n + 1) = GivenUpTo({name}, n)
  BY GivenNext
<1> QED
  BY <1>1, Zenon DEF LastValue, LastPair, LastText, ListsPairs

\* The greatest of a set of numbers.
LEMMA MaxIs ==
    ASSUME NEW S \in SUBSET Int, NEW n \in S, \A m \in S : n >= m
    PROVE  Max(S) = n
<1>1. /\ Max(S) \in S
      /\ \A m \in S : Max(S) >= m
  BY Zenon DEF Max
<1>2. Max(S) \in Int /\ n \in Int /\ Max(S) >= n /\ n >= Max(S)
  BY <1>1
<1> QED
  BY <1>2

\* An option is what the argument just looked at says.
LEMMA ThisOption ==
    ASSUME NEW name, NEW n \in Nat, args[n + 1].name = name
    PROVE  /\ GivenUpTo({name}, n + 1) # {}
           /\ \A d : LastValue(name, n + 1, d) = value_of(args[n + 1])
           /\ \A d : LastPair(name, n + 1, d) = pair_of(args[n + 1])
           /\ \A d : LastText(name, n + 1, d) = args[n + 1].text
<1>1. GivenUpTo({name}, n + 1) = GivenUpTo({name}, n) \cup {n + 1}
  BY GivenNext
<1>2. GivenUpTo({name}, n) \subseteq 1 .. n
  BY GivenFinite
<1>3. Max(GivenUpTo({name}, n + 1)) = n + 1
  <2> DEFINE S == GivenUpTo({name}, n + 1)
  <2>1. S \in SUBSET Int /\ n + 1 \in S /\ \A m \in S : n + 1 >= m
    <3>1. S = GivenUpTo({name}, n) \cup {n + 1}
      BY <1>1
    <3> HIDE DEF S
    <3>2. ASSUME NEW m \in S PROVE m \in Int /\ n + 1 >= m
      <4>1. m \in 1 .. n \/ m = n + 1
        BY <3>1, <1>2, Zenon
      <4> QED
        BY <4>1
    <3> QED
      BY <3>1, <3>2
  <2> HIDE DEF S
  <2>2. Max(S) = n + 1
    BY <2>1, MaxIs
  <2> QED
    BY <2>2 DEF S
<1>4. GivenUpTo({name}, n + 1) # {}
  BY <1>1, Zenon
<1> QED
  BY <1>3, <1>4, Zenon DEF LastValue, LastPair, LastText

\* A repeated option grows by the pair just looked at.
LEMMA OnePairMore ==
    ASSUME NEW name, NEW n \in Nat, args[n + 1].name = name,
           NEW S, NEW pairs \in Seq(S), ListsPairs(pairs, name, n)
    PROVE  ListsPairs(Append(pairs, pair_of(args[n + 1])), name, n + 1)
<1> DEFINE G(i) == GivenUpTo({name}, i)
           more == Append(pairs, pair_of(args[n + 1]))
<1>1. G(n + 1) = G(n) \cup {n + 1} /\ n + 1 \notin G(n)
  <2>1. G(n + 1) = G(n) \cup {n + 1}
    BY GivenNext
  <2>2. G(n) \subseteq 1 .. n
    BY GivenFinite
  <2> HIDE DEF G
  <2> QED
    BY <2>1, <2>2
<1>2. Cardinality(G(n + 1)) = Cardinality(G(n)) + 1
  <2>1. IsFiniteSet(G(n))
    BY GivenFinite
  <2> HIDE DEF G
  <2>2. Cardinality(G(n) \cup {n + 1}) = Cardinality(G(n)) + 1
    BY <1>1, <2>1, FS_AddElement
  <2> QED
    BY <1>1, <2>2
<1>3. Cardinality(G(n)) \in Nat /\ Len(pairs) = Cardinality(G(n))
  BY GivenFinite DEF ListsPairs
<1>4. Len(more) = Cardinality(G(n + 1))
  BY <1>2, <1>3
<1>5. more[Cardinality(G(n + 1))] = pair_of(args[n + 1])
  BY <1>2, <1>3
<1>6. ASSUME NEW i \in G(n) PROVE more[Cardinality(G(i))] = pair_of(args[i])
  <2>1. i \in 1 .. n /\ G(i) \subseteq G(n) /\ i \in G(i)
    BY DEF GivenUpTo
  <2>2. IsFiniteSet(G(n)) /\ IsFiniteSet(G(i)) /\ Cardinality(G(i)) \in Nat
    BY <2>1, GivenFinite
  <2>3. Cardinality(G(i)) <= Cardinality(G(n))
    BY <2>1, <2>2, FS_Subset
  <2>4. Cardinality(G(i)) # 0
    BY <2>1, <2>2, FS_EmptySet
  <2>5. pairs[Cardinality(G(i))] = pair_of(args[i])
    BY <1>6 DEF ListsPairs
  <2> HIDE DEF G
  <2>6. more[Cardinality(G(i))] = pairs[Cardinality(G(i))]
    BY <2>2, <2>3, <2>4, <1>3
  <2> QED
    BY <2>5, <2>6
<1>7. \A i \in G(n + 1) : more[Cardinality(G(i))] = pair_of(args[i])
  BY <1>1, <1>5, <1>6
<1> QED
  BY <1>4, <1>7 DEF ListsPairs

-----------------------------------------------------------------------------
(* The steps *)

\* The loop variable of parse_cli().
LEMMA IndexType ==
    ASSUME CliTypeOK
    PROVE  /\ Len(args) \in Nat /\ index \in Nat /\ index - 1 \in Nat
           /\ index <= Len(args) + 1
           /\ \E n \in Nat : index = n + 1
<1>1. Len(args) \in Nat /\ index \in 1 .. Len(args) + 1
  BY DEF CliTypeOK
<1>2. index \in Nat /\ index - 1 \in Nat /\ index = (index - 1) + 1
  BY <1>1
<1> QED
  BY <1>1, <1>2

\* Every option but those of the argument looked at stays what it is.
LEMMA OtherOptions ==
    ASSUME CliTypeOK, index <= Len(args)
    PROVE  /\ \A name : name # current.name =>
                /\ GivenUpTo({name}, index) = GivenUpTo({name}, index - 1)
                /\ \A d : LastValue(name, index, d)
                            = LastValue(name, index - 1, d)
                /\ \A d : LastPair(name, index, d)
                      = LastPair(name, index - 1, d)
                /\ \A d : LastText(name, index, d)
                      = LastText(name, index - 1, d)
                /\ \A p : ListsPairs(p, name, index - 1) =>
                            ListsPairs(p, name, index)
           /\ \A names : current.name \notin names =>
                GivenUpTo(names, index) = GivenUpTo(names, index - 1)
           /\ \A names : current.name \in names => GivenUpTo(names, index) # {}
           /\ current \in Arguments
           /\ current.text \in Texts
<1>1. PICK n \in Nat : index = n + 1
  BY DEF CliTypeOK
<1>2. index - 1 = n
  BY <1>1
<1>3. current \in Arguments
  BY DEF CliTypeOK, current
<1>4. current.text \in Texts
  BY <1>3 DEF Texts
<1>5. current = args[n + 1]
  BY <1>1 DEF current
<1>6. ASSUME NEW names, current.name \in names
      PROVE  GivenUpTo(names, index) # {}
  <2>1. GivenUpTo(names, n + 1) = GivenUpTo(names, n) \cup {n + 1}
    BY <1>5, <1>6, GivenNext
  <2> QED
    BY <2>1, <1>1, Zenon
<1>7. ASSUME NEW names, current.name \notin names
      PROVE  GivenUpTo(names, index) = GivenUpTo(names, index - 1)
  BY <1>1, <1>2, <1>5, <1>7, GivenNext
<1> HIDE DEF current
<1>8. ASSUME NEW name, name # current.name
      PROVE  /\ GivenUpTo({name}, index) = GivenUpTo({name}, index - 1)
             /\ \A d : LastValue(name, index, d)
                            = LastValue(name, index - 1, d)
             /\ \A d : LastPair(name, index, d) = LastPair(name, index - 1, d)
             /\ \A d : LastText(name, index, d) = LastText(name, index - 1, d)
             /\ \A p : ListsPairs(p, name, index - 1) =>
                            ListsPairs(p, name, index)
  BY <1>1, <1>2, <1>5, <1>8, OtherOption, Zenon
<1> QED
  BY <1>3, <1>4, <1>6, <1>7, <1>8, Zenon

\* The option looked at is what its argument says.
LEMMA CurrentOption ==
    ASSUME CliTypeOK, index <= Len(args), NEW name, current.name = name
    PROVE  /\ GivenUpTo({name}, index) # {}
           /\ \A d : LastValue(name, index, d) = value_of(current)
           /\ \A d : LastPair(name, index, d) = pair_of(current)
           /\ \A d : LastText(name, index, d) = current.text
<1>1. PICK n \in Nat : index = n + 1
  BY DEF CliTypeOK
<1>2. current = args[n + 1]
  BY <1>1 DEF current
<1> QED
  BY <1>1, <1>2, ThisOption, Zenon

\* What options mean depends on the arguments read, not on when it is asked.
LEMMA SameMeaning ==
    ASSUME NEW n, NEW o, args' = args, index' - 1 = n, options' = o,
           OptionsMean(o, n)
    PROVE  OptionsMean(options, index - 1)'
<1>1. \A names : GivenUpTo(names, index - 1)' = GivenUpTo(names, n)
  BY ZenonT(60) DEF GivenUpTo
<1>2. \A name, d : /\ LastText(name, index - 1, d)' = LastText(name, n, d)
                   /\ LastValue(name, index - 1, d)' = LastValue(name, n, d)
                   /\ LastPair(name, index - 1, d)' = LastPair(name, n, d)
  BY <1>1, ZenonT(60) DEF LastText, LastValue, LastPair, value_of, pair_of
<1>3. \A name, p : ListsPairs(p, name, n) => ListsPairs(p, name, index - 1)'
  BY <1>1, ZenonT(60) DEF ListsPairs, GivenUpTo, pair_of, value_of
<1>4. OptionsMean(o, n) /\ options' = o
  OBVIOUS
<1>5. /\ options'.program_path = LastText("program", index - 1, "")'
      /\ options'.branch_predictor_type
            = LastText("branch-predictor", index - 1, "two-bit")'
      /\ options'.dump_state_path = LastText("dump-state", index - 1, "")'
  BY <1>4, <1>2, ZenonT(60) DEF OptionsMean
<1>6. /\ options'.load_address = LastValue("load-address", index - 1, 0)'
      /\ options'.memory_size
            = LastValue("memory-size", index - 1, DefaultMemorySize)'
      /\ options'.max_cycles
            = LastValue("max-cycles", index - 1, DefaultMaxCycles)'
  BY <1>4, <1>2, ZenonT(60) DEF OptionsMean
<1>7. /\ options'.retire_count = LastValue("retire-count", index - 1, 0)'
      /\ options'.trace_start = LastValue("trace-start", index - 1, 0)'
      /\ options'.trace_limit = LastValue("trace-limit", index - 1, 0)'
  BY <1>4, <1>2, ZenonT(60) DEF OptionsMean
<1>8. options'.dump_memory_range = LastPair("dump-memory", index - 1, <<0, 0>>)'
  BY <1>4, <1>2, ZenonT(60) DEF OptionsMean
<1>9. /\ options'.has_retire_count
            = (GivenUpTo({"retire-count"}, index - 1) # {})'
      /\ options'.dump_regs = (GivenUpTo({"dump-regs"}, index - 1) # {})'
      /\ options'.dump_written_memory
            = (GivenUpTo({"dump-written-memory"}, index - 1) # {})'
      /\ options'.dump_memory = (GivenUpTo({"dump-memory"}, index - 1) # {})'
  BY <1>4, <1>1, ZenonT(60) DEF OptionsMean
<1>10. /\ options'.trace
             = (GivenUpTo({"trace", "trace-start", "trace-limit"}, index - 1) # {})'
       /\ options'.has_trace_limit
            = (GivenUpTo({"trace-limit"}, index - 1) # {})'
       /\ options'.show_help = (GivenUpTo({"help"}, index - 1) # {})'
  BY <1>4, <1>1, ZenonT(60) DEF OptionsMean
<1>11. /\ ListsPairs(options.state_memory_ranges, "state-memory", index - 1)'
      /\ ListsPairs(options.memory_expectations, "expect-memory", index - 1)'
  BY <1>4, <1>3, ZenonT(60) DEF OptionsMean
<1> QED
  BY <1>5, <1>6, <1>7, <1>8, <1>9, <1>10, <1>11, ZenonT(60) DEF OptionsMean

\* An argument is taken: the new options mean one argument more.
LEMMA AcceptStep ==
    ASSUME CliInv, outcome = "parsing", index <= Len(args),
           NEW o \in CliOptions, Accept(o), OptionsMean(o, index)
    PROVE  CliInv'
<1>1. /\ args' = args /\ index' = index + 1 /\ options' = o
      /\ outcome' = "parsing"
  BY DEF Accept
<1>2. index' - 1 = index
  BY <1>1 DEF CliInv, CliTypeOK
<1>3. CliTypeOK'
  BY <1>1 DEF CliInv, CliTypeOK
<1>4. OptionsMean(options, index - 1)'
  BY <1>1, <1>2, SameMeaning
<1> QED
  BY <1>1, <1>3, <1>4 DEF CliInv

\* The options o are those so far, with what the argument looked at sets.
TakesCurrent(o) ==
    /\ o.program_path =
         IF current.name = "program"
         THEN current.text
         ELSE options.program_path
    /\ o.load_address =
         IF current.name = "load-address"
         THEN value_of(current)
         ELSE options.load_address
    /\ o.memory_size =
         IF current.name = "memory-size"
         THEN value_of(current)
         ELSE options.memory_size
    /\ o.branch_predictor_type =
         IF current.name = "branch-predictor"
         THEN current.text
         ELSE options.branch_predictor_type
    /\ o.max_cycles =
         IF current.name = "max-cycles"
         THEN value_of(current)
         ELSE options.max_cycles
    /\ o.retire_count =
         IF current.name = "retire-count"
         THEN value_of(current)
         ELSE options.retire_count
    /\ o.has_retire_count =
         IF current.name = "retire-count"
         THEN TRUE
         ELSE options.has_retire_count
    /\ o.dump_regs =
         IF current.name = "dump-regs"
         THEN TRUE
         ELSE options.dump_regs
    /\ o.dump_written_memory =
         IF current.name = "dump-written-memory"
         THEN TRUE
         ELSE options.dump_written_memory
    /\ o.dump_state_path =
         IF current.name = "dump-state"
         THEN current.text
         ELSE options.dump_state_path
    /\ o.state_memory_ranges =
         IF current.name = "state-memory"
         THEN Append(options.state_memory_ranges, pair_of(current))
         ELSE options.state_memory_ranges
    /\ o.dump_memory =
         IF current.name = "dump-memory"
         THEN TRUE
         ELSE options.dump_memory
    /\ o.dump_memory_range =
         IF current.name = "dump-memory"
         THEN pair_of(current)
         ELSE options.dump_memory_range
    /\ o.memory_expectations =
         IF current.name = "expect-memory"
         THEN Append(options.memory_expectations, pair_of(current))
         ELSE options.memory_expectations
    /\ o.trace =
         IF current.name \in {"trace", "trace-start", "trace-limit"}
         THEN TRUE
         ELSE options.trace
    /\ o.trace_start =
         IF current.name = "trace-start"
         THEN value_of(current)
         ELSE options.trace_start
    /\ o.trace_limit =
         IF current.name = "trace-limit"
         THEN value_of(current)
         ELSE options.trace_limit
    /\ o.has_trace_limit =
         IF current.name = "trace-limit"
         THEN TRUE
         ELSE options.has_trace_limit
    /\ o.show_help =
         IF current.name = "help"
         THEN TRUE
         ELSE options.show_help

\* Then they mean one argument more.
LEMMA TakenMeans ==
    ASSUME CliInv, index <= Len(args), NEW o, TakesCurrent(o)
    PROVE  OptionsMean(o, index)
<1>0. PICK n \in Nat : index = n + 1
  BY IndexType, Zenon DEF CliInv
<1>1. OptionsMean(options, index - 1)
  BY DEF CliInv
<1>2. \A name : IF current.name = name
                THEN GivenUpTo({name}, index) # {}
                ELSE GivenUpTo({name}, index) = GivenUpTo({name}, index - 1)
  BY OtherOptions, CurrentOption, Zenon DEF CliInv
<1>3. \A name, d : LastValue(name, index, d) =
                     IF current.name = name THEN value_of(current)
                     ELSE LastValue(name, index - 1, d)
  BY OtherOptions, CurrentOption, Zenon DEF CliInv
<1>4. \A name, d : LastPair(name, index, d) =
                     IF current.name = name THEN pair_of(current)
                     ELSE LastPair(name, index - 1, d)
  BY OtherOptions, CurrentOption, Zenon DEF CliInv
<1>5. \A name, d : LastText(name, index, d) =
                     IF current.name = name THEN current.text
                     ELSE LastText(name, index - 1, d)
  BY OtherOptions, CurrentOption, Zenon DEF CliInv
<1>6. \A name, p : current.name # name /\ ListsPairs(p, name, index - 1) =>
                     ListsPairs(p, name, index)
  BY OtherOptions, Zenon DEF CliInv
<1>7. ASSUME NEW S, NEW p \in Seq(S), ListsPairs(p, current.name, index - 1)
      PROVE  ListsPairs(Append(p, pair_of(current)), current.name, index)
  <2>1. current = args[n + 1] /\ index - 1 = n
    BY <1>0 DEF current
  <2>2. ListsPairs(p, args[n + 1].name, n)
    BY <1>7, <2>1
  <2>3. ListsPairs(Append(p, pair_of(args[n + 1])), args[n + 1].name, n + 1)
    BY <2>2, OnePairMore, Zenon
  <2> QED
    BY <1>0, <2>1, <2>3
<1>8. /\ options.state_memory_ranges \in Seq(U32Values \X U32Values)
      /\ options.memory_expectations \in Seq(WordAddresses \X U32Values)
  BY DEF CliInv, CliTypeOK, CliOptions
<1>9. GivenUpTo({"trace", "trace-start", "trace-limit"}, index) =
        IF current.name \in {"trace", "trace-start", "trace-limit"}
        THEN GivenUpTo({"trace", "trace-start", "trace-limit"}, index)
        ELSE GivenUpTo({"trace", "trace-start", "trace-limit"}, index - 1)
  BY OtherOptions, Zenon DEF CliInv
<1>10. current.name \in {"trace", "trace-start", "trace-limit"} =>
         GivenUpTo({"trace", "trace-start", "trace-limit"}, index) # {}
  BY OtherOptions, Zenon DEF CliInv
<1> HIDE DEF current
<1>11. o.program_path
         = LastText("program", index, "")
  <2>1. options.program_path
          = LastText("program", index - 1, "")
    BY <1>1, Zenon DEF OptionsMean
  <2>2. o.program_path = IF current.name = "program"
                       THEN current.text
                       ELSE options.program_path
    BY Zenon DEF TakesCurrent
  <2> QED
    BY <2>1, <2>2, <1>5, Zenon
<1>12. o.load_address
         = LastValue("load-address", index, 0)
  <2>1. options.load_address
          = LastValue("load-address", index - 1, 0)
    BY <1>1, Zenon DEF OptionsMean
  <2>2. o.load_address = IF current.name = "load-address"
                       THEN value_of(current)
                       ELSE options.load_address
    BY Zenon DEF TakesCurrent
  <2> QED
    BY <2>1, <2>2, <1>3, Zenon
<1>13. o.memory_size
         = LastValue("memory-size", index, DefaultMemorySize)
  <2>1. options.memory_size
          = LastValue("memory-size", index - 1, DefaultMemorySize)
    BY <1>1, Zenon DEF OptionsMean
  <2>2. o.memory_size = IF current.name = "memory-size"
                      THEN value_of(current)
                      ELSE options.memory_size
    BY Zenon DEF TakesCurrent
  <2> QED
    BY <2>1, <2>2, <1>3, Zenon
<1>14. o.branch_predictor_type
         = LastText("branch-predictor", index, "two-bit")
  <2>1. options.branch_predictor_type
          = LastText("branch-predictor", index - 1, "two-bit")
    BY <1>1, Zenon DEF OptionsMean
  <2>2. o.branch_predictor_type = IF current.name = "branch-predictor"
                                THEN current.text
                                ELSE options.branch_predictor_type
    BY Zenon DEF TakesCurrent
  <2> QED
    BY <2>1, <2>2, <1>5, Zenon
<1>15. o.max_cycles
         = LastValue("max-cycles", index, DefaultMaxCycles)
  <2>1. options.max_cycles
          = LastValue("max-cycles", index - 1, DefaultMaxCycles)
    BY <1>1, Zenon DEF OptionsMean
  <2>2. o.max_cycles = IF current.name = "max-cycles"
                     THEN value_of(current)
                     ELSE options.max_cycles
    BY Zenon DEF TakesCurrent
  <2> QED
    BY <2>1, <2>2, <1>3, Zenon
<1>16. o.retire_count
         = LastValue("retire-count", index, 0)
  <2>1. options.retire_count
          = LastValue("retire-count", index - 1, 0)
    BY <1>1, Zenon DEF OptionsMean
  <2>2. o.retire_count = IF current.name = "retire-count"
                       THEN value_of(current)
                       ELSE options.retire_count
    BY Zenon DEF TakesCurrent
  <2> QED
    BY <2>1, <2>2, <1>3, Zenon
<1>17. o.has_retire_count
         = (GivenUpTo({"retire-count"}, index) # {})
  <2>1. options.has_retire_count
          = (GivenUpTo({"retire-count"}, index - 1) # {})
    BY <1>1, Zenon DEF OptionsMean
  <2>2. o.has_retire_count = IF current.name = "retire-count"
                           THEN TRUE
                           ELSE options.has_retire_count
    BY Zenon DEF TakesCurrent
  <2> QED
    BY <2>1, <2>2, <1>2, Zenon
<1>18. o.dump_regs
         = (GivenUpTo({"dump-regs"}, index) # {})
  <2>1. options.dump_regs
          = (GivenUpTo({"dump-regs"}, index - 1) # {})
    BY <1>1, Zenon DEF OptionsMean
  <2>2. o.dump_regs = IF current.name = "dump-regs"
                    THEN TRUE
                    ELSE options.dump_regs
    BY Zenon DEF TakesCurrent
  <2> QED
    BY <2>1, <2>2, <1>2, Zenon
<1>19. o.dump_written_memory
         = (GivenUpTo({"dump-written-memory"}, index) # {})
  <2>1. options.dump_written_memory
          = (GivenUpTo({"dump-written-memory"}, index - 1) # {})
    BY <1>1, Zenon DEF OptionsMean
  <2>2. o.dump_written_memory = IF current.name = "dump-written-memory"
                              THEN TRUE
                              ELSE options.dump_written_memory
    BY Zenon DEF TakesCurrent
  <2> QED
    BY <2>1, <2>2, <1>2, Zenon
<1>20. o.dump_state_path
         = LastText("dump-state", index, "")
  <2>1. options.dump_state_path
          = LastText("dump-state", index - 1, "")
    BY <1>1, Zenon DEF OptionsMean
  <2>2. o.dump_state_path = IF current.name = "dump-state"
                          THEN current.text
                          ELSE options.dump_state_path
    BY Zenon DEF TakesCurrent
  <2> QED
    BY <2>1, <2>2, <1>5, Zenon
<1>21. ListsPairs(o.state_memory_ranges, "state-memory", index)
  <2>1. ListsPairs(options.state_memory_ranges, "state-memory", index - 1)
    BY <1>1, Zenon DEF OptionsMean
  <2>2. CASE current.name = "state-memory"
    <3>1. o.state_memory_ranges
          = Append(options.state_memory_ranges, pair_of(current))
      BY <2>2, Zenon DEF TakesCurrent
    <3> QED
      BY <2>1, <2>2, <3>1, <1>7, <1>8
  <2>3. CASE current.name # "state-memory"
    <3>1. o.state_memory_ranges = options.state_memory_ranges
      BY <2>3, Zenon DEF TakesCurrent
    <3> QED
      BY <2>1, <2>3, <3>1, <1>6
  <2> QED
    BY <2>2, <2>3
<1>22. o.dump_memory
         = (GivenUpTo({"dump-memory"}, index) # {})
  <2>1. options.dump_memory
          = (GivenUpTo({"dump-memory"}, index - 1) # {})
    BY <1>1, Zenon DEF OptionsMean
  <2>2. o.dump_memory = IF current.name = "dump-memory"
                      THEN TRUE
                      ELSE options.dump_memory
    BY Zenon DEF TakesCurrent
  <2> QED
    BY <2>1, <2>2, <1>2, Zenon
<1>23. o.dump_memory_range
         = LastPair("dump-memory", index, <<0, 0>>)
  <2>1. options.dump_memory_range
          = LastPair("dump-memory", index - 1, <<0, 0>>)
    BY <1>1, Zenon DEF OptionsMean
  <2>2. o.dump_memory_range = IF current.name = "dump-memory"
                            THEN pair_of(current)
                            ELSE options.dump_memory_range
    BY Zenon DEF TakesCurrent
  <2> QED
    BY <2>1, <2>2, <1>4, Zenon
<1>24. ListsPairs(o.memory_expectations, "expect-memory", index)
  <2>1. ListsPairs(options.memory_expectations, "expect-memory", index - 1)
    BY <1>1, Zenon DEF OptionsMean
  <2>2. CASE current.name = "expect-memory"
    <3>1. o.memory_expectations
          = Append(options.memory_expectations, pair_of(current))
      BY <2>2, Zenon DEF TakesCurrent
    <3> QED
      BY <2>1, <2>2, <3>1, <1>7, <1>8
  <2>3. CASE current.name # "expect-memory"
    <3>1. o.memory_expectations = options.memory_expectations
      BY <2>3, Zenon DEF TakesCurrent
    <3> QED
      BY <2>1, <2>3, <3>1, <1>6
  <2> QED
    BY <2>2, <2>3
<1>25. o.trace
         = (GivenUpTo({"trace", "trace-start", "trace-limit"}, index) # {})
  <2>1. options.trace
          = (GivenUpTo({"trace", "trace-start", "trace-limit"}, index - 1) # {})
    BY <1>1, Zenon DEF OptionsMean
  <2>2. o.trace = IF current.name \in {"trace", "trace-start", "trace-limit"}
                THEN TRUE
                ELSE options.trace
    BY Zenon DEF TakesCurrent
  <2> QED
    BY <2>1, <2>2, <1>9, <1>10, Zenon
<1>26. o.trace_start
         = LastValue("trace-start", index, 0)
  <2>1. options.trace_start
          = LastValue("trace-start", index - 1, 0)
    BY <1>1, Zenon DEF OptionsMean
  <2>2. o.trace_start = IF current.name = "trace-start"
                      THEN value_of(current)
                      ELSE options.trace_start
    BY Zenon DEF TakesCurrent
  <2> QED
    BY <2>1, <2>2, <1>3, Zenon
<1>27. o.trace_limit
         = LastValue("trace-limit", index, 0)
  <2>1. options.trace_limit
          = LastValue("trace-limit", index - 1, 0)
    BY <1>1, Zenon DEF OptionsMean
  <2>2. o.trace_limit = IF current.name = "trace-limit"
                      THEN value_of(current)
                      ELSE options.trace_limit
    BY Zenon DEF TakesCurrent
  <2> QED
    BY <2>1, <2>2, <1>3, Zenon
<1>28. o.has_trace_limit
         = (GivenUpTo({"trace-limit"}, index) # {})
  <2>1. options.has_trace_limit
          = (GivenUpTo({"trace-limit"}, index - 1) # {})
    BY <1>1, Zenon DEF OptionsMean
  <2>2. o.has_trace_limit = IF current.name = "trace-limit"
                          THEN TRUE
                          ELSE options.has_trace_limit
    BY Zenon DEF TakesCurrent
  <2> QED
    BY <2>1, <2>2, <1>2, Zenon
<1>29. o.show_help
         = (GivenUpTo({"help"}, index) # {})
  <2>1. options.show_help
          = (GivenUpTo({"help"}, index - 1) # {})
    BY <1>1, Zenon DEF OptionsMean
  <2>2. o.show_help = IF current.name = "help"
                    THEN TRUE
                    ELSE options.show_help
    BY Zenon DEF TakesCurrent
  <2> QED
    BY <2>1, <2>2, <1>2, Zenon
<1> QED
  BY <1>11, <1>12, <1>13, <1>14, <1>15, <1>16, <1>17, <1>18, <1>19,
     <1>20, <1>21, <1>22, <1>23, <1>24, <1>25, <1>26, <1>27, <1>28, <1>29, Zenon
     DEF OptionsMean

\* --max-cycles sets max_cycles, to a 64-bit number.
LEMMA MaxCyclesStep == ASSUME CliInv, MaxCycles PROVE CliInv'
<1> DEFINE o == [options EXCEPT !.max_cycles = value_of(current)]
<1>1. /\ outcome = "parsing" /\ index <= Len(args)
      /\ current.name = "max-cycles" /\ Accept(o) /\ accepts(current)
  BY DEF MaxCycles, LooksAt, Accept
<1>2. value_of(current) \in U64Values
  BY <1>1, OtherOptions, AcceptedValue
     DEF CliInv, ValueNames, U64Names, U32Names
<1>3. options \in CliOptions
  BY DEF CliInv, CliTypeOK
<1> HIDE DEF current
<1>4. o \in CliOptions
  BY <1>2, <1>3 DEF CliOptions
<1>5. TakesCurrent(o)
  BY <1>1, <1>3 DEF CliOptions, TakesCurrent
<1> HIDE DEF o
<1> QED
  BY <1>1, <1>4, <1>5, TakenMeans, AcceptStep

\* --trace-start sets trace_start and switches the trace on.
LEMMA TraceStartStep == ASSUME CliInv, TraceStart PROVE CliInv'
<1> DEFINE o == [options EXCEPT !.trace = TRUE,
                                !.trace_start = value_of(current)]
<1>1. /\ outcome = "parsing" /\ index <= Len(args)
      /\ current.name = "trace-start" /\ Accept(o) /\ accepts(current)
  BY DEF TraceStart, LooksAt, Accept
<1>2. value_of(current) \in U64Values
  BY <1>1, OtherOptions, AcceptedValue
     DEF CliInv, ValueNames, U64Names, U32Names
<1>3. options \in CliOptions
  BY DEF CliInv, CliTypeOK
<1> HIDE DEF current
<1>4. o \in CliOptions
  BY <1>2, <1>3 DEF CliOptions
<1>5. TakesCurrent(o)
  BY <1>1, <1>3 DEF CliOptions, TakesCurrent
<1> HIDE DEF o
<1> QED
  BY <1>1, <1>4, <1>5, TakenMeans, AcceptStep

\* --trace-limit sets trace_limit and switches the trace on.
LEMMA TraceLimitStep == ASSUME CliInv, TraceLimit PROVE CliInv'
<1> DEFINE o == [options EXCEPT !.trace = TRUE,
                                !.trace_limit = value_of(current),
                                !.has_trace_limit = TRUE]
<1>1. /\ outcome = "parsing" /\ index <= Len(args)
      /\ current.name = "trace-limit" /\ Accept(o) /\ accepts(current)
  BY DEF TraceLimit, LooksAt, Accept
<1>2. value_of(current) \in U64Values
  BY <1>1, OtherOptions, AcceptedValue
     DEF CliInv, ValueNames, U64Names, U32Names
<1>3. options \in CliOptions
  BY DEF CliInv, CliTypeOK
<1> HIDE DEF current
<1>4. o \in CliOptions
  BY <1>2, <1>3 DEF CliOptions
<1>5. TakesCurrent(o)
  BY <1>1, <1>3 DEF CliOptions, TakesCurrent
<1> HIDE DEF o
<1> QED
  BY <1>1, <1>4, <1>5, TakenMeans, AcceptStep

\* --retire-count sets the count and that there is one.
LEMMA RetireCountStep == ASSUME CliInv, RetireCount PROVE CliInv'
<1> DEFINE o == [options EXCEPT !.retire_count = value_of(current),
                                !.has_retire_count = TRUE]
<1>1. /\ outcome = "parsing" /\ index <= Len(args)
      /\ current.name = "retire-count" /\ Accept(o) /\ accepts(current)
  BY DEF RetireCount, LooksAt, Accept
<1>2. value_of(current) \in U64Values
  BY <1>1, OtherOptions, AcceptedValue
     DEF CliInv, ValueNames, U64Names, U32Names
<1>3. options \in CliOptions
  BY DEF CliInv, CliTypeOK
<1> HIDE DEF current
<1>4. o \in CliOptions
  BY <1>2, <1>3 DEF CliOptions
<1>5. TakesCurrent(o)
  BY <1>1, <1>3 DEF CliOptions, TakesCurrent
<1> HIDE DEF o
<1> QED
  BY <1>1, <1>4, <1>5, TakenMeans, AcceptStep

\* --load-address sets a 32-bit address.
LEMMA LoadAddressStep == ASSUME CliInv, LoadAddress PROVE CliInv'
<1> DEFINE o == [options EXCEPT !.load_address = value_of(current)]
<1>1. /\ outcome = "parsing" /\ index <= Len(args)
      /\ current.name = "load-address" /\ Accept(o) /\ accepts(current)
  BY DEF LoadAddress, LooksAt, Accept
<1>2. value_of(current) \in U32Values
  BY <1>1, OtherOptions, AcceptedValue
     DEF CliInv, ValueNames, U64Names, U32Names
<1>3. options \in CliOptions
  BY DEF CliInv, CliTypeOK
<1> HIDE DEF current
<1>4. o \in CliOptions
  BY <1>2, <1>3 DEF CliOptions
<1>5. TakesCurrent(o)
  BY <1>1, <1>3 DEF CliOptions, TakesCurrent
<1> HIDE DEF o
<1> QED
  BY <1>1, <1>4, <1>5, TakenMeans, AcceptStep

\* --memory-size sets a 32-bit size that is not zero.
LEMMA MemorySizeStep == ASSUME CliInv, MemorySize PROVE CliInv'
<1> DEFINE o == [options EXCEPT !.memory_size = value_of(current)]
<1>1. /\ outcome = "parsing" /\ index <= Len(args)
      /\ current.name = "memory-size" /\ Accept(o) /\ accepts(current)
  BY DEF MemorySize, LooksAt, Accept
<1>2. value_of(current) \in 1 .. U32 - 1
  BY <1>1, OtherOptions, AcceptedValue
     DEF CliInv, ValueNames, U64Names, U32Names
<1>3. options \in CliOptions
  BY DEF CliInv, CliTypeOK
<1> HIDE DEF current
<1>4. o \in CliOptions
  BY <1>2, <1>3 DEF CliOptions
<1>5. TakesCurrent(o)
  BY <1>1, <1>3 DEF CliOptions, TakesCurrent
<1> HIDE DEF o
<1> QED
  BY <1>1, <1>4, <1>5, TakenMeans, AcceptStep

\* --dump-memory replaces the range.
LEMMA DumpMemoryStep == ASSUME CliInv, DumpMemory PROVE CliInv'
<1> DEFINE o == [options EXCEPT !.dump_memory = TRUE,
                                !.dump_memory_range = pair_of(current)]
<1>1. /\ outcome = "parsing" /\ index <= Len(args)
      /\ current.name = "dump-memory" /\ Accept(o) /\ accepts(current)
  BY DEF DumpMemory, LooksAt, Accept
<1>2. pair_of(current) \in U32Values \X U32Values
  BY <1>1, OtherOptions, AcceptedPair DEF CliInv, PairNames
<1>3. options \in CliOptions
  BY DEF CliInv, CliTypeOK
<1> HIDE DEF current
<1>4. o \in CliOptions
  BY <1>2, <1>3 DEF CliOptions
<1>5. TakesCurrent(o)
  BY <1>1, <1>3 DEF CliOptions, TakesCurrent
<1> HIDE DEF o
<1> QED
  BY <1>1, <1>4, <1>5, TakenMeans, AcceptStep

\* --state-memory adds a range.
LEMMA StateMemoryStep == ASSUME CliInv, StateMemory PROVE CliInv'
<1> DEFINE o == [options EXCEPT
                  !.state_memory_ranges = Append(@, pair_of(current))]
<1>1. /\ outcome = "parsing" /\ index <= Len(args)
      /\ current.name = "state-memory" /\ Accept(o) /\ accepts(current)
  BY DEF StateMemory, LooksAt, Accept
<1>2. pair_of(current) \in U32Values \X U32Values
  BY <1>1, OtherOptions, AcceptedPair DEF CliInv, PairNames
<1>3. options \in CliOptions
  BY DEF CliInv, CliTypeOK
<1> HIDE DEF current
<1>4. o \in CliOptions
  <2> DEFINE pairs == options.state_memory_ranges
  <2>1. pairs \in Seq(U32Values \X U32Values)
    BY <1>3 DEF CliOptions
  <2> HIDE DEF pairs
  <2>2. Append(pairs, pair_of(current)) \in Seq(U32Values \X U32Values)
    BY <1>2, <2>1
  <2>3. o = [options EXCEPT
              !.state_memory_ranges = Append(pairs, pair_of(current))]
    BY DEF pairs
  <2> HIDE DEF o
  <2> QED
    BY <1>3, <2>2, <2>3 DEF CliOptions
<1>5. TakesCurrent(o)
  BY <1>1, <1>3 DEF CliOptions, TakesCurrent
<1> HIDE DEF o
<1> QED
  BY <1>1, <1>4, <1>5, TakenMeans, AcceptStep

\* --expect-memory adds a word that does not wrap.
LEMMA ExpectMemoryStep == ASSUME CliInv, ExpectMemory PROVE CliInv'
<1> DEFINE o == [options EXCEPT
                  !.memory_expectations = Append(@, pair_of(current))]
<1>1. /\ outcome = "parsing" /\ index <= Len(args)
      /\ current.name = "expect-memory" /\ Accept(o) /\ accepts(current)
  BY DEF ExpectMemory, LooksAt, Accept
<1>2. pair_of(current) \in WordAddresses \X U32Values
  BY <1>1, OtherOptions, AcceptedPair DEF CliInv, PairNames
<1>3. options \in CliOptions
  BY DEF CliInv, CliTypeOK
<1> HIDE DEF current
<1>4. o \in CliOptions
  <2> DEFINE pairs == options.memory_expectations
  <2>1. pairs \in Seq(WordAddresses \X U32Values)
    BY <1>3 DEF CliOptions
  <2> HIDE DEF pairs
  <2>2. Append(pairs, pair_of(current)) \in Seq(WordAddresses \X U32Values)
    BY <1>2, <2>1
  <2>3. o = [options EXCEPT
              !.memory_expectations = Append(pairs, pair_of(current))]
    BY DEF pairs
  <2> HIDE DEF o
  <2> QED
    BY <1>3, <2>2, <2>3 DEF CliOptions
<1>5. TakesCurrent(o)
  BY <1>1, <1>3 DEF CliOptions, TakesCurrent
<1> HIDE DEF o
<1> QED
  BY <1>1, <1>4, <1>5, TakenMeans, AcceptStep

\* --dump-state sets the path.
LEMMA DumpStateStep == ASSUME CliInv, DumpState PROVE CliInv'
<1> DEFINE o == [options EXCEPT !.dump_state_path = current.text]
<1>1. /\ outcome = "parsing" /\ index <= Len(args)
      /\ current.name = "dump-state" /\ Accept(o) /\ accepts(current)
  BY DEF DumpState, LooksAt, Accept
<1>2. current.text \in Texts
  BY <1>1, OtherOptions DEF CliInv
<1>3. options \in CliOptions
  BY DEF CliInv, CliTypeOK
<1> HIDE DEF current
<1>4. o \in CliOptions
  BY <1>2, <1>3 DEF CliOptions
<1>5. TakesCurrent(o)
  BY <1>1, <1>3 DEF CliOptions, TakesCurrent
<1> HIDE DEF o
<1> QED
  BY <1>1, <1>4, <1>5, TakenMeans, AcceptStep

\* --branch-predictor sets the policy.
LEMMA BranchPredictorStep == ASSUME CliInv, BranchPredictor PROVE CliInv'
<1> DEFINE o == [options EXCEPT !.branch_predictor_type = current.text]
<1>1. /\ outcome = "parsing" /\ index <= Len(args)
      /\ current.name = "branch-predictor" /\ Accept(o) /\ accepts(current)
  BY DEF BranchPredictor, LooksAt, Accept
<1>2. current.text \in Texts
  BY <1>1, OtherOptions DEF CliInv
<1>3. options \in CliOptions
  BY DEF CliInv, CliTypeOK
<1> HIDE DEF current
<1>4. o \in CliOptions
  BY <1>2, <1>3 DEF CliOptions
<1>5. TakesCurrent(o)
  BY <1>1, <1>3 DEF CliOptions, TakesCurrent
<1> HIDE DEF o
<1> QED
  BY <1>1, <1>4, <1>5, TakenMeans, AcceptStep

\* The program is what its one argument says.
LEMMA ProgramPathStep == ASSUME CliInv, ProgramPath PROVE CliInv'
<1> DEFINE o == [options EXCEPT !.program_path = current.text]
<1>1. /\ outcome = "parsing" /\ index <= Len(args)
      /\ current.name = "program" /\ Accept(o) /\ accepts(current)
  BY DEF ProgramPath, LooksAt, Accept
<1>2. current.text \in Texts
  BY <1>1, OtherOptions DEF CliInv
<1>3. options \in CliOptions
  BY DEF CliInv, CliTypeOK
<1> HIDE DEF current
<1>4. o \in CliOptions
  BY <1>2, <1>3 DEF CliOptions
<1>5. TakesCurrent(o)
  BY <1>1, <1>3 DEF CliOptions, TakesCurrent
<1> HIDE DEF o
<1> QED
  BY <1>1, <1>4, <1>5, TakenMeans, AcceptStep

\* A flag is one of the four.
LEMMA FlagStep == ASSUME CliInv, Flag PROVE CliInv'
<1> DEFINE o == CASE current.name = "help" ->
                       [options EXCEPT !.show_help = TRUE]
                  [] current.name = "trace" -> [options EXCEPT !.trace = TRUE]
                  [] current.name = "dump-regs" ->
                       [options EXCEPT !.dump_regs = TRUE]
                  [] OTHER -> [options EXCEPT !.dump_written_memory = TRUE]
<1>1. /\ outcome = "parsing" /\ index <= Len(args)
      /\ current.name \in FlagNames /\ Accept(o)
  BY Zenon DEF Flag, LooksAt
<1>2. options \in CliOptions
  BY DEF CliInv, CliTypeOK
<1> HIDE DEF current
<1>3. o \in CliOptions /\ TakesCurrent(o)
  <2>1. CASE current.name = "help"
    <3>1. o = [options EXCEPT !.show_help = TRUE]
      BY <2>1, Zenon
    <3> HIDE DEF o
    <3> QED
      BY <1>2, <2>1, <3>1 DEF CliOptions, TakesCurrent
  <2>2. CASE current.name = "trace"
    <3>1. o = [options EXCEPT !.trace = TRUE]
      BY <2>2, Zenon
    <3> HIDE DEF o
    <3> QED
      BY <1>2, <2>2, <3>1 DEF CliOptions, TakesCurrent
  <2>3. CASE current.name = "dump-regs"
    <3>1. o = [options EXCEPT !.dump_regs = TRUE]
      BY <2>3, Zenon
    <3> HIDE DEF o
    <3> QED
      BY <1>2, <2>3, <3>1 DEF CliOptions, TakesCurrent
  <2>4. CASE current.name = "dump-written-memory"
    <3>1. o = [options EXCEPT !.dump_written_memory = TRUE]
      BY <2>4, Zenon
    <3> HIDE DEF o
    <3> QED
      BY <1>2, <2>4, <3>1 DEF CliOptions, TakesCurrent
  <2> QED
    BY <1>1, <2>1, <2>2, <2>3, <2>4 DEF FlagNames
<1> HIDE DEF o
<1> QED
  BY <1>1, <1>3, TakenMeans, AcceptStep

\* An exception, or the condition at the end, changes the outcome only.
LEMMA OutcomeStep ==
    ASSUME CliInv, RejectArgument \/ EndOfArguments
    PROVE  CliInv'
<1>1. args' = args /\ index' = index /\ options' = options
  BY DEF RejectArgument, EndOfArguments
<1>2. /\ outcome' \in {"accepted", "rejected"}
      /\ outcome' = "accepted" =>
           /\ index > Len(args)
           /\ options.state_memory_ranges = <<>> \/ options.dump_state_path # ""
  BY DEF RejectArgument, EndOfArguments
<1>3. CliTypeOK'
  BY <1>1, <1>2 DEF CliInv, CliTypeOK
<1>4. OptionsMean(options, index - 1)'
  BY <1>1, SameMeaning DEF CliInv
<1>5. outcome' = "accepted" => index = Len(args) + 1
  <2>1. Len(args) \in Nat /\ index \in Nat /\ index <= Len(args) + 1
    BY IndexType, Zenon DEF CliInv
  <2>2. outcome' = "accepted" => index > Len(args)
    BY <1>2
  <2> QED
    BY <2>1, <2>2
<1> QED
  BY <1>1, <1>2, <1>3, <1>4, <1>5 DEF CliInv

\* The defaults mean no argument.
LEMMA CliInvInit == ASSUME CliInit PROVE CliInv
<1>1. args \in Seq(Arguments) /\ index = 1 /\ index - 1 = 0
  <2>1. PICK n \in 0 .. MaxArguments : args \in [1 .. n -> Arguments]
    BY DEF CliInit
  <2>2. n \in Nat
    BY CommandLineAssumption
  <2>3. args \in Seq(Arguments)
    BY <2>1, <2>2
  <2> QED
    BY <2>3 DEF CliInit
<1>2. options \in CliOptions
  <2>1. /\ 0 \in U32Values /\ 0 \in U64Values
        /\ DefaultMemorySize \in 1 .. U32 - 1
        /\ DefaultMaxCycles \in U64Values
    BY CommandLineAssumption DEF U32Values, U64Values
  <2>2. /\ <<>> \in Seq(U32Values \X U32Values)
        /\ <<>> \in Seq(WordAddresses \X U32Values)
        /\ <<0, 0>> \in U32Values \X U32Values
    BY <2>1
  <2>3. "" \in Texts /\ "two-bit" \in Texts
    BY DEF Texts
  <2>4. default_options \in CliOptions
    BY <2>1, <2>2, <2>3 DEF default_options, CliOptions
  <2> QED
    BY <2>4 DEF CliInit
<1>3. CliTypeOK
  BY <1>1, <1>2 DEF CliInit, CliTypeOK
<1>4. \A names : GivenUpTo(names, 0) = {}
  BY DEF GivenUpTo
<1>5. Cardinality({}) = 0
  BY FS_EmptySet
<1>6. OptionsMean(default_options, 0)
  <2>1. /\ \A name, d : LastText(name, 0, d) = d
        /\ \A name, d : LastValue(name, 0, d) = d
        /\ \A name, d : LastPair(name, 0, d) = d
    BY <1>4, Zenon DEF LastText, LastValue, LastPair
  <2>2. \A name : ListsPairs(<<>>, name, 0)
    BY <1>4, <1>5 DEF ListsPairs
  <2> QED
    BY <1>4, <2>1, <2>2 DEF OptionsMean, default_options
<1> QED
  BY <1>1, <1>3, <1>6 DEF CliInit, CliInv

\* parse_cli() keeps the options equal to what it has read, and sound.
LEMMA CliInvariant == CliSpec => []CliInv
<1>1. CliInit => CliInv
  BY CliInvInit
<1>2. CliInv /\ [CliNext]_cliVars => CliInv'
  <2>1. CASE CliNext
    BY <2>1, FlagStep, TraceStartStep, TraceLimitStep, MaxCyclesStep,
       RetireCountStep, LoadAddressStep, MemorySizeStep, BranchPredictorStep,
       ProgramPathStep, DumpMemoryStep, DumpStateStep, StateMemoryStep,
       ExpectMemoryStep, OutcomeStep DEF CliNext
  <2>2. ASSUME CliInv, UNCHANGED cliVars PROVE CliInv'
    <3>1. args' = args /\ index' = index /\ options' = options
          /\ outcome' = outcome
      BY <2>2 DEF cliVars
    <3>2. OptionsMean(options, index - 1)'
      BY <2>2, <3>1, SameMeaning DEF CliInv
    <3> QED
      BY <2>2, <3>1, <3>2 DEF CliInv, CliTypeOK
  <2> QED
    BY <2>1, <2>2
<1> QED
  BY <1>1, <1>2, PTL DEF CliSpec

-----------------------------------------------------------------------------
(* What is accepted *)

\* An accepted command line has the options its arguments say, the last of a
\* repeated one and all pairs of a repeatable one, whatever their order.
THEOREM OptionsCorrect == CliSpec => []OptionsFromArguments
<1>1. CliInv => OptionsFromArguments
  <2> SUFFICES ASSUME CliInv, outcome = "accepted"
               PROVE  OptionsMean(options, Len(args))
    BY DEF OptionsFromArguments
  <2>1. index - 1 = Len(args)
    <3>1. Len(args) \in Nat /\ index = Len(args) + 1
      BY IndexType, Zenon DEF CliInv
    <3> QED
      BY <3>1
  <2> QED
    BY <2>1 DEF CliInv
<1> QED
  BY <1>1, CliInvariant, PTL

\* Accepted options are within what the simulator takes for granted, however
\* the numbers were written.
THEOREM OptionsSafe == CliSpec => []OptionsAreSafe
<1>1. CliInv => OptionsAreSafe
  <2> SUFFICES ASSUME CliInv, outcome = "accepted" PROVE OptionsAreSafe
    BY DEF OptionsAreSafe
  <2>1. options \in CliOptions
    BY DEF CliInv, CliTypeOK
  <2>2. index - 1 = Len(args)
    <3>1. Len(args) \in Nat /\ index = Len(args) + 1
      BY IndexType, Zenon DEF CliInv
    <3> QED
      BY <3>1
  <2>3. Given({"state-memory"}) # {} => options.dump_state_path # ""
    <3> SUFFICES ASSUME Given({"state-memory"}) # {},
                        options.state_memory_ranges = <<>>
                 PROVE  FALSE
      BY DEF CliInv
    <3>1. Cardinality(Given({"state-memory"})) = 0
      BY <2>2 DEF CliInv, OptionsMean, ListsPairs, Given
    <3>2. IsFiniteSet(Given({"state-memory"}))
      BY GivenFinite DEF Given, CliInv, CliTypeOK
    <3> QED
      BY <3>1, <3>2, FS_EmptySet
  <2>4. /\ options.memory_size \in 1 .. U32 - 1
        /\ options.load_address \in 0 .. U32 - 1
        /\ options.max_cycles \in 0 .. U64 - 1
    BY <2>1 DEF CliOptions, U32Values, U64Values
  <2>5. ASSUME NEW i \in DOMAIN options.memory_expectations
        PROVE  options.memory_expectations[i][1] + 4 <= U32
    <3>1. options.memory_expectations \in Seq(WordAddresses \X U32Values)
      BY <2>1 DEF CliOptions
    <3>2. options.memory_expectations[i] \in WordAddresses \X U32Values
      BY <3>1
    <3> QED
      BY <3>2 DEF WordAddresses
  <2>6. ASSUME NEW i \in DOMAIN options.state_memory_ranges, NEW j \in 1 .. 2
        PROVE  options.state_memory_ranges[i][j] \in 0 .. U32 - 1
    <3>1. options.state_memory_ranges \in Seq(U32Values \X U32Values)
      BY <2>1 DEF CliOptions
    <3>2. options.state_memory_ranges[i] \in U32Values \X U32Values
      BY <3>1
    <3> QED
      BY <3>2 DEF U32Values
  <2> QED
    BY <2>3, <2>4, <2>5, <2>6 DEF OptionsAreSafe
<1> QED
  BY <1>1, CliInvariant, PTL

=============================================================================
