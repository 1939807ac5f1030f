-------------------------------- MODULE Isa --------------------------------
(***************************************************************************)
(* The abstract specification the pipeline has to implement: a machine that *)
(* executes one instruction at a time, in program order, each reading the   *)
(* registers and the memory the previous one left.  What an instruction     *)
(* does is a parameter, given by IsaSemantics.                              *)
(***************************************************************************)
CONSTANTS
    ArchState,           \* the architectural states
    NothingExecuted(_),  \* is this a state before the first instruction?
    CanExecute(_),       \* can the machine execute another instruction?
    Fetchable(_),        \* the instruction words it may fetch
    Settled(_),          \* the state once older stores have reached fetch
    ExecWord(_, _)       \* the state after an instruction word

VARIABLE arch

Execute ==
    /\ CanExecute(arch)
    /\ \E word \in Fetchable(arch), s \in {arch, Settled(arch)} :
         arch' = ExecWord(s, word)

Settle == arch' = Settled(arch)

IsaNext == Execute \/ Settle

\* Any program in memory, at any address; nothing executed yet.
IsaInit == arch \in ArchState /\ NothingExecuted(arch)

IsaSpec == IsaInit /\ [][IsaNext]_arch

=============================================================================
