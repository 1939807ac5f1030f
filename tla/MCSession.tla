------------------------------ MODULE MCSession ------------------------------
(***************************************************************************)
(* Sessions for TLC: a few short programs, loaded one after the other.      *)
(***************************************************************************)
EXTENDS Session, MCPipeline

\* A load and its consumer; a store into the code; a taken branch; a fault.
SessionPrograms ==
    {Image(<<4, 3, 15>>), Image(<<1, 20, 1, 15>>), Image(<<9, 1, 19, 15>>),
     Image(<<2, 5>>)}

=============================================================================
