--------------------------- MODULE MCSimdCFMachine ---------------------------
(***************************************************************************)
(* Instances of SimdCFMachine: every program of three blocks in which the  *)
(* last block returns and the first two hold any goto, join or branch.     *)
(* Gotos need not be forward nor joins in order: the properties of the     *)
(* masks do not depend on how the program is laid out.                     *)
(***************************************************************************)
EXTENDS SimdCFMachine, Integers, TLC

CONSTANT Narrow     \* the channels of the SIMD width, fewer than Channels

MCBlocks == 1 .. 3
Exit == 3

Instr(op, uip, taken, next) ==
  [op |-> op, lanes |-> Narrow, uip |-> uip, taken |-> taken, next |-> next]

SomeInstructions ==
  {Instr("goto", u, t, n) : u, t, n \in MCBlocks}
    \cup {Instr("join", NoBlock, t, n) : t \in MCBlocks \cup {NoBlock}, n \in MCBlocks}
    \cup {Instr("br", NoBlock, NoBlock, n) : n \in MCBlocks}
    \cup {Instr("brcond", NoBlock, t, n) : t, n \in MCBlocks}

MCPrograms ==
  {[entry |-> 1,
    code |-> (1 :> i @@ 2 :> j @@ Exit :> Instr("ret", NoBlock, NoBlock, NoBlock))] :
     i, j \in SomeInstructions}
=============================================================================
