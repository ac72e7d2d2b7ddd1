---------------------------- MODULE SimdCFMachine ----------------------------
(***************************************************************************)
(* The LLVM IR model of SIMD control flow: an execution mask EM and, for   *)
(* each join point, a resume mask RM. Masks are sets of channels. The      *)
(* program is the variable code, so that the output of the lowering pass   *)
(* can be run (SimdCFExecution); here it is chosen among Programs.         *)
(*                                                                         *)
(* An instruction is a record                                              *)
(*   op     "goto", "join", "br" (scalar, unconditional),                  *)
(*          "brcond" (scalar, conditional) or "ret"                        *)
(*   lanes  the channels a vector of the instruction's SIMD width covers   *)
(*   uip    the join whose RM a goto updates                               *)
(*   taken  the JIP of a goto or join, the true leg of a brcond            *)
(*   next   the fallthrough block, or the target of a br                   *)
(***************************************************************************)

CONSTANTS
  Blocks, Channels, NoBlock,
  Programs        \* the programs to run: records [entry, code]

VARIABLES
  code, ip,
  EM,             \* the execution mask variable
  RM,             \* block -> its resume mask variable
  callMask        \* the mask the function was entered with

vars == <<code, ip, EM, RM, callMask>>

Ops == {"goto", "join", "br", "brcond", "ret"}
MaybeBlock == Blocks \cup {NoBlock}

Instructions ==
  [op : Ops, lanes : SUBSET Channels,
   uip : MaybeBlock, taken : MaybeBlock, next : MaybeBlock]

\* Only a goto reads or writes the resume mask of its uip: it has one.
WellFormed(c) ==
  /\ c \in [Blocks -> Instructions]
  /\ \A b \in Blocks :
       c[b].op = "goto" => c[b].uip \in Blocks /\ c[b].taken \in Blocks

ASSUME MachineAssumption ==
  /\ NoBlock \notin Blocks
  /\ \A p \in Programs : p.entry \in Blocks /\ WellFormed(p.code)

-----------------------------------------------------------------------------
(* The masks the intrinsics compute. simdCond is true for the channels     *)
(* that stay: NewEM ands it, extended by ones beyond the width, to EM.     *)

OneExtended(mask, lanes) == mask \cup (Channels \ lanes)
GotoEM(em, simdCond, lanes) == em \cap OneExtended(simdCond, lanes)
GotoRM(em, rm, simdCond, lanes) == rm \cup ((em \cap lanes) \ simdCond)
JoinEM(em, rm) == em \cup rm

\* Mutation: the "Zero RM" store after a join is forgotten.
KeepRM(rm) == rm
JoinRM(rm) == {}

\* Mutation: BranchCond looks at all of EM and not at the SIMD width.
NoneEnabledUntruncated(em, lanes) == em = {}
NoneEnabled(em, lanes) == em \cap lanes = {}

\* Mutation: the resume masks are created and never stored to.
UninitializedRM == [b \in {} |-> {}]
ZeroRM == [b \in Blocks |-> {}]

Running(op) == ip # NoBlock /\ code[ip].op = op

-----------------------------------------------------------------------------
Goto(simdCond) ==
  LET i == code[ip] IN
  /\ Running("goto")
  /\ simdCond \subseteq i.lanes
  /\ EM' = GotoEM(EM, simdCond, i.lanes)
  /\ RM' = [RM EXCEPT ![i.uip] = GotoRM(EM, @, simdCond, i.lanes)]
  /\ ip' = IF NoneEnabled(EM', i.lanes) THEN i.taken ELSE i.next
  /\ UNCHANGED <<code, callMask>>

Join ==
  LET i == code[ip] IN
  /\ Running("join")
  /\ EM' = JoinEM(EM, RM[ip])
  /\ RM' = [RM EXCEPT ![ip] = JoinRM(@)]
  /\ ip' = IF NoneEnabled(EM', i.lanes) /\ i.taken # NoBlock
           THEN i.taken ELSE i.next
  /\ UNCHANGED <<code, callMask>>

Branch(taken) ==
  /\ Running("brcond")
  /\ ip' = IF taken THEN code[ip].taken ELSE code[ip].next
  /\ UNCHANGED <<code, EM, RM, callMask>>

Jump ==
  /\ Running("br")
  /\ ip' = code[ip].next
  /\ UNCHANGED <<code, EM, RM, callMask>>

Return ==
  /\ Running("ret")
  /\ ip' = NoBlock
  /\ UNCHANGED <<code, EM, RM, callMask>>

\* EM starts as all ones or as the call mask, every RM as all zeros.
Start(program, mask) ==
  /\ code = program.code
  /\ ip = program.entry
  /\ EM = mask
  /\ RM = ZeroRM
  /\ callMask = mask

Init == \E p \in Programs, mask \in SUBSET Channels : Start(p, mask)

Next ==
  \/ \E simdCond \in SUBSET Channels : Goto(simdCond)
  \/ Join
  \/ \E taken \in BOOLEAN : Branch(taken)
  \/ Jump
  \/ Return

Spec == Init /\ [][Next]_vars

-----------------------------------------------------------------------------
TypeOK ==
  /\ WellFormed(code)
  /\ ip \in MaybeBlock
  /\ EM \subseteq Channels
  /\ RM \in [Blocks -> SUBSET Channels]
  /\ callMask \subseteq Channels

(***************************************************************************)
(* MaskPartition: the channels the function was called with are split      *)
(* between EM and the resume masks: none is lost, none waits at two joins  *)
(* and no enabled channel is also waiting. Gotos and joins update masks of *)
(* different joins in any order a program can execute them.                *)
(***************************************************************************)
Disjoint ==
  /\ \A b \in Blocks : EM \cap RM[b] = {}
  /\ \A b, d \in Blocks : b # d => RM[b] \cap RM[d] = {}

Complete == EM \cup UNION {RM[b] : b \in Blocks} = callMask

MaskPartition == Disjoint /\ Complete

(***************************************************************************)
(* The mask representation implements the Architectural model: a waiting   *)
(* channel's PcIP is the join whose resume mask holds it.                  *)
(***************************************************************************)
WaitsAt(rm, c) ==
  IF \E b \in Blocks : c \in rm[b]
  THEN CHOOSE b \in Blocks : c \in rm[b]
  ELSE NoBlock

PcIP == [c \in Channels |-> WaitsAt(RM, c)]

Arch == INSTANCE ArchSimdCF WITH enabled <- EM, pcip <- PcIP
ImplementsArch == Arch!Spec
=============================================================================
