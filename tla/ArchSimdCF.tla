----------------------------- MODULE ArchSimdCF -----------------------------
(***************************************************************************)
(* The Architectural model of SIMD control flow: every channel that is     *)
(* disabled carries a PcIP, the join at which it will be enabled again.    *)
(* One instruction pointer is shared by all the channels.                  *)
(*                                                                         *)
(* This is what goto and join promise, described in the comments of        *)
(* Intrinsic_definitions.py; SimdCFMachine is the mask representation that *)
(* the LLVM IR uses instead and that must behave like this.                *)
(***************************************************************************)

CONSTANTS
  Blocks,     \* identities of the basic blocks of a lowered function
  Channels,   \* the channels of the execution mask (32 in the code)
  NoBlock     \* "no block": a null JIP, or the position after a return

VARIABLES
  code,       \* block -> the instruction that ends it (goto, join, branch)
  ip,         \* the block about to be executed
  enabled,    \* the channels that execute
  pcip        \* channel -> where a disabled channel waits, or NoBlock

vars == <<code, ip, enabled, pcip>>

Running(op) == ip # NoBlock /\ code[ip].op = op

(***************************************************************************)
(* A goto gives every enabled channel for which its condition holds the    *)
(* PcIP UIP; when no channel of its width is left it jumps to JIP.         *)
(***************************************************************************)
Goto(leaving) ==
  LET i == code[ip] IN
  /\ Running("goto")
  /\ leaving \subseteq (enabled \cap i.lanes)
  /\ enabled' = enabled \ leaving
  /\ pcip' = [c \in Channels |-> IF c \in leaving THEN i.uip ELSE pcip[c]]
  /\ ip' = IF enabled' \cap i.lanes = {} THEN i.taken ELSE i.next
  /\ UNCHANGED code

(***************************************************************************)
(* A join enables all channels that have their PcIP set to this join. If   *)
(* still none is enabled it jumps to JIP, when it has one.                 *)
(***************************************************************************)
Join ==
  LET i == code[ip]
      resumed == {c \in Channels : pcip[c] = ip} IN
  /\ Running("join")
  /\ enabled' = enabled \cup resumed
  /\ pcip' = [c \in Channels |-> IF c \in resumed THEN NoBlock ELSE pcip[c]]
  /\ ip' = IF enabled' \cap i.lanes = {} /\ i.taken # NoBlock
           THEN i.taken ELSE i.next
  /\ UNCHANGED code

(***************************************************************************)
(* Scalar instructions move the shared instruction pointer only.           *)
(***************************************************************************)
Scalar ==
  /\ \/ Running("br") /\ ip' = code[ip].next
     \/ Running("brcond") /\ ip' \in {code[ip].next, code[ip].taken}
     \/ Running("ret") /\ ip' = NoBlock
  /\ UNCHANGED <<code, enabled, pcip>>

Init ==
  /\ ip \in Blocks
  /\ enabled \subseteq Channels
  /\ pcip = [c \in Channels |-> NoBlock]

Next ==
  \/ \E leaving \in SUBSET Channels : Goto(leaving)
  \/ Join
  \/ Scalar

Spec == Init /\ [][Next]_vars
=============================================================================
