------------------------------ MODULE SourceCF ------------------------------
(***************************************************************************)
(* What a function with SIMD control flow means: every lane follows its    *)
(* own path through the source function, and the lanes that are at a block *)
(* execute it together, all of them and no others. A condition from        *)
(* simdcf.any is a value per lane; any other condition is one value for    *)
(* the lanes that evaluate it. The function returns when all its lanes are *)
(* at the return.                                                          *)
(***************************************************************************)
EXTENDS Naturals, Sequences

CONSTANTS
  LaneSet       \* the channels SIMD control flow applies to

VARIABLES
  source,       \* the source function
  pc,           \* lane -> the block it is at, Outside when it is in none
  choice        \* the lanes for which the last condition was true

vars == <<source, pc, choice>>

Outside == 0
Active == {c \in LaneSet : pc[c] # Outside}
LanesAt(b) == {c \in LaneSet : pc[c] = b}

Init ==
  /\ pc = [c \in LaneSet |-> Outside]
  /\ choice = {}

Call(mask) ==
  /\ Active = {}
  /\ pc' = [c \in LaneSet |-> IF c \in mask THEN 1 ELSE Outside]
  /\ choice' = {}
  /\ UNCHANGED source

\* The lanes at b go to the first successor if in first, else to the second.
Conditional(b, first) ==
  LET t == source.term[b] IN
  /\ t.kind = "cond"
  /\ t.width = 0 => first \in {{}, LanesAt(b)}
  /\ choice' = first
  /\ pc' = [c \in LaneSet |->
              IF c \notin LanesAt(b) THEN pc[c]
              ELSE IF c \in first THEN t.succ[1] ELSE t.succ[2]]
  /\ UNCHANGED source

Unconditional(b) ==
  LET t == source.term[b] IN
  /\ t.kind = "br"
  /\ pc' = [c \in LaneSet |-> IF c \in LanesAt(b) THEN t.succ[1] ELSE pc[c]]
  /\ choice' = {}
  /\ UNCHANGED source

Return(b) ==
  /\ source.term[b].kind = "ret"
  /\ Active = LanesAt(b)
  /\ pc' = [c \in LaneSet |-> Outside]
  /\ choice' = {}
  /\ UNCHANGED source

Next ==
  \/ \E mask \in SUBSET LaneSet : Call(mask)
  \/ \E b \in {pc[c] : c \in Active} :
       \/ \E first \in SUBSET LanesAt(b) : Conditional(b, first)
       \/ Unconditional(b)
       \/ Return(b)

Spec == Init /\ [][Next]_vars
=============================================================================
