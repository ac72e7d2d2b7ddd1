--------------------------- MODULE SimdCFExecution ---------------------------
(***************************************************************************)
(* The lowering pass followed by the execution of what it produced: the    *)
(* function SimdCFLowering leaves in code runs on SimdCFMachine. A block's *)
(* body is executed with its terminator. The conditions of the source are  *)
(* free; what the lowered function does with them must be what SourceCF    *)
(* says the source function does.                                          *)
(***************************************************************************)
EXTENDS SimdCFLowering

CONSTANTS
  Width,       \* the SIMD width of the simd branches of SourceFunctions
  Channels,    \* the channels of EM, more than Width of them
  MaxConds,    \* a bound on the conditional branches of a source function
  MaxBlocks    \* a bound on the blocks of a lowered function

\* The simd branches have one width, and the channels its lanes.
ASSUME ExecAssumption ==
  /\ Width \in Nat \ {0} /\ Lanes(Width) \subseteq Channels
  /\ MaxBlocks \in Nat
  /\ \A s \in SourceFunctions :
       /\ s.cmWidth \in {0, Width}
       /\ \A b \in DOMAIN s.term : s.term[b].width \in {0, Width}

VARIABLES ip, EM, RM, callMask,
          choice      \* the lanes for which the last condition was true

runVars == <<ip, EM, RM, callMask, choice>>
vars == <<lowerVars, runVars>>

M == INSTANCE SimdCFMachine
       WITH Blocks <- 1 .. MaxBlocks, NoBlock <- NoBlock, Programs <- {}

ExecInit ==
  /\ Init
  /\ ip = NoBlock
  /\ EM = {} /\ callMask = {}
  /\ RM = M!ZeroRM
  /\ choice = {}

Lower == Next /\ UNCHANGED runVars

\* A kernel runs with all ones, a predicated subroutine with a call mask.
CallMasks ==
  IF source.cmWidth = 0 THEN {Channels}
  ELSE {mask \in SUBSET Channels : mask \cap Lanes(Width) # {}}

Enter ==
  /\ phase = "lowered"
  /\ diags = {}
  /\ Len(layout) <= MaxBlocks
  /\ phase' = "run"
  /\ \E mask \in CallMasks : EM' = mask /\ callMask' = mask
  /\ ip' = layout[1]
  /\ RM' = M!ZeroRM
  /\ UNCHANGED <<source, layout, term, body, SimdBranches, PredicatedBlocks,
                 JoinPoints, JIPs, group, masked, at, isBackward, diags,
                 asserts, code, choice>>

EnabledLanes == EM \cap Lanes(Width)

\* A branch is taken by the lanes in first, the others take its second leg;
\* the lanes that are not enabled have no say (goto ands with EM).
RunGoto(first) ==
  LET taking == IF ~IsCond(ip) THEN EnabledLanes
                ELSE IF term[ip].inv THEN EnabledLanes \ first ELSE first IN
  /\ M!Running("goto")
  /\ IF IsCond(ip)
     THEN term[ip].width = 0 => first \in {{}, EnabledLanes}
     ELSE first = {}
  /\ M!Goto(code[ip].lanes \ taking)
  /\ choice' = first

RunBranch(taken) ==
  /\ M!Branch(taken)
  /\ choice' = IF taken THEN EnabledLanes ELSE {}

\* A join or an inserted block executes no condition of the source.
RunJoin == M!Join /\ UNCHANGED choice
RunJump == M!Jump /\ choice' = IF body[ip] = NoBlock THEN choice ELSE {}
RunReturn == M!Return /\ choice' = {}

Run ==
  /\ phase = "run"
  /\ \/ \E first \in SUBSET EnabledLanes : RunGoto(first)
     \/ \E taken \in BOOLEAN : RunBranch(taken)
     \/ RunJoin
     \/ RunJump
     \/ RunReturn
  /\ UNCHANGED passVars

\* Nothing to lower, lowered with an error reported, or returned.
Finished ==
  /\ \/ phase \in {"notSimd", "rejected"}
     \/ phase = "lowered" /\ diags # {}
     \/ phase = "run" /\ ip = NoBlock
  /\ UNCHANGED vars

ExecNext == Lower \/ Enter \/ Run \/ Finished
ExecSpec == ExecInit /\ [][ExecNext]_vars

(***************************************************************************)
(* The conditions are data, so that loops end is an assumption about the   *)
(* source function: a condition evaluated again and again is at times true *)
(* for all the lanes that evaluate it and at times false for all of them.  *)
(***************************************************************************)
Conditions ==
  SelectSeq([b \in DOMAIN source.term |-> b], LAMBDA b : source.term[b].kind = "cond")

Uniform(i, value) ==
  /\ Run
  /\ ip # NoBlock
  /\ i \in DOMAIN Conditions
  /\ body[ip] = Conditions[i]
  /\ choice' = IF value THEN EnabledLanes ELSE {}

LoopsEnd == \A i \in 1 .. MaxConds, value \in BOOLEAN : SF_vars(Uniform(i, value))
ExecFairSpec == ExecSpec /\ WF_vars(Run) /\ LoopsEnd

-----------------------------------------------------------------------------
(***************************************************************************)
(* The lowered function implements the source function. A lane that is     *)
(* enabled is where execution is and one that is not is at the join whose  *)
(* resume mask holds it; blocks the pass made belong to the source block   *)
(* they lead to.                                                           *)
(***************************************************************************)
Home(b) ==
  LET H[d \in Blocks] == IF body[d] # NoBlock THEN body[d] ELSE H[code[d].next]
  IN  IF b = NoBlock THEN NoBlock ELSE H[b]

LanePc ==
  [c \in Lanes(Width) |->
     IF phase # "run" \/ ip = NoBlock \/ c \notin callMask THEN NoBlock
     ELSE IF c \in EM THEN Home(ip)
     ELSE Home(M!WaitsAt(RM, c))]

Src == INSTANCE SourceCF WITH LaneSet <- Lanes(Width), pc <- LanePc
ImplementsSource == Src!Spec

-----------------------------------------------------------------------------
(***************************************************************************)
(* What the lowered function must be like for its lanes to follow the      *)
(* source: a condition on its branches, gotos and joins, whatever is done  *)
(* with them when it runs. Code with structured conditions meets it.       *)
(***************************************************************************)
Targets(b) == {code[b].next} \cup (IF code[b].op = "brcond" THEN {code[b].taken} ELSE {})

\* A branch from before j leads back to p or before it, from after p.
CrossedBack(p, j) ==
  \E x \in Blocks : /\ Number(p) < Number(x) /\ Number(x) < Number(j)
                    /\ BranchesBack(x, p)

\* A goto on a scalar condition parts no lanes unless others resume before its UIP.
Parts(g) == term[g].width > 0 \/ JIPs[g] # UIPOf(g)

\* Execution can be at b with lanes waiting at j: a goto that sends lanes to j
\* is before b, or there is a way back from after it.
MayWait(b, j) ==
  \E g \in DOMAIN SimdBranches :
    /\ UIPOf(g) = j
    /\ Parts(g)
    /\ \A p \in Blocks :
         Number(b) <= Number(p) /\ Number(p) <= Number(g) => CrossedBack(p, j)

\* A scalar branch, or a return, at b goes past the join j.
Passes(b, j) ==
  /\ Number(b) < Number(j)
  /\ \/ code[b].op = "ret"
     \/ code[b].op \in {"br", "brcond"} /\ \E t \in Targets(b) : Number(j) < Number(t)

\* Scalar control flow leaves no lane behind at a join.
NoJoinPassed == \A b, j \in Blocks : Passes(b, j) => ~MayWait(b, j)

\* The joins that lead to a block of the source come before it.
JoinsLeadForward ==
  \A j \in DOMAIN JoinPoints, b \in Blocks :
    body[b] # NoBlock /\ body[b] = Home(j) => Number(j) < Number(b)

\* Where the block b goes when no lane is enabled.
Idle(b) ==
  IF code[b].op = "join" /\ code[b].taken # NoBlock THEN code[b].taken ELSE code[b].next

IdlePath(b) ==
  LET P[n \in 0 .. Len(layout)] ==
        IF n = 0 THEN {code[b].taken}
        ELSE LET path == P[n - 1]
             IN  path \cup {Idle(x) : x \in path \ {UIPOf(b)}}
  IN  P[Len(layout)]

\* From the JIP of a goto on, only joins and blocks of the pass are on the way
\* to its UIP.
IdlePathsReachUIP ==
  \A b \in DOMAIN SimdBranches :
    /\ code[b].taken \in IdlePath(b)
    /\ \A x \in IdlePath(b) \ {UIPOf(b)} : body[x] = NoBlock /\ Idle(x) \in IdlePath(b)

Orderly == NoJoinPassed /\ JoinsLeadForward /\ IdlePathsReachUIP

\* A block before a join where lanes can wait is predicated.
PredicatedWhereLanesWait ==
  \A b \in Blocks :
    /\ body[b] # NoBlock
    /\ source.cmWidth > 0 \/ \E j \in Blocks : Number(b) < Number(j) /\ MayWait(b, j)
    => masked[b] = Width

-----------------------------------------------------------------------------
(* Properties.                                                             *)

AtBody == phase = "run" /\ ip # NoBlock /\ body[ip] # NoBlock

\* No code of the source runs with no lane enabled: a join left without a
\* JIP is only reached with a channel to enable (the comment at
\* GenXSimdCFLowering.cpp:977-986).
SomeLaneEnabled == AtBody => EnabledLanes # {}

\* Code runs with some channel disabled only where it is predicated, and then
\* with the width of the branches that disabled it.
PredicatedWhenDiverged == AtBody /\ EM # Channels => masked[ip] = Width

\* A lowered function whose loops end returns: no lane is left waiting at a
\* join that is not reached again, and no loop goes on with no lane in it.
Returns == (phase = "run") ~> (phase = "run" /\ ip = NoBlock)
=============================================================================
