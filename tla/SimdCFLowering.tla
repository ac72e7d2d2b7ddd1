--------------------------- MODULE SimdCFLowering ---------------------------
(***************************************************************************)
(* CMSimdCFLower::processFunction: the lowering of the SIMD control flow   *)
(* of one function, from branches on simdcf.any to gotos and joins.        *)
(*                                                                         *)
(* Blocks are numbered; layout is their order in the function and NoBlock  *)
(* stands for a null BasicBlock pointer and for the virtual exit of the    *)
(* postdominator tree. A block is a body (the instructions of one block of *)
(* the source function, or none for a block the pass made) and a           *)
(* terminator. The maps keyed by block are functions on the blocks they    *)
(* hold. PHI nodes, names and debug locations are left out.                *)
(***************************************************************************)
EXTENDS Naturals, FiniteSets, Sequences, SequencesExt, Functions

CONSTANTS
  SourceFunctions,  \* the functions to lower: records [term, cmWidth]
  MaxSimdWidth      \* MAX_SIMD_CF_WIDTH

VARIABLES
  source,           \* the function as it was on entry
  layout,           \* sequence of the blocks of the function
  term,             \* block -> terminator
  body,             \* block -> block of source whose instructions it has
  SimdBranches,     \* block -> width, the blocks that end in a simd branch
  PredicatedBlocks, \* block -> width, the blocks to predicate
  JoinPoints,       \* block -> width, the blocks that are joins
  JIPs,             \* block -> JIP, for simd branches and joins
  group,            \* determineJIPs: block -> representative of its group
  masked,           \* block -> width its body was predicated with, or 0
  code,             \* the lowered function, once there is one
  phase,            \* the step of processFunction that comes next
  at, isBackward,   \* fixSimdBranches: its current block and flag
  diags,            \* the diagnostics emitted
  asserts           \* the assertions that failed

passVars == <<source, layout, term, body, SimdBranches, PredicatedBlocks,
              JoinPoints, JIPs, group, masked, phase, at, isBackward,
              diags, asserts>>
lowerVars == <<passVars, code>>

NoBlock == 0

(***************************************************************************)
(* A terminator: "ret", "br" (one successor) or "cond" (two). width is the *)
(* width of the simdcf.any a condition comes from, 0 for a scalar one.     *)
(* inv says that the pass has inverted the source condition.               *)
(***************************************************************************)
Ret == [kind |-> "ret", width |-> 0, inv |-> FALSE, succ |-> <<>>]
Br(s) == [kind |-> "br", width |-> 0, inv |-> FALSE, succ |-> <<s>>]
Cond(w, t, f) == [kind |-> "cond", width |-> w, inv |-> FALSE, succ |-> <<t, f>>]

\* The terminators of a function with the given blocks, as the pass finds them.
IsTerminator(t, blocks) ==
  \/ t = Ret
  \/ \E s \in blocks : t = Br(s)
  \/ \E p, q \in blocks : t.width \in Nat /\ t = Cond(t.width, p, q)

\* A function has an entry block and branches to blocks of its own.
ASSUME SourceAssumption ==
  \A s \in SourceFunctions :
    /\ s.cmWidth \in Nat
    /\ s.term \in Seq(Range(s.term)) /\ s.term # <<>>
    /\ \A b \in DOMAIN s.term : IsTerminator(s.term[b], DOMAIN s.term)

LegalWidths == {w \in {2, 4, 8, 16, 32} : w <= MaxSimdWidth}

Blocks == 1 .. Len(layout)
Fresh == Len(layout) + 1                      \* the next block created
Number(b) == CHOOSE i \in DOMAIN layout : layout[i] = b
NextNode(b) ==
  IF Number(b) = Len(layout) THEN NoBlock ELSE layout[Number(b) + 1]
Succs(b) == Range(term[b].succ)
Preds(b) == {d \in Blocks : b \in Succs(d)}
IsCond(b) == term[b].kind = "cond"
UIPOf(b) == term[b].succ[1]
WidthIn(map, b) == IF b \in DOMAIN map THEN map[b] ELSE 0
Without(map, S) == Restrict(map, DOMAIN map \ S)
\* The entries of f and those of g for the blocks that f does not hold.
Over(f, g) ==
  [b \in DOMAIN f \cup DOMAIN g |-> IF b \in DOMAIN f THEN f[b] ELSE g[b]]
Entered(map, b, value) == Over([d \in {b} |-> value], map)
FirstOf(S) == CHOOSE b \in S : \A d \in S : Number(b) <= Number(d)
LastOf(S) == CHOOSE b \in S : \A d \in S : Number(d) <= Number(b)

InsertAfter(b, new) == InsertAt(layout, Number(b) + 1, new)
InsertBefore(b, new) == InsertAt(layout, Number(b), new)

-----------------------------------------------------------------------------
(* Postdominance, with NoBlock as the virtual exit every return leads to.  *)

PostSuccs(b) == IF term[b].kind = "ret" THEN {NoBlock} ELSE Succs(b)

\* The nodes reachable from b on paths that do not enter p.
ReachableAvoiding(b, p) ==
  LET R[n \in 0 .. Len(layout)] ==
        IF n = 0 THEN {b} \ {p}
        ELSE LET r == R[n - 1]
             IN  r \cup (UNION {PostSuccs(d) : d \in r \ {NoBlock}} \ {p})
  IN  R[Len(layout)]

PostDominators(b) ==
  IF b = NoBlock THEN {NoBlock}
  ELSE {p \in Blocks : NoBlock \notin ReachableAvoiding(b, p)} \cup {NoBlock}

\* The postdominators of a block form a chain: the nearest has the most.
Nearest(S) ==
  CHOOSE p \in S : \A q \in S :
    Cardinality(PostDominators(q)) <= Cardinality(PostDominators(p))

\* Mutants: the walk up the tree does not stop, or stops at m.
UpToTheRoot(m, n) == PostDominators(n)
WithoutDoWhile(m, n) == PostDominators(n) \ PostDominators(m)

(***************************************************************************)
(* The blocks control dependent on the edge from m to n: up the            *)
(* postdominator tree from n until l. When m postdominates n the edge is   *)
(* a do-while back edge and l moves one up, so that m is included.         *)
(***************************************************************************)
ControlDependent(m, n) ==
  LET common == Nearest(PostDominators(m) \cap PostDominators(n))
      l == IF common = m THEN Nearest(PostDominators(m) \ {m}) ELSE common
  IN  PostDominators(n) \ PostDominators(l)

-----------------------------------------------------------------------------
(* The steps of processFunction.                                           *)

Init ==
  /\ source \in SourceFunctions
  /\ term = source.term
  /\ layout = [i \in DOMAIN source.term |-> i]
  /\ body = layout
  /\ SimdBranches = <<>>
  /\ PredicatedBlocks = <<>>
  /\ JoinPoints = <<>>
  /\ JIPs = <<>>
  /\ group = <<>>
  /\ masked = <<>>
  /\ code = <<>>
  /\ phase = "findSimdBranches"
  /\ at = NoBlock
  /\ isBackward = FALSE
  /\ diags = {}
  /\ asserts = {}

FindSimdBranches ==
  LET simd == {b \in Blocks : term[b].width > 0} IN
  /\ phase = "findSimdBranches"
  /\ SimdBranches' = [b \in simd |-> term[b].width]
  /\ diags' = {"mismatching SIMD CF width inside SIMD call" :
                 b \in {s \in simd : source.cmWidth \notin {0, term[s].width}}}
  /\ phase' = IF source.cmWidth > 0 \/ simd # {}
              THEN "determinePredicatedBlocks" ELSE "notSimd"
  /\ UNCHANGED <<source, layout, term, body, PredicatedBlocks, JoinPoints,
                 JIPs, group, masked, code, at, isBackward, asserts>>

\* The branches are visited in layout order: the last one decides a width.
DeterminePredicatedBlocks ==
  LET simd == DOMAIN SimdBranches
      dep == [m \in simd |-> UNION {ControlDependent(m, n) : n \in Succs(m)}]
      by(b) == {m \in simd : b \in dep[m]}
      widths(b) == {SimdBranches[m] : m \in by(b)}
      found == UNION {dep[m] : m \in simd}
  IN
  /\ phase = "determinePredicatedBlocks"
  /\ PredicatedBlocks' = [b \in found |-> SimdBranches[LastOf(by(b))]]
  /\ diags' = diags
       \cup {"illegal SIMD CF width" : m \in {s \in simd : SimdBranches[s] \notin LegalWidths}}
       \cup {"mismatching SIMD CF width" : b \in {d \in found : Cardinality(widths(d)) > 1}}
  /\ phase' = "markPredicatedBranches"
  /\ UNCHANGED <<source, layout, term, body, SimdBranches, JoinPoints, JIPs,
                 group, masked, code, at, isBackward, asserts>>

\* A return cannot be made a simd branch: the function is in error.
MarkPredicatedBranches ==
  LET bad == {b \in DOMAIN PredicatedBlocks : term[b].kind = "ret"} IN
  /\ phase = "markPredicatedBranches"
  /\ SimdBranches' = Over(PredicatedBlocks, SimdBranches)
  /\ diags' = diags \cup
       {"return or switch not allowed in SIMD control flow" : b \in bad}
  /\ phase' = IF bad = {} THEN "fixSimdBranches" ELSE "rejected"
  /\ at' = layout[1]
  /\ UNCHANGED <<source, layout, term, body, PredicatedBlocks, JoinPoints,
                 JIPs, group, masked, code, isBackward, asserts>>

-----------------------------------------------------------------------------
(* fixSimdBranches visits the blocks in layout order, those it inserts     *)
(* included; the blocks up to the current one have been seen.              *)

\* Mutant: the current block is not among those seen.
SeenBefore(b) == Number(b) < Number(at)

Seen(b) == Number(b) <= Number(at)
AtSimd == phase = "fixSimdBranches" /\ at \in DOMAIN SimdBranches
BackwardLegs == {i \in DOMAIN term[at].succ : Seen(term[at].succ[i])}
CriticalLegs ==
  {i \in DOMAIN term[at].succ : Preds(term[at].succ[i]) # {at}}
Least(S) == CHOOSE i \in S : \A j \in S : i <= j

Redirected(leg, new) ==
  Entered([term EXCEPT ![at].succ[leg] = new], new, Br(term[at].succ[leg]))

MoveOn(newLayout) ==
  LET i == CHOOSE j \in DOMAIN newLayout : newLayout[j] = at IN
  /\ isBackward' = FALSE
  /\ IF i = Len(newLayout)
     THEN phase' = "findAndSplitJoinPoints" /\ at' = NoBlock
     ELSE at' = newLayout[i + 1] /\ UNCHANGED phase

fixFrame == <<source, JoinPoints, JIPs, group, masked, code, diags, asserts>>

SkipBlock ==
  /\ phase = "fixSimdBranches"
  /\ at \notin DOMAIN SimdBranches
  /\ MoveOn(layout)
  /\ UNCHANGED <<fixFrame, layout, term, body, SimdBranches, PredicatedBlocks>>

\* An unconditional backward branch loses its simdness.
UnsimdBackward ==
  /\ AtSimd
  /\ ~IsCond(at)
  /\ BackwardLegs # {}
  /\ SimdBranches' = Without(SimdBranches, {at})
  /\ MoveOn(layout)
  /\ UNCHANGED <<fixFrame, layout, term, body, PredicatedBlocks>>

\* A backward leg goes through a new block right after the branch.
InsertBackward ==
  LET leg == Least(BackwardLegs) IN
  /\ AtSimd
  /\ IsCond(at)
  /\ BackwardLegs # {}
  /\ layout' = InsertAfter(at, Fresh)
  /\ term' = Redirected(leg, Fresh)
  /\ body' = Append(body, NoBlock)
  /\ isBackward' = TRUE
  /\ UNCHANGED <<fixFrame, SimdBranches, PredicatedBlocks, phase, at>>

\* The other leg of a loop end must be the only way into its block.
InsertLoopEnd ==
  LET leg == Least(CriticalLegs) IN
  /\ AtSimd
  /\ isBackward
  /\ BackwardLegs = {}
  /\ CriticalLegs # {}
  /\ layout' = InsertBefore(term[at].succ[leg], Fresh)
  /\ term' = Redirected(leg, Fresh)
  /\ body' = Append(body, NoBlock)
  /\ UNCHANGED <<fixFrame, SimdBranches, PredicatedBlocks, phase, at, isBackward>>

\* Mutant: the condition changes its sense and the legs are not swapped.
ConditionOnly(t) == [t EXCEPT !.inv = ~t.inv]

Inverted(t) == [t EXCEPT !.inv = ~t.inv, !.succ = <<t.succ[2], t.succ[1]>>]

LegsFixed == AtSimd /\ BackwardLegs = {} /\ ~(isBackward /\ CriticalLegs # {})
IsNext(leg) == term[at].succ[leg] = NextNode(at)

KeepBranch ==
  /\ LegsFixed
  /\ IsCond(at) => IsNext(2)
  /\ MoveOn(layout)
  /\ UNCHANGED <<fixFrame, layout, term, body, SimdBranches, PredicatedBlocks>>

InvertBranch ==
  /\ LegsFixed
  /\ IsCond(at) /\ ~IsNext(2) /\ IsNext(1)
  /\ term' = [term EXCEPT ![at] = Inverted(term[at])]
  /\ MoveOn(layout)
  /\ UNCHANGED <<fixFrame, layout, body, SimdBranches, PredicatedBlocks>>

\* Neither leg is fallthrough. Reading the width of the true leg's block
\* enters that block in PredicatedBlocks, with width 0 if it was not there.
InsertFallthrough ==
  LET taken == term[at].succ[1]
      width == WidthIn(PredicatedBlocks, taken) IN
  /\ LegsFixed
  /\ IsCond(at) /\ ~IsNext(2) /\ ~IsNext(1)
  /\ layout' = InsertAfter(at, Fresh)
  /\ term' = Redirected(2, Fresh)
  /\ body' = Append(body, NoBlock)
  /\ PredicatedBlocks' = Entered(Entered(PredicatedBlocks, taken, width), Fresh, width)
  /\ MoveOn(layout')
  /\ UNCHANGED <<fixFrame, SimdBranches>>

-----------------------------------------------------------------------------
(***************************************************************************)
(* findAndSplitJoinPoints: the UIP of every simd branch becomes a block of *)
(* its own, its code and terminator moving to a new block after it, with   *)
(* the width of the first branch to it in SimdBranches. The model keeps    *)
(* no order of SimdBranches: it is any of them, and the join points, whose *)
(* splits do not disturb each other, are taken in layout order.            *)
(***************************************************************************)
UnsplitJoinPoints == {UIPOf(b) : b \in DOMAIN SimdBranches} \ DOMAIN JoinPoints

SplitWithWidth(jp, width) ==
  LET inherit(map) ==
        IF jp \in DOMAIN map THEN Entered(map, Fresh, map[jp]) ELSE map
  IN
  /\ layout' = InsertAfter(jp, Fresh)
  /\ term' = Entered([term EXCEPT ![jp] = Br(Fresh)], Fresh, term[jp])
  /\ body' = Append([body EXCEPT ![jp] = NoBlock], body[jp])
  /\ PredicatedBlocks' = inherit(PredicatedBlocks)
  /\ SimdBranches' = IF jp \in DOMAIN SimdBranches
                     THEN Entered(Without(SimdBranches, {jp}), Fresh, width)
                     ELSE SimdBranches
  /\ JoinPoints' = Entered(JoinPoints, jp, width)
  /\ asserts' = asserts \cup
       {"SimdBranches[JP] == SimdWidth" : w \in {WidthIn(SimdBranches, jp)} \ {0, width}}

SplitJoinPoint ==
  LET jp == FirstOf(UnsplitJoinPoints)
      widths == {SimdBranches[b] : b \in {d \in DOMAIN SimdBranches : UIPOf(d) = jp}}
  IN
  /\ phase = "findAndSplitJoinPoints"
  /\ UnsplitJoinPoints # {}
  /\ \E width \in widths : SplitWithWidth(jp, width)
  /\ UNCHANGED <<source, JIPs, group, masked, code, phase, at, isBackward, diags>>

(***************************************************************************)
(* determineJIPs begins by grouping the blocks: an edge that is not a      *)
(* fallthrough puts its target and the block after its source together.    *)
(***************************************************************************)
GroupEdges ==
  UNION {{<<NextNode(b), t>> : t \in Succs(b) \ {NextNode(b)}} :
           b \in Blocks \ {layout[Len(layout)]}}

GroupOf(b) ==
  LET G[n \in 0 .. Len(layout)] ==
        IF n = 0 THEN {b}
        ELSE LET g == G[n - 1]
             IN  g \cup UNION {{e[1], e[2]} :
                   e \in {d \in GroupEdges : d[1] \in g \/ d[2] \in g}}
  IN  G[Len(layout)]

FormGroups ==
  /\ phase = "findAndSplitJoinPoints"
  /\ UnsplitJoinPoints = {}
  /\ group' = [b \in Blocks |-> FirstOf(GroupOf(b))]
  /\ phase' = "determineJIPs"
  /\ UNCHANGED <<source, layout, term, body, SimdBranches, PredicatedBlocks,
                 JoinPoints, JIPs, masked, code, at, isBackward, diags, asserts>>

(***************************************************************************)
(* determineJIP scans forward from b for its UIP, or for the first join    *)
(* that code before or at b could resume: one that follows, or is, a block *)
(* entered from before b, or that follows a block branching to b or before.*)
(***************************************************************************)
EnteredFromBefore(d, b) == \E p \in Preds(d) : Number(p) < Number(b)
BranchesBack(d, b) == \E s \in Succs(d) : Number(s) <= Number(b)

ResumableFrom(d, b) ==
  LET between == {m \in Blocks : Number(b) < Number(m) /\ Number(m) <= Number(d)}
  IN  \/ \E m \in between : EnteredFromBefore(m, b)
      \/ \E m \in between \ {d} : BranchesBack(m, b)

\* Mutants: any resumable block will do, or only the UIP.
ResumableBlocks(b, uip) ==
  {d \in Blocks : Number(d) > Number(b) /\ (d = uip \/ ResumableFrom(d, b))}
OnlyTheUIP(b, uip) == {d \in Blocks : d = uip}

JIPCandidates(b, uip) ==
  {d \in Blocks : /\ Number(d) > Number(b)
                  /\ d = uip \/ (d \in DOMAIN JoinPoints /\ ResumableFrom(d, b))}

\* Mutant: no join ever gets a JIP.
NoJoinWithJIP == {}

\* A join needs a JIP unless it is the last join of its group.
JoinsWithJIP ==
  {j \in DOMAIN JoinPoints :
     \E k \in DOMAIN JoinPoints : group[k] = group[j] /\ Number(k) > Number(j)}

DetermineJIPs ==
  LET gotos == DOMAIN SimdBranches
      uip(b) == IF b \in gotos THEN UIPOf(b) ELSE NoBlock
      scanned == gotos \cup JoinsWithJIP
      stuck == {b \in scanned : JIPCandidates(b, uip(b)) = {}}
      found == [b \in scanned \ stuck |-> FirstOf(JIPCandidates(b, uip(b)))]
      unsimd == {b \in gotos \ stuck : ~IsCond(b) /\ found[b] = UIPOf(b)}
      uips == {UIPOf(b) : b \in gotos \ unsimd}
  IN
  /\ phase = "determineJIPs"
  /\ JIPs' = Over(found, JIPs)
  /\ asserts' = asserts \cup {"reached end" : b \in stuck}
  /\ IF unsimd = {}
     THEN /\ phase' = "predicateCode"
          /\ UNCHANGED <<SimdBranches, JoinPoints>>
     ELSE /\ SimdBranches' = Without(SimdBranches, unsimd)
          /\ JoinPoints' = Restrict(JoinPoints, DOMAIN JoinPoints \cap uips)
          /\ UNCHANGED phase
  /\ UNCHANGED <<source, layout, term, body, PredicatedBlocks, group, masked,
                 code, at, isBackward, diags>>

\* In a subroutine with a call mask every block is predicated.
PredicateCode ==
  /\ phase = "predicateCode"
  /\ masked' = [b \in Blocks |-> IF b \in DOMAIN PredicatedBlocks
                                 THEN PredicatedBlocks[b] ELSE source.cmWidth]
  /\ phase' = "lowerSimdCF"
  /\ UNCHANGED <<source, layout, term, body, SimdBranches, PredicatedBlocks,
                 JoinPoints, JIPs, group, code, at, isBackward, diags, asserts>>

-----------------------------------------------------------------------------
(* lowerSimdCF, giving the function in the form SimdCFMachine runs.        *)

Lanes(width) == 1 .. width
Instruction(op, width, uip, taken, next) ==
  [op |-> op, lanes |-> Lanes(width), uip |-> uip, taken |-> taken, next |-> next]

\* Mutant: every goto takes the width its block is predicated with.
PredicatedWidth(b) == WidthIn(PredicatedBlocks, b)

\* A vector condition keeps its width; any other one is splatted.
GotoWidth(b) ==
  IF term[b].width > 0 THEN term[b].width ELSE WidthIn(PredicatedBlocks, b)

LoweredGoto(b) == Instruction("goto", GotoWidth(b), UIPOf(b), JIPs[b], NextNode(b))
LoweredJoin(b) ==
  Instruction("join", JoinPoints[b], NoBlock, WidthIn(JIPs, b), NextNode(b))
Unlowered(b) ==
  LET t == term[b] IN
  CASE t.kind = "ret"  -> Instruction("ret", 0, NoBlock, NoBlock, NoBlock)
    [] t.kind = "br"   -> Instruction("br", 0, NoBlock, NoBlock, t.succ[1])
    [] t.kind = "cond" -> Instruction("brcond", 0, NoBlock, t.succ[1], t.succ[2])

\* getRMAddr: the widths with which the resume mask of block j is asked for.
RMWidths(j) ==
  {GotoWidth(b) : b \in {d \in DOMAIN SimdBranches : UIPOf(d) = j}}
    \cup {JoinPoints[b] : b \in {d \in DOMAIN JoinPoints :
                                   d = j \/ (d \in DOMAIN JIPs /\ JIPs[d] = j)}}

LowerSimdCF ==
  /\ phase = "lowerSimdCF"
  /\ DOMAIN SimdBranches \subseteq DOMAIN JIPs
  /\ code' = [b \in Blocks |->
                IF b \in DOMAIN SimdBranches THEN LoweredGoto(b)
                ELSE IF b \in DOMAIN JoinPoints THEN LoweredJoin(b)
                ELSE Unlowered(b)]
  /\ asserts' = asserts \cup
       {"RM variable has the width asked for" :
          j \in {d \in Blocks : Cardinality(RMWidths(d)) > 1}}
  /\ phase' = "lowered"
  /\ UNCHANGED <<source, layout, term, body, SimdBranches, PredicatedBlocks,
                 JoinPoints, JIPs, group, masked, at, isBackward, diags>>

FixSimdBranches ==
  \/ SkipBlock
  \/ UnsimdBackward
  \/ InsertBackward
  \/ InsertLoopEnd
  \/ KeepBranch
  \/ InvertBranch
  \/ InsertFallthrough

Next ==
  \/ FindSimdBranches
  \/ DeterminePredicatedBlocks
  \/ MarkPredicatedBranches
  \/ FixSimdBranches
  \/ SplitJoinPoint
  \/ FormGroups
  \/ DetermineJIPs
  \/ PredicateCode
  \/ LowerSimdCF

Spec == Init /\ [][Next]_lowerVars

-----------------------------------------------------------------------------
(* Properties.                                                             *)

Widths == {source.cmWidth} \cup {source.term[b].width : b \in DOMAIN source.term}
WidthMap(map) == DOMAIN map \subseteq Blocks /\ Range(map) \subseteq Widths \cup {0}

\* Every block has its place in the function, a terminator whose targets are
\* blocks and a body; the maps hold blocks of the function only.
TypeOK ==
  /\ IsInjective(layout) /\ Range(layout) = Blocks
  /\ DOMAIN term = Blocks
  /\ \A b \in Blocks : Succs(b) \subseteq Blocks
  /\ DOMAIN body = Blocks
  /\ Range(body) \subseteq {NoBlock} \cup DOMAIN source.term
  /\ WidthMap(SimdBranches) /\ WidthMap(PredicatedBlocks) /\ WidthMap(JoinPoints)
  /\ DOMAIN JIPs \subseteq Blocks /\ Range(JIPs) \subseteq Blocks
  /\ at \in Blocks \cup {NoBlock}
  /\ isBackward \in BOOLEAN

BranchesFixed == phase \in {"determineJIPs", "predicateCode", "lowerSimdCF", "lowered"}

\* What fixSimdBranches and the split of the join points promise the steps
\* after them, whatever the order of the insertions that made it so: every
\* simd branch goes forward, its UIP is a join in a block of its own, and
\* the false leg of a conditional one falls through.
ForwardToJoins ==
  BranchesFixed =>
    \A b \in DOMAIN SimdBranches :
      /\ Number(UIPOf(b)) > Number(b)
      /\ UIPOf(b) \in DOMAIN JoinPoints
      /\ body[UIPOf(b)] = NoBlock
      /\ IsCond(b) => term[b].succ[2] = NextNode(b)

\* The lowered b jumps forward, to a block lowered to a join.
JumpsToJoin(b, target) ==
  target \in Blocks /\ code[target].op = "join" /\ Number(target) > Number(b)

\* The rounds of determineJIPs remove branches and joins but never a JIP: in
\* the lowered function every goto still has a join for UIP and for JIP, and so
\* has every join that needs a JIP, unless the search for one ran off the
\* function.
JumpsToLiveJoins ==
  phase = "lowered" =>
    /\ \A b \in DOMAIN SimdBranches :
         JumpsToJoin(b, code[b].uip) /\ JumpsToJoin(b, code[b].taken)
    /\ "reached end" \notin asserts =>
         \A j \in JoinsWithJIP : JumpsToJoin(j, code[j].taken)

OneWidth == \A v, w \in Widths \ {0} : v = w

\* A function with simd branches of one width asks for every resume mask with
\* the width it was created with, and splits no join of another width.
WidthsMatch == OneWidth => asserts \subseteq {"reached end"}

\* "reached end" (GenXSimdCFLowering.cpp:1113): determineJIP finds a JIP for
\* each goto and each join that needs one before the end of the function.
JIPFound == "reached end" \notin asserts

\* The widths of the branches that modify a join's resume mask are the same,
\* "because of the check carried out in 2" (GenXSimdCFLowering.cpp:143-146):
\* a function with no diagnostic never asks for one mask with two widths.
OneWidthPerResumeMask ==
  phase = "lowered" /\ diags = {} => \A j \in Blocks : Cardinality(RMWidths(j)) <= 1
=============================================================================
