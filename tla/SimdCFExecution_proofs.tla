------------------------ MODULE SimdCFExecution_proofs ------------------------
(***************************************************************************)
(* Proofs about the lowered function when it runs.                         *)
(***************************************************************************)
EXTENDS SimdCFExecution, SimdCFLowering_proofs

-----------------------------------------------------------------------------
(***************************************************************************)
(* The lowering keeps the control flow graph of the source: home is the    *)
(* source block a block is or leads to, rank how far it is from it.        *)
(***************************************************************************)
SourceLeg(t, i) == IF t.inv THEN 3 - i ELSE i

IsKept(t, s, home) ==
  /\ t.kind = s.kind /\ t.width = s.width
  /\ \A i \in 1 .. Len(t.succ) : home[t.succ[i]] = s.succ[SourceLeg(t, i)]

Leads(home, rank) ==
  /\ home \in [Blocks -> DOMAIN source.term] /\ rank \in [Blocks -> Nat]
  /\ \A b \in Blocks : Number(b) = 1 => home[b] = 1
  /\ \A b \in Blocks : body[b] = NoBlock =>
       /\ term[b].kind = "br"
       /\ home[b] = home[term[b].succ[1]]
       /\ rank[term[b].succ[1]] < rank[b]
  /\ \A b \in Blocks : body[b] # NoBlock =>
       home[b] = body[b] /\ IsKept(term[b], source.term[body[b]], home)

HomesOK == \E home, rank : Leads(home, rank)

BodiesOK ==
  /\ phase \in BeforeJoins => \A b \in Blocks : body[b] # NoBlock /\ ~term[b].inv
  /\ \A b \in DOMAIN SimdBranches : body[b] # NoBlock
  /\ \A b \in Blocks : term[b].inv => b \in DOMAIN SimdBranches /\ IsCond(b)

JoinsFall ==
  /\ phase \in BeforeJoins \cup {"fixSimdBranches"} => DOMAIN JoinPoints = {}
  /\ \A j \in DOMAIN JoinPoints :
       term[j].kind = "br" /\ Number(term[j].succ[1]) = Number(j) + 1

\* JIPs go forward, and to the first of the joins determineJIP looks for.
OwnUIP(b) == IF b \in DOMAIN SimdBranches THEN UIPOf(b) ELSE NoBlock
JIPsFirst ==
  /\ phase \notin {"determineJIPs", "predicateCode", "lowerSimdCF", "lowered"} => DOMAIN JIPs = {}
  /\ \A b \in DOMAIN JIPs :
       /\ Number(JIPs[b]) > Number(b)
       /\ \A j \in JIPCandidates(b, OwnUIP(b)) : Number(JIPs[b]) <= Number(j)

CodeOK == phase = "lowered" => code = [b \in Blocks |-> LoweredBlock(b)]

LInv == IInv /\ JoinsOK /\ HomesOK /\ BodiesOK /\ JoinsFall /\ JIPsFirst /\ CodeOK

\* A step that leaves the graph.
LEMMA HomesKept ==
  ASSUME HomesOK, SameGraph
  PROVE  HomesOK'
<1>1. PICK home, rank : Leads(home, rank)
  BY DEF HomesOK
<1>2. Leads(home, rank)'
  BY <1>1 DEF Leads, SameGraph, Blocks, Number
<1> QED
  BY <1>2 DEF HomesOK

LEMMA InitLInv == Init => LInv
<1> SUFFICES ASSUME Init PROVE LInv
  OBVIOUS
<1>1. IInv /\ GraphOK
  BY InitIInv DEF IInv
<1>2. /\ source \in SourceFunctions /\ term = source.term /\ layout = [i \in DOMAIN source.term |-> i]
      /\ body = layout /\ phase = "findSimdBranches"
      /\ DOMAIN JoinPoints = {} /\ DOMAIN SimdBranches = {} /\ DOMAIN JIPs = {}
  <2>1. \A f : f = <<>> => DOMAIN f = {}
    OBVIOUS
  <2> QED
    BY <2>1 DEF Init
<1>3. JoinsOK /\ JoinsFall /\ JIPsFirst /\ CodeOK
  BY <1>2 DEF JoinsOK, JoinsFall, JIPsFirst, CodeOK
<1>4. /\ Blocks = DOMAIN source.term /\ Blocks \subseteq Nat \ {NoBlock}
      /\ \A b \in Blocks : layout[b] = b /\ body[b] = b /\ Number(b) = b
  <2>1. source.term \in Seq(Range(source.term))
    BY <1>2, SourceAssumption
  <2>2. DOMAIN source.term = 1 .. Len(source.term) /\ Len(source.term) \in Nat
    BY <2>1
  <2>3. Blocks = DOMAIN source.term
    BY <1>2, <2>2 DEF Blocks
  <2>4. \A b \in Blocks : layout[b] = b
    BY <1>2, <2>3
  <2>5. \A b \in Blocks : Number(b) = b
    <3>1. LayoutOK
      BY <1>1 DEF GraphOK
    <3> QED
      BY <3>1, <2>4, Numbers
  <2> QED
    BY <2>2, <2>3, <2>4, <2>5, <1>2 DEF NoBlock
<1>5. \A b \in Blocks : term[b] = source.term[b] /\ term[b].inv = FALSE
  <2>1. ASSUME NEW b \in Blocks PROVE term[b].inv = FALSE
    <3>1. IsTerminator(source.term[b], DOMAIN source.term)
      BY <1>2, <1>4, SourceAssumption
    <3>2. \A v, p, q : Ret.inv = FALSE /\ Br(p).inv = FALSE /\ Cond(v, p, q).inv = FALSE
      BY DEF Ret, Br, Cond
    <3> QED
      BY <3>1, <3>2, <1>2 DEF IsTerminator
  <2> QED
    BY <1>2, <2>1
<1>6. BodiesOK
  BY <1>2, <1>4, <1>5 DEF BodiesOK, NoBlock
<1>7. HomesOK
  <2> DEFINE home == [b \in Blocks |-> b]
             rank == [b \in Blocks |-> 0]
  <2>1. \A b \in Blocks : home[b] = b
    OBVIOUS
  <2>2. home \in [Blocks -> DOMAIN source.term] /\ rank \in [Blocks -> Nat]
    BY <1>4
  <2> HIDE DEF home, rank
  <2>3. ASSUME NEW b \in Blocks
        PROVE  IsKept(term[b], source.term[body[b]], home)
    <3>1. term[b] = source.term[b] /\ body[b] = b /\ term[b].inv = FALSE
      BY <1>4, <1>5
    <3>2. \A i \in 1 .. Len(term[b].succ) : term[b].succ[i] \in Blocks
      BY <1>1, LegsOf
    <3> QED
      BY <3>1, <3>2, <2>1 DEF IsKept, SourceLeg
  <2>4. Leads(home, rank)
    BY <1>4, <2>1, <2>2, <2>3 DEF Leads, NoBlock
  <2> QED
    BY <2>4 DEF HomesOK
<1> QED
  BY <1>1, <1>3, <1>6, <1>7 DEF LInv

\* The steps that leave graph and JIPs.
LEMMA SameGraphKeeps ==
  ASSUME LInv, SameGraph, UNCHANGED JIPs,
         phase' \in {"determineJIPs", "predicateCode", "lowerSimdCF", "lowered"} =>
           phase \in {"determineJIPs", "predicateCode", "lowerSimdCF", "lowered",
                      "findAndSplitJoinPoints"},
         phase' \in {"determineJIPs", "predicateCode", "lowerSimdCF", "lowered"}
           \/ phase \notin {"determineJIPs", "predicateCode", "lowerSimdCF", "lowered"},
         phase' \in BeforeJoins => phase \in BeforeJoins,
         phase' = "fixSimdBranches" => phase \in BeforeJoins \cup {"fixSimdBranches"},
         UNCHANGED JoinPoints,
         \/ phase \in BeforeJoins /\ DOMAIN SimdBranches' \subseteq Blocks
         \/ UNCHANGED SimdBranches
         \/ /\ phase = "fixSimdBranches" /\ DOMAIN SimdBranches' \subseteq DOMAIN SimdBranches
            /\ \A b \in DOMAIN SimdBranches \ DOMAIN SimdBranches' : ~IsCond(b)
  PROVE  HomesOK' /\ BodiesOK' /\ JoinsFall' /\ JIPsFirst'
<1>1. HomesOK'
  BY HomesKept DEF LInv
<1>2. Blocks' = Blocks /\ \A b : Number(b)' = Number(b)
  BY NumbersKept DEF SameGraph, Blocks
<1>3. BodiesOK'
  BY <1>2 DEF LInv, BodiesOK, SameGraph, IsCond
<1>4. JoinsFall'
  BY <1>2 DEF LInv, JoinsFall, SameGraph
<1>5. JIPsFirst'
  <2>1. CASE DOMAIN JIPs = {}
    BY <2>1 DEF JIPsFirst
  <2>2. CASE DOMAIN JIPs # {}
    <3>1. phase \in {"determineJIPs", "predicateCode", "lowerSimdCF", "lowered"}
      BY <2>2 DEF LInv, JIPsFirst
    <3>2. UNCHANGED SimdBranches
      BY <3>1 DEF BeforeJoins
    <3>3. \A b : /\ OwnUIP(b)' = OwnUIP(b)
                 /\ \A u : JIPCandidates(b, u)' = JIPCandidates(b, u)
      BY <1>2, <3>2 DEF OwnUIP, UIPOf, SameGraph, JIPCandidates, ResumableFrom,
                        EnteredFromBefore, BranchesBack, Preds, Succs
    <3> QED
      BY <3>1, <3>3, <1>2 DEF LInv, JIPsFirst
  <2> QED
    BY <2>1, <2>2
<1> QED
  BY <1>1, <1>3, <1>4, <1>5

Rest == HomesOK /\ BodiesOK /\ JoinsFall /\ JIPsFirst

LEMMA FindSimdBranchesRest == LInv /\ FindSimdBranches => Rest'
<1> SUFFICES ASSUME LInv, FindSimdBranches PROVE Rest'
  OBVIOUS
<1>1. DOMAIN SimdBranches' \subseteq Blocks
  BY DEF FindSimdBranches
<1>2. /\ phase = "findSimdBranches" /\ phase' \in {"determinePredicatedBlocks", "notSimd"}
      /\ SameGraph /\ UNCHANGED <<JIPs, JoinPoints>>
  BY DEF FindSimdBranches, SameGraph
<1> QED
  BY <1>1, <1>2, SameGraphKeeps DEF Rest, BeforeJoins

LEMMA DeterminePredicatedBlocksRest == LInv /\ DeterminePredicatedBlocks => Rest'
<1> SUFFICES ASSUME LInv, DeterminePredicatedBlocks PROVE Rest'
  OBVIOUS
<1>1. /\ phase = "determinePredicatedBlocks" /\ phase' = "markPredicatedBranches"
      /\ SameGraph /\ UNCHANGED <<JIPs, JoinPoints, SimdBranches>>
  BY DEF DeterminePredicatedBlocks, SameGraph
<1> QED
  BY <1>1, SameGraphKeeps DEF Rest, BeforeJoins

LEMMA MarkPredicatedBranchesRest == LInv /\ MarkPredicatedBranches => Rest'
<1> SUFFICES ASSUME LInv, MarkPredicatedBranches PROVE Rest'
  OBVIOUS
<1>1. /\ phase = "markPredicatedBranches" /\ phase' \in {"fixSimdBranches", "rejected"}
      /\ SameGraph /\ UNCHANGED <<JIPs, JoinPoints>>
      /\ SimdBranches' = Over(PredicatedBlocks, SimdBranches)
  BY DEF MarkPredicatedBranches, SameGraph
<1>2. DOMAIN SimdBranches' \subseteq Blocks
  BY <1>1 DEF Over, LInv, IInv, MapsOK, Positive, WidthMap
<1> QED
  BY <1>1, <1>2, SameGraphKeeps DEF Rest, BeforeJoins

LEMMA MovesOn ==
  ASSUME phase = "fixSimdBranches", NEW l, MoveOn(l)
  PROVE  phase' \in {"fixSimdBranches", "findAndSplitJoinPoints"}
BY DEF MoveOn

LEMMA SkipBlockRest == LInv /\ SkipBlock => Rest'
<1> SUFFICES ASSUME LInv, SkipBlock PROVE Rest'
  OBVIOUS
<1>1. /\ phase = "fixSimdBranches" /\ phase' \in {"fixSimdBranches", "findAndSplitJoinPoints"}
      /\ SameGraph /\ UNCHANGED <<JIPs, JoinPoints, SimdBranches>>
  BY MovesOn DEF SkipBlock, SameGraph, fixFrame
<1> QED
  BY <1>1, SameGraphKeeps DEF Rest, BeforeJoins

LEMMA UnsimdBackwardRest == LInv /\ UnsimdBackward => Rest'
<1> SUFFICES ASSUME LInv, UnsimdBackward PROVE Rest'
  OBVIOUS
<1>1. /\ phase = "fixSimdBranches" /\ phase' \in {"fixSimdBranches", "findAndSplitJoinPoints"}
      /\ SameGraph /\ UNCHANGED <<JIPs, JoinPoints>>
      /\ SimdBranches' = Without(SimdBranches, {at}) /\ ~IsCond(at)
  BY MovesOn DEF UnsimdBackward, AtSimd, SameGraph, fixFrame
<1>2. DOMAIN SimdBranches' = DOMAIN SimdBranches \ {at}
  BY <1>1, WithoutSome
<1>3. /\ DOMAIN SimdBranches' \subseteq DOMAIN SimdBranches
      /\ \A b \in DOMAIN SimdBranches \ DOMAIN SimdBranches' : ~IsCond(b)
  BY <1>1, <1>2
<1> QED
  BY <1>1, <1>3, SameGraphKeeps DEF Rest, BeforeJoins

LEMMA KeepBranchRest == LInv /\ KeepBranch => Rest'
<1> SUFFICES ASSUME LInv, KeepBranch PROVE Rest'
  OBVIOUS
<1>1. /\ phase = "fixSimdBranches" /\ phase' \in {"fixSimdBranches", "findAndSplitJoinPoints"}
      /\ SameGraph /\ UNCHANGED <<JIPs, JoinPoints, SimdBranches>>
  BY MovesOn DEF KeepBranch, LegsFixed, AtSimd, SameGraph, fixFrame
<1> QED
  BY <1>1, SameGraphKeeps DEF Rest, BeforeJoins

LEMMA FormGroupsRest == LInv /\ FormGroups => Rest'
<1> SUFFICES ASSUME LInv, FormGroups PROVE Rest'
  OBVIOUS
<1>1. /\ phase = "findAndSplitJoinPoints" /\ phase' = "determineJIPs"
      /\ SameGraph /\ UNCHANGED <<JIPs, JoinPoints, SimdBranches>>
  BY DEF FormGroups, SameGraph
<1> QED
  BY <1>1, SameGraphKeeps DEF Rest, BeforeJoins

LEMMA PredicateCodeRest == LInv /\ PredicateCode => Rest'
<1> SUFFICES ASSUME LInv, PredicateCode PROVE Rest'
  OBVIOUS
<1>1. /\ phase = "predicateCode" /\ phase' = "lowerSimdCF"
      /\ SameGraph /\ UNCHANGED <<JIPs, JoinPoints, SimdBranches>>
  BY DEF PredicateCode, SameGraph
<1> QED
  BY <1>1, SameGraphKeeps DEF Rest, BeforeJoins

LEMMA LowerSimdCFRest == LInv /\ LowerSimdCF => Rest'
<1> SUFFICES ASSUME LInv, LowerSimdCF PROVE Rest'
  OBVIOUS
<1>1. /\ phase = "lowerSimdCF" /\ phase' = "lowered"
      /\ SameGraph /\ UNCHANGED <<JIPs, JoinPoints, SimdBranches>>
  BY DEF LowerSimdCF, SameGraph
<1> QED
  BY <1>1, SameGraphKeeps DEF Rest, BeforeJoins

LEMMA DetermineJIPsRest == LInv /\ DetermineJIPs => Rest'
<1> SUFFICES ASSUME LInv, DetermineJIPs PROVE Rest'
  OBVIOUS
<1> DEFINE gotos == DOMAIN SimdBranches
           uip(b) == IF b \in gotos THEN UIPOf(b) ELSE NoBlock
           scanned == gotos \cup JoinsWithJIP
           stuck == {b \in scanned : JIPCandidates(b, uip(b)) = {}}
           found == [b \in scanned \ stuck |-> FirstOf(JIPCandidates(b, uip(b)))]
           unsimd == {b \in gotos \ stuck : ~IsCond(b) /\ found[b] = UIPOf(b)}
           uips == {UIPOf(b) : b \in gotos \ unsimd}
<1>1. /\ phase = "determineJIPs" /\ SameGraph /\ GraphOK /\ MapsOK /\ FixedOK
      /\ phase' \in {"determineJIPs", "predicateCode"}
  BY DEF DetermineJIPs, SameGraph, LInv, IInv
<1>2. /\ JIPs' = Over(found, JIPs)
      /\ unsimd = {} => UNCHANGED <<SimdBranches, JoinPoints>>
      /\ unsimd # {} => /\ SimdBranches' = Without(SimdBranches, unsimd)
                        /\ JoinPoints' = Restrict(JoinPoints, DOMAIN JoinPoints \cap uips)
  BY <1>1 DEF DetermineJIPs
<1>3. /\ DOMAIN found = scanned \ stuck
      /\ \A b \in scanned \ stuck : found[b] = FirstOf(JIPCandidates(b, uip(b)))
  OBVIOUS
<1> HIDE DEF found, stuck
<1>4. /\ DOMAIN JIPs' = (scanned \ stuck) \cup DOMAIN JIPs
      /\ \A b \in scanned \ stuck : JIPs'[b] = found[b]
      /\ \A b \in DOMAIN JIPs \ (scanned \ stuck) : JIPs'[b] = JIPs[b]
  BY <1>2, <1>3 DEF Over
<1>5. \A b \in unsimd : ~IsCond(b) /\ b \in gotos
  OBVIOUS
<1>6. scanned \subseteq Blocks
  BY <1>1 DEF MapsOK, Positive, JoinsWithJIP
<1> HIDE DEF unsimd, uips
<1>7. /\ DOMAIN SimdBranches' \subseteq gotos /\ DOMAIN JoinPoints' \subseteq DOMAIN JoinPoints
      /\ \A b \in gotos \ DOMAIN SimdBranches' : ~IsCond(b)
  <2>1. CASE unsimd = {}
    BY <2>1, <1>2
  <2>2. CASE unsimd # {}
    <3>1. DOMAIN SimdBranches' = gotos \ unsimd
      BY <2>2, <1>2, WithoutSome
    <3>2. DOMAIN JoinPoints' = DOMAIN JoinPoints \cap uips
      BY <2>2, <1>2, OnlySome
    <3> QED
      BY <3>1, <3>2, <1>5
  <2> QED
    BY <2>1, <2>2
<1>8. Blocks' = Blocks /\ \A b : Number(b)' = Number(b)
  BY <1>1, NumbersKept DEF SameGraph, Blocks
<1>9. HomesOK'
  BY <1>1, HomesKept DEF LInv
<1>10. BodiesOK'
  BY <1>1, <1>7, <1>8 DEF LInv, BodiesOK, SameGraph, IsCond, BeforeJoins
<1>11. JoinsFall'
  BY <1>1, <1>7, <1>8 DEF LInv, JoinsFall, SameGraph, BeforeJoins
<1>12. ASSUME NEW b \in Blocks, NEW j \in JIPCandidates(b, OwnUIP(b))'
       PROVE  j \in JIPCandidates(b, uip(b)) /\ Number(j)' = Number(j)
  <2>1. /\ j \in Blocks /\ Number(j) > Number(b)
        /\ j = OwnUIP(b)' \/ (j \in DOMAIN JoinPoints' /\ ResumableFrom(j, b)')
    BY <1>12, <1>8 DEF JIPCandidates
  <2>2. ResumableFrom(j, b)' <=> ResumableFrom(j, b)
    BY <1>1, <1>8 DEF ResumableFrom, EnteredFromBefore, BranchesBack, Preds, Succs, SameGraph
  <2>3. j = OwnUIP(b)' => j = uip(b)
    <3>1. NoBlock \notin Blocks
      BY DEF NoBlock, Blocks
    <3>2. UIPOf(b)' = UIPOf(b)
      BY <1>1 DEF UIPOf, SameGraph
    <3> QED
      BY <3>1, <3>2, <2>1, <1>7 DEF OwnUIP
  <2> QED
    BY <2>1, <2>2, <2>3, <1>7, <1>8 DEF JIPCandidates
<1>13. ASSUME NEW b \in scanned \ stuck
       PROVE  /\ Number(found[b]) > Number(b)
              /\ \A j \in JIPCandidates(b, uip(b)) : Number(found[b]) <= Number(j)
  <2>1. JIPCandidates(b, uip(b)) # {} /\ b \in Blocks /\ LayoutOK
    BY <1>6, <1>1 DEF stuck, GraphOK
  <2>2. JIPCandidates(b, uip(b)) \subseteq Blocks
    BY DEF JIPCandidates
  <2>3. found[b] \in JIPCandidates(b, uip(b))
    BY <2>1, <2>2, <1>3, FirstOfIn
  <2>4. \A j \in JIPCandidates(b, uip(b)) : Number(found[b]) <= Number(j)
    BY <2>1, <2>2, <1>3, FirstOfIn
  <2> QED
    BY <2>3, <2>4 DEF JIPCandidates
<1>14. ASSUME NEW b \in DOMAIN JIPs'
       PROVE  /\ b \in Blocks /\ Number(JIPs'[b]) > Number(b)
              /\ \A j \in JIPCandidates(b, uip(b)) : Number(JIPs'[b]) <= Number(j)
  <2>1. CASE b \in scanned \ stuck
    BY <2>1, <1>4, <1>6, <1>13
  <2>2. CASE b \notin scanned \ stuck
    <3>1. b \in DOMAIN JIPs /\ JIPs'[b] = JIPs[b] /\ b \in Blocks
      BY <2>2, <1>1, <1>4 DEF MapsOK
    <3> QED
      BY <3>1 DEF LInv, JIPsFirst, OwnUIP
  <2> QED
    BY <2>1, <2>2
<1>15. JIPsFirst'
  <2>1. \A b \in DOMAIN JIPs' : Number(JIPs[b])' > Number(b)'
    BY <1>14, <1>8
  <2>2. ASSUME NEW b \in DOMAIN JIPs', NEW j \in JIPCandidates(b, OwnUIP(b))'
        PROVE  Number(JIPs[b])' <= Number(j)'
    BY <2>2, <1>8, <1>12, <1>14
  <2> QED
    BY <2>1, <2>2, <1>1 DEF JIPsFirst
<1> QED
  BY <1>9, <1>10, <1>11, <1>15 DEF Rest

-----------------------------------------------------------------------------
(***************************************************************************)
(* A new block on a leg has the home of the block the leg went to, and is  *)
(* one further from it.                                                    *)
(***************************************************************************)
LEMMA RedirectingHomes ==
  ASSUME LInv, at \in DOMAIN SimdBranches, NEW leg \in 1 .. Len(term[at].succ),
         NEW new, NEW i \in Nat, i > 1, GraphOK', UNCHANGED source,
         Shifted(i, new), LegThrough(leg, new), BodyGrows(new)
  PROVE  HomesOK'
<1>1. PICK home, rank : Leads(home, rank)
  BY DEF LInv, HomesOK
<1>2. PICK old : old = term[at].succ[leg]
  OBVIOUS
<1>3. /\ GraphOK /\ at \in Blocks /\ body[at] # NoBlock
      /\ \A b \in Blocks : Number(b) \in Nat /\ Number(b) >= 1
  <2>1. GraphOK /\ at \in Blocks /\ body[at] # NoBlock
    BY DEF LInv, IInv, MapsOK, Positive, BodiesOK
  <2>2. \A b \in Blocks : Number(b) \in Blocks
    BY <2>1, GraphNumbers
  <2> QED
    BY <2>1, <2>2 DEF Blocks
<1>4. /\ old \in Blocks
      /\ \A b \in Blocks : \A k \in 1 .. Len(term[b].succ) : term[b].succ[k] \in Blocks
  BY <1>2, <1>3, LegsOf
<1>5. /\ Blocks' = Blocks \cup {new} /\ new \notin Blocks /\ Number(new)' = i
      /\ \A b \in Blocks : Number(b)' = IF Number(b) < i THEN Number(b) ELSE Number(b) + 1
  BY DEF Shifted
<1>6. PICK h, r : /\ h = [b \in Blocks' |-> IF b = new THEN home[old] ELSE home[b]]
                  /\ r = [b \in Blocks' |-> IF b = new THEN rank[old] + 1 ELSE rank[b]]
  OBVIOUS
<1>7. /\ h[new] = home[old] /\ r[new] = rank[old] + 1
      /\ \A b \in Blocks : h[b] = home[b] /\ r[b] = rank[b]
  BY <1>5, <1>6
<1>8. home \in [Blocks -> DOMAIN source.term] /\ rank \in [Blocks -> Nat]
  BY <1>1 DEF Leads
<1>9. h \in [Blocks' -> DOMAIN source.term] /\ r \in [Blocks' -> Nat]
  BY <1>4, <1>5, <1>6, <1>8
<1>10. ASSUME NEW b \in Blocks', Number(b)' = 1 PROVE h[b] = 1
  <2>1. b \in Blocks /\ Number(b) = 1
    BY <1>3, <1>5, <1>10
  <2> QED
    BY <2>1, <1>1, <1>7 DEF Leads
<1>11. Br(old).kind = "br" /\ Br(old).succ[1] = old
  BY DEF Br
<1>12. /\ term'[new] = Br(old) /\ body'[new] = NoBlock
       /\ \A b \in Blocks : body'[b] = body[b]
       /\ \A b \in Blocks \ {at} : term'[b] = term[b]
       /\ IsRedirected(term'[at], term[at], leg, new)
  BY <1>2 DEF LegThrough, BodyGrows
<1>13. ASSUME NEW b \in Blocks', body'[b] = NoBlock
       PROVE  /\ term'[b].kind = "br"
              /\ h[b] = h[term'[b].succ[1]]
              /\ r[term'[b].succ[1]] < r[b]
  <2>1. CASE b = new
    <3>1. rank[old] < rank[old] + 1
      BY <1>4, <1>8
    <3> QED
      BY <2>1, <3>1, <1>4, <1>7, <1>11, <1>12
  <2>2. CASE b # new
    <3>1. b \in Blocks /\ b # at /\ body[b] = NoBlock /\ term'[b] = term[b]
      BY <2>2, <1>3, <1>5, <1>12, <1>13
    <3>2. /\ term[b].kind = "br" /\ home[b] = home[term[b].succ[1]]
          /\ rank[term[b].succ[1]] < rank[b]
      BY <3>1, <1>1 DEF Leads
    <3>3. 1 \in 1 .. Len(term[b].succ)
      <4>1. Len(term[b].succ) >= 1 /\ Len(term[b].succ) \in Nat
        BY <3>1, <3>2, <1>3, LegsOf
      <4> QED
        BY <4>1
    <3>4. term[b].succ[1] \in Blocks
      BY <3>1, <3>3, <1>4
    <3> QED
      BY <3>1, <3>2, <3>4, <1>7
  <2> QED
    BY <2>1, <2>2
<1>14. ASSUME NEW b \in Blocks', body'[b] # NoBlock
       PROVE  h[b] = body'[b] /\ IsKept(term'[b], source.term[body'[b]], h)
  <2>1. b \in Blocks /\ body'[b] = body[b] /\ body[b] # NoBlock
    BY <1>5, <1>12, <1>14
  <2>2. home[b] = body[b] /\ IsKept(term[b], source.term[body[b]], home)
    BY <2>1, <1>1 DEF Leads
  <2>3. PICK t, s : t = term[b] /\ s = source.term[body[b]]
    OBVIOUS
  <2>4. IsKept(t, s, home) /\ \A k \in 1 .. Len(t.succ) : t.succ[k] \in Blocks
    BY <2>1, <2>2, <2>3, <1>4
  <2>5. CASE b # at
    <3>1. term'[b] = t
      BY <2>1, <2>3, <2>5, <1>12
    <3>2. IsKept(t, s, h)
      BY <2>4, <1>7 DEF IsKept
    <3> QED
      BY <3>1, <3>2, <2>1, <2>2, <2>3, <1>7
  <2>6. CASE b = at
    <3>1. PICK u : u = term'[at]
      OBVIOUS
    <3>2. IsRedirected(u, t, leg, new) /\ t.succ[leg] = old /\ leg \in 1 .. Len(t.succ)
      BY <3>1, <2>3, <2>6, <1>2, <1>12
    <3>3. /\ u.kind = t.kind /\ u.width = t.width /\ u.inv = t.inv /\ Len(u.succ) = Len(t.succ)
          /\ \A k \in 1 .. Len(t.succ) : h[u.succ[k]] = home[t.succ[k]]
      <4>1. /\ u.kind = t.kind /\ u.width = t.width /\ u.inv = t.inv /\ Len(u.succ) = Len(t.succ)
            /\ u.succ[leg] = new
            /\ \A k \in 1 .. Len(t.succ) : k # leg => u.succ[k] = t.succ[k]
        BY <3>2 DEF IsRedirected
      <4> QED
        BY <4>1, <3>2, <2>4, <1>7
    <3>4. IsKept(u, s, h)
      <4>1. \A k : SourceLeg(u, k) = SourceLeg(t, k)
        BY <3>3 DEF SourceLeg
      <4> QED
        BY <4>1, <3>3, <2>4 DEF IsKept
    <3> QED
      BY <3>1, <3>4, <2>1, <2>2, <2>3, <2>6, <1>7
  <2> QED
    BY <2>5, <2>6
<1>15. Leads(h, r)'
  BY <1>9, <1>10, <1>13, <1>14 DEF Leads
<1> QED
  BY <1>15 DEF HomesOK

LEMMA RedirectingRest ==
  ASSUME LInv, phase = "fixSimdBranches", at \in DOMAIN SimdBranches,
         NEW leg \in 1 .. Len(term[at].succ), NEW new, NEW i \in Nat, i > 1,
         GraphOK', Shifted(i, new), LegThrough(leg, new), BodyGrows(new),
         UNCHANGED <<fixFrame, SimdBranches>>,
         phase' \in {"fixSimdBranches", "findAndSplitJoinPoints"}
  PROVE  Rest'
<1>1. HomesOK'
  BY RedirectingHomes DEF fixFrame
<1>2. /\ DOMAIN JoinPoints' = {} /\ DOMAIN JIPs' = {}
      /\ phase' \notin BeforeJoins
  BY DEF LInv, JoinsFall, JIPsFirst, fixFrame, BeforeJoins
<1>3. BodiesOK'
  <2>1. /\ DOMAIN SimdBranches' = DOMAIN SimdBranches /\ DOMAIN SimdBranches \subseteq Blocks
        /\ \A b \in DOMAIN SimdBranches : body[b] # NoBlock
        /\ \A b \in Blocks : term[b].inv => b \in DOMAIN SimdBranches /\ IsCond(b)
    BY DEF LInv, IInv, MapsOK, Positive, BodiesOK
  <2>2. /\ Blocks' = Blocks \cup {new} /\ \A b \in Blocks : body'[b] = body[b]
        /\ \A b \in Blocks : term'[b].inv = term[b].inv /\ term'[b].kind = term[b].kind
    <3>1. at \in Blocks
      BY <2>1
    <3> QED
      BY <3>1 DEF Shifted, BodyGrows, LegThrough, IsRedirected
  <2>3. term'[new].inv = FALSE
    BY DEF LegThrough, Br
  <2> QED
    BY <2>1, <2>2, <2>3, <1>2 DEF BodiesOK, IsCond
<1> QED
  BY <1>1, <1>2, <1>3 DEF Rest, JoinsFall, JIPsFirst

LEMMA InsertingBelowRest ==
  ASSUME LInv, AtSimd, NEW leg \in 1 .. Len(term[at].succ), NEW new, new = Fresh,
         NEW i \in 1 .. Len(layout) + 1, i > Number(at),
         layout' = InsertAt(layout, i, new), term' = Redirected(leg, new),
         body' = Append(body, NoBlock), UNCHANGED <<fixFrame, SimdBranches>>,
         phase' \in {"fixSimdBranches", "findAndSplitJoinPoints"}
  PROVE  Rest'
<1>1. phase = "fixSimdBranches" /\ at \in Blocks /\ UNCHANGED source /\ GraphOK
  BY DEF AtSimd, fixFrame, LInv, IInv, PlaceOK
<1>2. GraphOK' /\ Shifted(i, new) /\ LegThrough(leg, new) /\ BodyGrows(new)
  BY <1>1, Redirecting
<1>3. i \in Nat /\ i > 1
  <2>1. Number(at) \in 1 .. Len(layout) /\ Len(layout) \in Nat
    BY <1>1, Numbers DEF GraphOK, Blocks
  <2> QED
    BY <2>1
<1> QED
  BY <1>1, <1>2, <1>3, RedirectingRest DEF AtSimd

LEMMA InsertBackwardRest == LInv /\ InsertBackward => Rest'
<1> SUFFICES ASSUME LInv, InsertBackward PROVE Rest'
  OBVIOUS
<1>1. AtSimd /\ at \in Blocks /\ GraphOK /\ phase = "fixSimdBranches"
  BY DEF InsertBackward, AtSimd, LInv, IInv, PlaceOK
<1>2. PICK leg : leg = Least(BackwardLegs)
  OBVIOUS
<1>3. leg \in 1 .. Len(term[at].succ)
  <2>1. BackwardLegs \subseteq 1 .. Len(term[at].succ) /\ BackwardLegs \subseteq Nat
    BY <1>1, LegsOf DEF BackwardLegs
  <2> QED
    BY <2>1, <1>2, LeastIn DEF InsertBackward
<1>4. PICK new : new = Fresh
  OBVIOUS
<1>5. PICK i : i = Number(at) + 1
  OBVIOUS
<1>6. i \in 1 .. Len(layout) + 1 /\ i > Number(at)
  <2>1. Number(at) \in 1 .. Len(layout) /\ Len(layout) \in Nat
    BY <1>1, Numbers DEF GraphOK, Blocks
  <2> QED
    BY <2>1, <1>5
<1>7. layout' = InsertAt(layout, i, new) /\ term' = Redirected(leg, new)
  BY <1>2, <1>4, <1>5 DEF InsertBackward, InsertAfter
<1>8. /\ body' = Append(body, NoBlock) /\ UNCHANGED <<fixFrame, SimdBranches>>
      /\ phase' \in {"fixSimdBranches", "findAndSplitJoinPoints"}
  BY <1>1 DEF InsertBackward
<1> QED
  BY <1>1, <1>3, <1>4, <1>6, <1>7, <1>8, InsertingBelowRest

LEMMA InsertLoopEndRest == LInv /\ InsertLoopEnd => Rest'
<1> SUFFICES ASSUME LInv, InsertLoopEnd PROVE Rest'
  OBVIOUS
<1>1. AtSimd /\ at \in Blocks /\ GraphOK /\ phase = "fixSimdBranches"
  BY DEF InsertLoopEnd, AtSimd, LInv, IInv, PlaceOK
<1>2. PICK leg : leg = Least(CriticalLegs)
  OBVIOUS
<1>3. leg \in 1 .. Len(term[at].succ)
  <2>1. CriticalLegs \subseteq 1 .. Len(term[at].succ) /\ CriticalLegs \subseteq Nat
    BY <1>1, LegsOf DEF CriticalLegs
  <2> QED
    BY <2>1, <1>2, LeastIn DEF InsertLoopEnd
<1>4. PICK new : new = Fresh
  OBVIOUS
<1>5. PICK i : i = Number(term[at].succ[leg])
  OBVIOUS
<1>6. i \in 1 .. Len(layout) + 1 /\ i > Number(at)
  <2>1. i \in 1 .. Len(layout) /\ Len(layout) \in Nat
    BY <1>1, <1>3, <1>5, LegsOf DEF GraphOK, LayoutOK, Blocks
  <2>2. Forward(at)
    BY <1>1, NoneBackward DEF InsertLoopEnd
  <2> QED
    BY <2>1, <2>2, <1>3, <1>5 DEF Forward
<1>7. layout' = InsertAt(layout, i, new) /\ term' = Redirected(leg, new)
  BY <1>2, <1>4, <1>5 DEF InsertLoopEnd, InsertBefore
<1>8. /\ body' = Append(body, NoBlock) /\ UNCHANGED <<fixFrame, SimdBranches>>
      /\ phase' \in {"fixSimdBranches", "findAndSplitJoinPoints"}
  BY <1>1 DEF InsertLoopEnd
<1> QED
  BY <1>1, <1>3, <1>4, <1>6, <1>7, <1>8, InsertingBelowRest

LEMMA InsertFallthroughRest == LInv /\ InsertFallthrough => Rest'
<1> SUFFICES ASSUME LInv, InsertFallthrough PROVE Rest'
  OBVIOUS
<1>1. AtSimd /\ at \in Blocks /\ GraphOK /\ phase = "fixSimdBranches" /\ IsCond(at)
  BY DEF InsertFallthrough, LegsFixed, AtSimd, LInv, IInv, PlaceOK
<1>2. 2 \in 1 .. Len(term[at].succ)
  <2>1. Len(term[at].succ) = 2
    BY <1>1, LegsOf DEF IsCond
  <2> QED
    BY <2>1
<1>3. PICK new : new = Fresh
  OBVIOUS
<1>4. PICK i : i = Number(at) + 1
  OBVIOUS
<1>5. i \in 1 .. Len(layout) + 1 /\ i > Number(at)
  <2>1. Number(at) \in 1 .. Len(layout) /\ Len(layout) \in Nat
    BY <1>1, Numbers DEF GraphOK, Blocks
  <2> QED
    BY <2>1, <1>4
<1>6. layout' = InsertAt(layout, i, new) /\ term' = Redirected(2, new)
  BY <1>3, <1>4 DEF InsertFallthrough, InsertAfter
<1>7. /\ body' = Append(body, NoBlock) /\ UNCHANGED <<fixFrame, SimdBranches>>
      /\ phase' \in {"fixSimdBranches", "findAndSplitJoinPoints"}
  BY <1>1, MovesOn DEF InsertFallthrough
<1> QED
  BY <1>1, <1>2, <1>3, <1>5, <1>6, <1>7, InsertingBelowRest

\* The legs of a conditional branch and its condition are inverted together.
LEMMA InvertBranchRest == LInv /\ InvertBranch => Rest'
<1> SUFFICES ASSUME LInv, InvertBranch PROVE Rest'
  OBVIOUS
<1>1. /\ phase = "fixSimdBranches" /\ at \in Blocks /\ at \in DOMAIN SimdBranches
      /\ GraphOK /\ IsCond(at) /\ body[at] # NoBlock
      /\ UNCHANGED <<fixFrame, layout, body, SimdBranches, source>>
      /\ phase' \in {"fixSimdBranches", "findAndSplitJoinPoints"}
  BY MovesOn DEF InvertBranch, LegsFixed, AtSimd, LInv, IInv, PlaceOK, fixFrame, BodiesOK
<1>2. /\ \A b \in Blocks \ {at} : term'[b] = term[b]
      /\ term'[at].kind = "cond" /\ term'[at].inv = ~term[at].inv
      /\ term'[at].width = term[at].width /\ Len(term'[at].succ) = 2
      /\ term'[at].succ[1] = term[at].succ[2] /\ term'[at].succ[2] = term[at].succ[1]
  BY <1>1, Inverting DEF InvertBranch
<1>3. Blocks' = Blocks /\ \A b : Number(b)' = Number(b)
  BY <1>1 DEF Blocks, Number
<1>4. term[at].kind = "cond" /\ Len(term[at].succ) = 2 /\ term[at].inv \in BOOLEAN
  <2>1. term[at] \in Terminators(Blocks)
    BY <1>1 DEF GraphOK
  <2> QED
    BY <2>1, <1>1, LegsOf, TerminatorFields DEF IsCond
<1>5. HomesOK'
  <2>1. PICK home, rank : Leads(home, rank)
    BY DEF LInv, HomesOK
  <2>2. PICK t, u, s : t = term[at] /\ u = term'[at] /\ s = source.term[body[at]]
    OBVIOUS
  <2>3. IsKept(t, s, home)
    BY <2>1, <2>2, <1>1 DEF Leads
  <2>4. IsKept(u, s, home)
    <3>1. /\ t.kind = "cond" /\ u.kind = "cond" /\ Len(t.succ) = 2 /\ Len(u.succ) = 2
          /\ t.inv \in BOOLEAN /\ u.inv = ~t.inv /\ u.width = t.width
          /\ u.succ[1] = t.succ[2] /\ u.succ[2] = t.succ[1]
      BY <2>2, <1>2, <1>4
    <3>2. /\ home[t.succ[1]] = s.succ[SourceLeg(t, 1)]
          /\ home[t.succ[2]] = s.succ[SourceLeg(t, 2)]
      BY <2>3, <3>1 DEF IsKept
    <3>3. SourceLeg(u, 1) = SourceLeg(t, 2) /\ SourceLeg(u, 2) = SourceLeg(t, 1)
      <4>1. CASE t.inv = TRUE
        <5>1. u.inv = FALSE
          BY <3>1, <4>1
        <5> QED
          BY <4>1, <5>1 DEF SourceLeg
      <4>2. CASE t.inv = FALSE
        <5>1. u.inv = TRUE
          BY <3>1, <4>2
        <5> QED
          BY <4>2, <5>1 DEF SourceLeg
      <4> QED
        BY <3>1, <4>1, <4>2
    <3>4. \A k \in 1 .. Len(u.succ) : k = 1 \/ k = 2
      BY <3>1
    <3> QED
      BY <2>3, <3>1, <3>2, <3>3, <3>4 DEF IsKept
  <2>5. \A b \in Blocks : body[b] = NoBlock => term'[b] = term[b]
    BY <1>1, <1>2
  <2>6. \A b \in Blocks : body[b] # NoBlock =>
          home[b] = body[b] /\ IsKept(term'[b], source.term[body[b]], home)
    BY <2>1, <2>2, <2>4, <1>2 DEF Leads
  <2>7. Leads(home, rank)'
    BY <2>1, <2>5, <2>6, <1>1, <1>3 DEF Leads
  <2> QED
    BY <2>7 DEF HomesOK
<1>6. BodiesOK'
  BY <1>1, <1>2, <1>3 DEF LInv, BodiesOK, IsCond, BeforeJoins
<1>7. JoinsFall' /\ JIPsFirst'
  BY <1>1 DEF LInv, JoinsFall, JIPsFirst, BeforeJoins, fixFrame
<1> QED
  BY <1>5, <1>6, <1>7 DEF Rest

(***************************************************************************)
(* Both blocks of a split have the home of the one that was split; twice   *)
(* the rank leaves room for the new one.                                   *)
(***************************************************************************)
LEMMA SplittingHomes ==
  ASSUME HomesOK, GraphOK, NEW jp \in Blocks, NEW new, UNCHANGED source,
         NEW i \in Nat, i = Number(jp) + 1, Shifted(i, new), SplitInto(jp, new)
  PROVE  HomesOK'
<1>1. PICK home, rank : Leads(home, rank)
  BY DEF HomesOK
<1>2. \A b \in Blocks : Number(b) \in Nat /\ Number(b) >= 1
  <2>1. \A b \in Blocks : Number(b) \in Blocks
    BY GraphNumbers
  <2> QED
    BY <2>1 DEF Blocks
<1>3. \A b \in Blocks : \A k \in 1 .. Len(term[b].succ) : term[b].succ[k] \in Blocks
  BY LegsOf
<1>4. /\ Blocks' = Blocks \cup {new} /\ new \notin Blocks /\ Number(new)' = i
      /\ \A b \in Blocks : Number(b)' = IF Number(b) < i THEN Number(b) ELSE Number(b) + 1
  BY DEF Shifted
<1>5. PICK h, r : /\ h = [b \in Blocks' |-> IF b = new THEN home[jp] ELSE home[b]]
                  /\ r = [b \in Blocks' |-> IF b = new THEN 2 * rank[jp]
                                            ELSE IF b = jp THEN 2 * rank[jp] + 1
                                            ELSE 2 * rank[b]]
  OBVIOUS
<1>6. home \in [Blocks -> DOMAIN source.term] /\ rank \in [Blocks -> Nat]
  BY <1>1 DEF Leads
<1>7. /\ h[new] = home[jp] /\ r[new] = 2 * rank[jp] /\ r[jp] = 2 * rank[jp] + 1
      /\ \A b \in Blocks : h[b] = home[b]
      /\ \A b \in Blocks \ {jp} : r[b] = 2 * rank[b]
  BY <1>4, <1>5
<1>8. h \in [Blocks' -> DOMAIN source.term] /\ r \in [Blocks' -> Nat]
  <2>1. \A b \in Blocks' : h[b] \in DOMAIN source.term
    BY <1>4, <1>6, <1>7
  <2>2. \A b \in Blocks' : r[b] \in Nat
    BY <1>4, <1>6, <1>7
  <2> QED
    BY <2>1, <2>2, <1>5
<1>9. ASSUME NEW b \in Blocks', Number(b)' = 1 PROVE h[b] = 1
  <2>1. b \in Blocks /\ Number(b) = 1
    BY <1>2, <1>4, <1>9
  <2> QED
    BY <2>1, <1>1, <1>7 DEF Leads
<1>10. Br(new).kind = "br" /\ Br(new).succ[1] = new
  BY DEF Br
<1>11. /\ term'[jp] = Br(new) /\ body'[jp] = NoBlock
       /\ term'[new] = term[jp] /\ body'[new] = body[jp]
       /\ \A b \in Blocks \ {jp} : term'[b] = term[b] /\ body'[b] = body[b]
  BY DEF SplitInto
<1>12. ASSUME NEW b \in Blocks, body[b] = NoBlock
       PROVE  /\ term[b].kind = "br" /\ term[b].succ[1] \in Blocks
              /\ h[b] = h[term[b].succ[1]]
              /\ r[term[b].succ[1]] < 2 * rank[b]
  <2>1. /\ term[b].kind = "br" /\ home[b] = home[term[b].succ[1]]
        /\ rank[term[b].succ[1]] < rank[b]
    BY <1>1, <1>12 DEF Leads
  <2>2. term[b].succ[1] \in Blocks
    <3>1. Len(term[b].succ) >= 1 /\ Len(term[b].succ) \in Nat
      BY <2>1, LegsOf
    <3>2. 1 \in 1 .. Len(term[b].succ)
      BY <3>1
    <3> QED
      BY <3>2, <1>3
  <2>3. PICK q \in Blocks : q = term[b].succ[1]
    BY <2>2
  <2>4. rank[q] \in Nat /\ rank[b] \in Nat /\ rank[q] < rank[b]
    BY <2>1, <2>3, <1>6
  <2>5. r[q] < 2 * rank[b]
    <3>1. r[q] = 2 * rank[q] \/ r[q] = 2 * rank[q] + 1
      BY <1>7
    <3> QED
      BY <2>4, <3>1
  <2> QED
    BY <2>1, <2>3, <2>5, <1>7
<1>13. ASSUME NEW b \in Blocks', body'[b] = NoBlock
       PROVE  /\ term'[b].kind = "br"
              /\ h[b] = h[term'[b].succ[1]]
              /\ r[term'[b].succ[1]] < r[b]
  <2>1. CASE b = jp
    <3>1. 2 * rank[jp] < 2 * rank[jp] + 1
      BY <1>6
    <3> QED
      BY <2>1, <3>1, <1>7, <1>10, <1>11
  <2>2. CASE b = new
    <3>1. body[jp] = NoBlock
      BY <2>2, <1>11, <1>13
    <3> QED
      BY <2>2, <3>1, <1>7, <1>11, <1>12
  <2>3. CASE b # jp /\ b # new
    <3>1. b \in Blocks /\ body[b] = NoBlock /\ term'[b] = term[b] /\ r[b] = 2 * rank[b]
      BY <2>3, <1>4, <1>7, <1>11, <1>13
    <3> QED
      BY <3>1, <1>12
  <2> QED
    BY <2>1, <2>2, <2>3
<1>14. ASSUME NEW b \in Blocks, body[b] # NoBlock
       PROVE  home[b] = body[b] /\ IsKept(term[b], source.term[body[b]], h)
  <2>1. home[b] = body[b] /\ IsKept(term[b], source.term[body[b]], home)
    BY <1>1, <1>14 DEF Leads
  <2> QED
    BY <2>1, <1>3, <1>7 DEF IsKept
<1>15. ASSUME NEW b \in Blocks', body'[b] # NoBlock
       PROVE  h[b] = body'[b] /\ IsKept(term'[b], source.term[body'[b]], h)
  <2>1. CASE b = new
    BY <2>1, <1>7, <1>11, <1>14, <1>15
  <2>2. CASE b # new
    <3>1. b \in Blocks \ {jp}
      BY <2>2, <1>4, <1>11, <1>15
    <3> QED
      BY <3>1, <1>7, <1>11, <1>14, <1>15
  <2> QED
    BY <2>1, <2>2
<1>16. Leads(h, r)'
  BY <1>8, <1>9, <1>13, <1>15 DEF Leads
<1> QED
  BY <1>16 DEF HomesOK

LEMMA SplitJoinPointRest == LInv /\ SplitJoinPoint => Rest'
<1> SUFFICES ASSUME LInv, SplitJoinPoint PROVE Rest'
  OBVIOUS
<1>1. /\ phase = "findAndSplitJoinPoints" /\ UnsplitJoinPoints # {}
      /\ UNCHANGED <<source, JIPs, phase>>
      /\ GraphOK /\ LayoutOK /\ MapsOK /\ Marked
  BY DEF SplitJoinPoint, LInv, IInv, GraphOK, Marked
<1>2. PICK jp : jp = FirstOf(UnsplitJoinPoints)
  OBVIOUS
<1>3. jp \in UnsplitJoinPoints /\ jp \in Blocks /\ jp \notin DOMAIN JoinPoints
  <2>1. UnsplitJoinPoints \subseteq Blocks
    BY <1>1, UIPs DEF UnsplitJoinPoints
  <2>2. jp \in UnsplitJoinPoints
    BY <1>1, <1>2, <2>1, FirstOfIn
  <2> QED
    BY <2>1, <2>2 DEF UnsplitJoinPoints
<1>4. PICK width : SplitWithWidth(jp, width)
  BY <1>2 DEF SplitJoinPoint
<1>5. PICK new : new = Fresh
  OBVIOUS
<1>6. GraphOK' /\ Shifted(Number(jp) + 1, new) /\ SplitInto(jp, new)
  <2>1. /\ layout' = InsertAfter(jp, new)
        /\ term' = Entered([term EXCEPT ![jp] = Br(new)], new, term[jp])
        /\ body' = Append([body EXCEPT ![jp] = NoBlock], body[jp])
    BY <1>4, <1>5 DEF SplitWithWidth
  <2> QED
    BY <1>1, <1>3, <1>5, <2>1, Splitting
<1>7. PICK i \in Nat : i = Number(jp) + 1
  BY <1>1, <1>3, GraphNumbers
<1>8. /\ Blocks' = Blocks \cup {new} /\ new \notin Blocks /\ Number(new)' = i
      /\ \A b \in Blocks : Number(b)' = IF Number(b) < i THEN Number(b) ELSE Number(b) + 1
      /\ \A b \in Blocks : Number(b) \in Nat
  BY <1>1, <1>6, <1>7, GraphNumbers DEF Shifted
<1>9. SplitMaps(jp, new, width)
  BY <1>1, <1>3, <1>4, <1>5, <1>8, SplitMapsIs
<1>10. HomesOK'
  BY <1>1, <1>3, <1>6, <1>7, SplittingHomes DEF LInv
<1>11. /\ term'[jp] = Br(new) /\ body'[jp] = NoBlock
       /\ term'[new] = term[jp] /\ body'[new] = body[jp]
       /\ \A b \in Blocks \ {jp} : term'[b] = term[b] /\ body'[b] = body[b]
       /\ Br(new).inv = FALSE /\ Br(new).kind = "br" /\ Br(new).succ[1] = new
  BY <1>6 DEF SplitInto, Br
<1>12. BodiesOK'
  <2>1. phase' \notin BeforeJoins
    BY <1>1 DEF BeforeJoins
  <2>2. /\ \A b \in DOMAIN SimdBranches : body[b] # NoBlock /\ b \in Blocks
        /\ \A b \in Blocks : term[b].inv => b \in DOMAIN SimdBranches /\ IsCond(b)
    BY <1>1 DEF LInv, BodiesOK, MapsOK, Positive
  <2>3. \A b \in DOMAIN SimdBranches' :
          \/ (b = new /\ jp \in DOMAIN SimdBranches)
          \/ b \in DOMAIN SimdBranches \ {jp}
    BY <1>9 DEF SplitMaps
  <2>4. \A b \in DOMAIN SimdBranches' : body'[b] # NoBlock
    BY <2>2, <2>3, <1>11
  <2>5. \A b \in Blocks' : term'[b].inv => b \in DOMAIN SimdBranches' /\ IsCond(b)'
    <3>1. ASSUME NEW b \in Blocks', term'[b].inv, b = new
          PROVE  b \in DOMAIN SimdBranches' /\ IsCond(b)'
      <4>1. jp \in DOMAIN SimdBranches /\ IsCond(jp)
        BY <3>1, <2>2, <1>3, <1>11
      <4> QED
        BY <3>1, <4>1, <1>9, <1>11 DEF SplitMaps, IsCond
    <3>2. ASSUME NEW b \in Blocks', term'[b].inv, b # new
          PROVE  b \in DOMAIN SimdBranches' /\ IsCond(b)'
      <4>1. b \in Blocks
        BY <3>2, <1>8
      <4>2. b # jp
        BY <3>2, <1>11
      <4>3. term'[b] = term[b]
        BY <4>1, <4>2, <1>11
      <4>4. b \in DOMAIN SimdBranches /\ IsCond(b)
        BY <3>2, <4>1, <4>3, <2>2
      <4> QED
        BY <4>2, <4>3, <4>4, <1>9 DEF SplitMaps, IsCond
    <3> QED
      BY <3>1, <3>2
  <2> QED
    BY <2>1, <2>4, <2>5 DEF BodiesOK
<1>13. ASSUME NEW j \in DOMAIN JoinPoints'
       PROVE  term'[j].kind = "br" /\ Number(term[j].succ[1])' = Number(j)' + 1
  <2>1. CASE j = jp
    <3>1. Number(jp)' = Number(jp)
      BY <1>3, <1>7, <1>8
    <3> QED
      BY <2>1, <3>1, <1>7, <1>8, <1>11
  <2>2. CASE j # jp
    <3>1. j \in DOMAIN JoinPoints /\ j \in Blocks /\ term'[j] = term[j]
      BY <2>2, <1>1, <1>9, <1>11 DEF SplitMaps, MapsOK, Positive
    <3>2. PICK q : q = term[j].succ[1]
      OBVIOUS
    <3>3. term[j].kind = "br" /\ Number(q) = Number(j) + 1
      BY <3>1, <3>2 DEF LInv, JoinsFall
    <3>4. q \in Blocks
      <4>1. Len(term[j].succ) >= 1 /\ Len(term[j].succ) \in Nat
        BY <1>1, <3>1, <3>3, LegsOf
      <4>2. 1 \in 1 .. Len(term[j].succ)
        BY <4>1
      <4> QED
        BY <1>1, <3>1, <3>2, <4>2, LegsOf
    <3>5. Number(j) # Number(jp)
      BY <2>2, <3>1, <1>1, <1>3, Numbers
    <3>6. Number(q)' = Number(j)' + 1
      BY <3>1, <3>3, <3>4, <3>5, <1>3, <1>7, <1>8
    <3> QED
      BY <3>1, <3>2, <3>3, <3>6
  <2> QED
    BY <2>1, <2>2
<1>14. JoinsFall' /\ JIPsFirst'
  BY <1>1, <1>13 DEF LInv, JoinsFall, JIPsFirst, BeforeJoins
<1> QED
  BY <1>10, <1>12, <1>14 DEF Rest

-----------------------------------------------------------------------------
\* The lowered function is what lowerSimdCF makes of each block.
LEMMA NextCodeOK == CodeOK /\ [Next]_lowerVars => CodeOK'
<1> SUFFICES ASSUME CodeOK, [Next]_lowerVars PROVE CodeOK'
  OBVIOUS
<1>1. ASSUME UNCHANGED <<layout, term, SimdBranches, PredicatedBlocks, JoinPoints, JIPs>>
      PROVE  [b \in Blocks |-> LoweredBlock(b)]' = [b \in Blocks |-> LoweredBlock(b)]
  <2>1. Blocks' = Blocks
    BY <1>1 DEF Blocks
  <2>2. ASSUME NEW b PROVE LoweredBlock(b)' = LoweredBlock(b)
    <3>1. /\ LoweredGoto(b)' = LoweredGoto(b)
          /\ LoweredJoin(b)' = LoweredJoin(b)
          /\ Unlowered(b)' = Unlowered(b)
      BY <1>1 DEF LoweredGoto, LoweredJoin, Unlowered, GotoWidth, WidthIn, UIPOf, NextNode, Number
    <3> QED
      BY <3>1, <1>1 DEF LoweredBlock
  <2> QED
    BY <2>1, <2>2
<1>2. CASE LowerSimdCF
  <2>1. /\ code' = [b \in Blocks |-> LoweredBlock(b)]
        /\ UNCHANGED <<layout, term, SimdBranches, PredicatedBlocks, JoinPoints, JIPs>>
    BY <1>2 DEF LowerSimdCF, LoweredBlock
  <2> QED
    BY <2>1, <1>1 DEF CodeOK
<1>3. CASE Next /\ ~LowerSimdCF
  BY <1>3, OnlyLowerLowers DEF CodeOK
<1>4. CASE UNCHANGED lowerVars
  <2>1. UNCHANGED <<layout, term, SimdBranches, PredicatedBlocks, JoinPoints, JIPs, phase, code>>
    BY <1>4 DEF lowerVars, passVars
  <2> QED
    BY <2>1, <1>1 DEF CodeOK
<1> QED
  BY <1>2, <1>3, <1>4

LEMMA NextLInv == LInv /\ [Next]_lowerVars => LInv'
<1> SUFFICES ASSUME LInv, [Next]_lowerVars PROVE LInv'
  OBVIOUS
<1>1. IInv' /\ JoinsOK' /\ CodeOK'
  BY NextIInv, NextJoinsOK, NextCodeOK DEF LInv
<1>2. Rest'
  <2>1. CASE UNCHANGED lowerVars
    <3>1. SameGraph /\ UNCHANGED <<JIPs, JoinPoints, SimdBranches, phase>>
      BY <2>1 DEF lowerVars, passVars, SameGraph
    <3> QED
      BY <3>1, SameGraphKeeps DEF Rest
  <2>2. CASE FixSimdBranches
    BY <2>2, SkipBlockRest, UnsimdBackwardRest, InsertBackwardRest, InsertLoopEndRest,
       KeepBranchRest, InvertBranchRest, InsertFallthroughRest DEF FixSimdBranches
  <2> QED
    BY <2>1, <2>2, FindSimdBranchesRest, DeterminePredicatedBlocksRest, MarkPredicatedBranchesRest,
       SplitJoinPointRest, FormGroupsRest, DetermineJIPsRest, PredicateCodeRest, LowerSimdCFRest
       DEF Next
<1> QED
  BY <1>1, <1>2 DEF LInv, Rest

-----------------------------------------------------------------------------
(***************************************************************************)
(* What the lowering leaves: the gotos, the joins and the other blocks of  *)
(* the lowered function, with the graph of the source behind them.         *)
(***************************************************************************)
IsFirstAfter(d, b, uip) ==
  /\ d \in Blocks /\ Number(d) > Number(b)
  /\ \A j \in JIPCandidates(b, uip) : Number(d) <= Number(j)

GotoOK(b) ==
  /\ code[b].op = "goto" /\ code[b].lanes = Lanes(Width)
  /\ code[b].uip = UIPOf(b) /\ UIPOf(b) \in DOMAIN JoinPoints
  /\ Number(UIPOf(b)) > Number(b)
  /\ code[b].taken = JIPs[b] /\ IsFirstAfter(JIPs[b], b, UIPOf(b))
  /\ code[b].next \in Blocks /\ Number(code[b].next) = Number(b) + 1
  /\ term[b].kind # "ret" /\ body[b] # NoBlock
  /\ IsCond(b) => term[b].succ[2] = code[b].next

JoinOK(j) ==
  /\ code[j].op = "join" /\ code[j].lanes = Lanes(Width)
  /\ body[j] = NoBlock
  /\ code[j].next = term[j].succ[1] /\ Number(code[j].next) = Number(j) + 1
  /\ code[j].taken # NoBlock => IsFirstAfter(code[j].taken, j, NoBlock)

ScalarOK(b) ==
  /\ ~term[b].inv
  /\ term[b].kind = "ret" => code[b].op = "ret"
  /\ term[b].kind = "br" => code[b].op = "br" /\ code[b].next = term[b].succ[1]
  /\ term[b].kind = "cond" =>
       /\ code[b].op = "brcond"
       /\ code[b].taken = term[b].succ[1] /\ code[b].next = term[b].succ[2]

Static ==
  /\ GraphOK /\ HomesOK
  /\ DOMAIN SimdBranches \subseteq Blocks /\ DOMAIN JoinPoints \subseteq Blocks
  /\ DOMAIN SimdBranches \cap DOMAIN JoinPoints = {}
  /\ \A b \in DOMAIN SimdBranches : GotoOK(b)
  /\ \A b \in Blocks : term[b].inv => IsCond(b)
  /\ \A j \in DOMAIN JoinPoints : JoinOK(j)
  /\ \A b \in Blocks \ (DOMAIN SimdBranches \cup DOMAIN JoinPoints) : ScalarOK(b)

LEMMA OneWidthOnly ==
  ASSUME source \in SourceFunctions
  PROVE  Widths \ {0} \subseteq {Width}
<1>1. /\ source.cmWidth \in {0, Width}
      /\ \A b \in DOMAIN source.term : source.term[b].width \in {0, Width}
  BY ExecAssumption
<1> QED
  BY <1>1 DEF Widths

LEMMA LoweredStatic ==
  ASSUME LInv, phase = "lowered"
  PROVE  Static
<1>1. /\ GraphOK /\ LayoutOK /\ MapsOK /\ Marked /\ FixedOK /\ BranchesFixed /\ JIPsOK
      /\ HomesOK /\ BodiesOK /\ JoinsFall /\ JIPsFirst
      /\ DOMAIN SimdBranches \cap DOMAIN JoinPoints = {}
      /\ code = [b \in Blocks |-> LoweredBlock(b)]
  BY DEF LInv, IInv, GraphOK, Marked, BranchesFixed, JoinsOK, CodeOK
<1>2. /\ DOMAIN SimdBranches \subseteq Blocks /\ DOMAIN JoinPoints \subseteq Blocks
      /\ Widths \ {0} \subseteq {Width}
      /\ \A b \in DOMAIN JoinPoints : JoinPoints[b] = Width
      /\ \A b \in DOMAIN SimdBranches : GotoWidth(b) = Width
  <2>1. Widths \ {0} \subseteq {Width}
    BY <1>1, OneWidthOnly DEF GraphOK
  <2>2. \A b \in DOMAIN SimdBranches : GotoWidth(b) \in Widths \ {0}
    BY <1>1, GotoWidths
  <2> QED
    BY <1>1, <2>1, <2>2 DEF MapsOK, Positive
<1>3. \A op, w, u, t, n : LET i == Instruction(op, w, u, t, n)
                          IN  /\ i.op = op /\ i.lanes = Lanes(w) /\ i.uip = u
                              /\ i.taken = t /\ i.next = n
  BY DEF Instruction
<1>4. ASSUME NEW b \in DOMAIN SimdBranches PROVE GotoOK(b)
  <2>1. b \in Blocks /\ code[b] = LoweredGoto(b)
    BY <1>1, <1>2 DEF LoweredBlock
  <2>2. /\ code[b].op = "goto" /\ code[b].lanes = Lanes(Width) /\ code[b].uip = UIPOf(b)
        /\ code[b].taken = JIPs[b] /\ code[b].next = NextNode(b)
    BY <2>1, <1>2, <1>3 DEF LoweredGoto
  <2>3. UIPOf(b) \in DOMAIN JoinPoints /\ UIPOf(b) \in Blocks /\ Forward(b) /\ Falls(b)
    BY <1>1, <1>2 DEF FixedOK
  <2>4. Number(UIPOf(b)) > Number(b)
    BY <2>3, <1>1, UIPs DEF Forward, UIPOf
  <2>5. term[b].kind # "ret" /\ body[b] # NoBlock
    BY <1>1 DEF MapsOK, BodiesOK
  <2>6. IsFirstAfter(JIPs[b], b, UIPOf(b))
    <3>1. b \in DOMAIN JIPs /\ JIPs[b] \in DOMAIN JoinPoints
      BY <1>1 DEF JIPsOK, LInv
    <3>2. /\ Number(JIPs[b]) > Number(b)
          /\ \A j \in JIPCandidates(b, OwnUIP(b)) : Number(JIPs[b]) <= Number(j)
      BY <3>1, <1>1 DEF JIPsFirst
    <3>3. OwnUIP(b) = UIPOf(b)
      BY DEF OwnUIP
    <3> QED
      BY <3>1, <3>2, <3>3, <1>2 DEF IsFirstAfter
  <2>7. /\ Number(b) \in Nat /\ Number(b) # Len(layout)
        /\ NextNode(b) \in Blocks /\ Number(NextNode(b)) = Number(b) + 1
    <3>1. /\ Number(b) \in 1 .. Len(layout) /\ Number(UIPOf(b)) \in 1 .. Len(layout)
          /\ Len(layout) \in Nat
      BY <1>1, <2>1, <2>3, Numbers DEF Blocks
    <3>2. Number(b) # Len(layout)
      BY <2>4, <3>1
    <3>3. Number(b) + 1 \in Blocks /\ NextNode(b) = layout[Number(b) + 1]
      BY <3>1, <3>2 DEF NextNode, Blocks
    <3> QED
      BY <1>1, <3>1, <3>2, <3>3, Numbers
  <2>8. IsCond(b) => term[b].succ[2] = NextNode(b)
    <3>1. SUFFICES ASSUME IsCond(b) PROVE term[b].succ[2] = NextNode(b)
      OBVIOUS
    <3>2. Len(term[b].succ) = 2
      BY <1>1, <2>1, <3>1, LegsOf DEF IsCond
    <3>3. 2 \in 1 .. Len(term[b].succ)
      BY <3>2
    <3>4. term[b].succ[2] \in Blocks
      BY <1>1, <2>1, <3>3, LegsOf
    <3>5. Number(term[b].succ[2]) = Number(b) + 1
      BY <2>3, <3>1 DEF Falls
    <3> QED
      BY <1>1, <2>1, <3>4, <3>5, NextNodes
  <2> QED
    BY <2>2, <2>3, <2>4, <2>5, <2>6, <2>7, <2>8 DEF GotoOK
<1>5. ASSUME NEW j \in DOMAIN JoinPoints PROVE JoinOK(j)
  <2>1. j \in Blocks /\ j \notin DOMAIN SimdBranches /\ code[j] = LoweredJoin(j)
    BY <1>1, <1>2 DEF LoweredBlock
  <2>2. /\ code[j].op = "join" /\ code[j].lanes = Lanes(Width)
        /\ code[j].taken = WidthIn(JIPs, j) /\ code[j].next = NextNode(j)
    BY <2>1, <1>2, <1>3 DEF LoweredJoin
  <2>3. term[j].kind = "br" /\ Number(term[j].succ[1]) = Number(j) + 1 /\ body[j] = NoBlock
    BY <1>1 DEF JoinsFall, MapsOK
  <2>4. term[j].succ[1] \in Blocks
    <3>1. Len(term[j].succ) >= 1 /\ Len(term[j].succ) \in Nat
      BY <1>1, <2>1, <2>3, LegsOf
    <3>2. 1 \in 1 .. Len(term[j].succ)
      BY <3>1
    <3> QED
      BY <1>1, <2>1, <3>2, LegsOf
  <2>5. NextNode(j) = term[j].succ[1]
    BY <1>1, <2>1, <2>3, <2>4, NextNodes
  <2>6. ASSUME code[j].taken # NoBlock PROVE IsFirstAfter(code[j].taken, j, NoBlock)
    <3>1. j \in DOMAIN JIPs /\ code[j].taken = JIPs[j]
      BY <2>2, <2>6 DEF WidthIn, NoBlock
    <3>2. /\ Number(JIPs[j]) > Number(j)
          /\ \A d \in JIPCandidates(j, OwnUIP(j)) : Number(JIPs[j]) <= Number(d)
      BY <3>1, <1>1 DEF JIPsFirst
    <3>3. OwnUIP(j) = NoBlock /\ JIPs[j] \in Blocks
      BY <2>1, <3>1, <1>1 DEF OwnUIP, MapsOK
    <3> QED
      BY <3>1, <3>2, <3>3 DEF IsFirstAfter
  <2> QED
    BY <2>2, <2>3, <2>5, <2>6 DEF JoinOK
<1>6. ASSUME NEW b \in Blocks \ (DOMAIN SimdBranches \cup DOMAIN JoinPoints)
      PROVE  ScalarOK(b)
  <2>1. b \in Blocks /\ code[b] = Unlowered(b)
    BY <1>1 DEF LoweredBlock
  <2>2. ~term[b].inv
    BY <1>1 DEF BodiesOK
  <2>3. CASE term[b].kind = "ret"
    BY <2>1, <2>2, <2>3, <1>3 DEF Unlowered, ScalarOK
  <2>4. CASE term[b].kind = "br"
    BY <2>1, <2>2, <2>4, <1>3 DEF Unlowered, ScalarOK
  <2>5. CASE term[b].kind = "cond"
    BY <2>1, <2>2, <2>5, <1>3 DEF Unlowered, ScalarOK
  <2> QED
    BY <2>2, <2>3, <2>4, <2>5 DEF ScalarOK
<1>7. \A b \in Blocks : term[b].inv => IsCond(b)
  BY <1>1 DEF BodiesOK
<1> QED
  BY <1>1, <1>2, <1>4, <1>5, <1>6, <1>7 DEF Static

-----------------------------------------------------------------------------
(* The lowered function does not change when it runs.                      *)

staticVars == <<source, layout, term, body, SimdBranches, JoinPoints, JIPs, code, masked>>

LEMMA StaticKept ==
  ASSUME UNCHANGED staticVars, Static
  PROVE  Static' /\ Blocks' = Blocks
<1>1. Blocks' = Blocks /\ \A b : Number(b)' = Number(b)
  BY DEF staticVars, Blocks, Number
<1>2. GraphOK' /\ HomesOK'
  BY GraphKept, HomesKept DEF staticVars, SameGraph, Static
<1>3. \A b : UIPOf(b)' = UIPOf(b) /\ IsCond(b)' = IsCond(b)
  BY DEF staticVars, UIPOf, IsCond
<1>4. \A b, u : JIPCandidates(b, u)' = JIPCandidates(b, u)
  BY <1>1 DEF staticVars, JIPCandidates, ResumableFrom, EnteredFromBefore, BranchesBack, Preds, Succs
<1>5. \A d, b, u : IsFirstAfter(d, b, u)' <=> IsFirstAfter(d, b, u)
  BY <1>1, <1>4 DEF IsFirstAfter
<1>6. \A b : GotoOK(b) => GotoOK(b)'
  BY <1>1, <1>3, <1>5 DEF staticVars, GotoOK
<1>7. \A b : JoinOK(b) => JoinOK(b)'
  BY <1>1, <1>3, <1>5 DEF staticVars, JoinOK
<1>8. \A b : ScalarOK(b) => ScalarOK(b)'
  BY DEF staticVars, ScalarOK
<1>9. UNCHANGED <<term, SimdBranches, JoinPoints>>
  BY DEF staticVars
<1> QED
  BY <1>1, <1>2, <1>3, <1>6, <1>7, <1>8, <1>9 DEF Static

LEMMA HomeKept ==
  ASSUME UNCHANGED staticVars, NEW b
  PROVE  Home(b)' = Home(b)
BY DEF staticVars, Home, Blocks

LEMMA MayWaitKept ==
  ASSUME UNCHANGED staticVars, NEW b, NEW j
  PROVE  MayWait(b, j)' <=> MayWait(b, j)
<1>1. Blocks' = Blocks /\ \A x : Number(x)' = Number(x)
  BY DEF staticVars, Blocks, Number
<1>2. \A p, x : CrossedBack(p, x)' <=> CrossedBack(p, x)
  BY <1>1 DEF staticVars, CrossedBack, BranchesBack, Succs
<1> QED
  BY <1>1, <1>2 DEF staticVars, MayWait, Parts, UIPOf

LEMMA OrderlyKept ==
  ASSUME UNCHANGED staticVars, Orderly
  PROVE  Orderly'
<1>1. Blocks' = Blocks /\ \A x : Number(x)' = Number(x)
  BY DEF staticVars, Blocks, Number
<1>2. NoJoinPassed'
  <2>1. \A b, j : Passes(b, j)' <=> Passes(b, j)
    BY <1>1 DEF staticVars, Passes, Targets
  <2> QED
    BY <1>1, <2>1, MayWaitKept DEF Orderly, NoJoinPassed
<1>3. JoinsLeadForward'
  BY <1>1, HomeKept DEF staticVars, Orderly, JoinsLeadForward
<1>4. IdlePathsReachUIP'
  <2>1. \A b : IdlePath(b)' = IdlePath(b)
    BY DEF staticVars, IdlePath, Idle, UIPOf
  <2>2. \A b : Idle(b)' = Idle(b) /\ UIPOf(b)' = UIPOf(b)
    BY DEF staticVars, Idle, UIPOf
  <2>3. UNCHANGED <<code, body, SimdBranches>>
    BY DEF staticVars
  <2> QED
    BY <2>1, <2>2, <2>3 DEF Orderly, IdlePathsReachUIP
<1> QED
  BY <1>2, <1>3, <1>4 DEF Orderly

(***************************************************************************)
(* Home: the block of the source that a block is or leads to.              *)
(***************************************************************************)
LEMMA BodylessFalls ==
  ASSUME Static, NEW home, NEW rank, Leads(home, rank), NEW b \in Blocks, body[b] = NoBlock
  PROVE  /\ term[b].kind = "br" /\ b \notin DOMAIN SimdBranches
         /\ code[b].next = term[b].succ[1] /\ code[b].next \in Blocks
         /\ home[b] = home[code[b].next] /\ rank[code[b].next] < rank[b]
<1>1. /\ term[b].kind = "br" /\ home[b] = home[term[b].succ[1]]
      /\ rank[term[b].succ[1]] < rank[b]
  BY DEF Leads
<1>2. b \notin DOMAIN SimdBranches
  BY DEF Static, GotoOK
<1>3. code[b].next = term[b].succ[1]
  <2>1. CASE b \in DOMAIN JoinPoints
    BY <2>1 DEF Static, JoinOK
  <2>2. CASE b \notin DOMAIN JoinPoints
    <3>1. ScalarOK(b)
      BY <2>2, <1>2 DEF Static
    <3> QED
      BY <3>1, <1>1 DEF ScalarOK
  <2> QED
    BY <2>1, <2>2
<1>4. term[b].succ[1] \in Blocks
  <2>1. GraphOK
    BY DEF Static
  <2>2. Len(term[b].succ) >= 1 /\ Len(term[b].succ) \in Nat
    BY <1>1, <2>1, LegsOf
  <2>3. 1 \in 1 .. Len(term[b].succ)
    BY <2>2
  <2> QED
    BY <2>1, <2>3, LegsOf
<1> QED
  BY <1>1, <1>2, <1>3, <1>4

HomeMap(h) ==
  h = [d \in Blocks |-> IF body[d] # NoBlock THEN body[d] ELSE h[code[d].next]]

LEMMA HomeIs ==
  ASSUME Static, NEW home, NEW rank, Leads(home, rank), NEW b \in Blocks
  PROVE  Home(b) = home[b]
<1>1. home \in [Blocks -> DOMAIN source.term] /\ rank \in [Blocks -> Nat]
  BY DEF Leads
<1>2. HomeMap(home)
  <2>1. \A d \in Blocks : home[d] = IF body[d] # NoBlock THEN body[d] ELSE home[code[d].next]
    BY BodylessFalls DEF Leads
  <2> QED
    BY <1>1, <2>1 DEF HomeMap
<1>3. PICK h : h = CHOOSE g : HomeMap(g)
  OBVIOUS
<1>4. HomeMap(h)
  <2> HIDE DEF HomeMap
  <2> QED
    BY <1>2, <1>3
<1>5. b # NoBlock
  BY DEF NoBlock, Blocks
<1>6. Home(b) = h[b]
  BY <1>3, <1>5 DEF Home, HomeMap
<1>7. \A d \in Blocks : h[d] = IF body[d] # NoBlock THEN body[d] ELSE h[code[d].next]
  BY <1>4 DEF HomeMap
<1> DEFINE Off == {d \in Blocks : h[d] # home[d]}
           Ranks == {rank[d] : d \in Off}
<1>8. ASSUME Off # {} PROVE FALSE
  <2>1. Ranks \subseteq Nat /\ Ranks # {}
    BY <1>1, <1>8
  <2>2. PICK r \in Ranks : \A k \in Ranks : r <= k
    BY <2>1, LeastExists
  <2>3. PICK d \in Off : rank[d] = r
    BY <2>2
  <2>4. d \in Blocks /\ h[d] # home[d]
    BY <2>3
  <2>5. body[d] = NoBlock
    BY <2>4, <1>7 DEF Leads
  <2>6. PICK n \in Blocks : /\ n = code[d].next /\ home[d] = home[n] /\ rank[n] < rank[d]
    BY <2>4, <2>5, BodylessFalls
  <2>7. h[n] # home[n]
    BY <2>4, <2>5, <2>6, <1>7
  <2>8. rank[n] \in Ranks
    BY <2>6, <2>7
  <2>9. rank[n] \in Nat /\ rank[d] \in Nat /\ rank[d] <= rank[n]
    BY <1>1, <2>2, <2>3, <2>4, <2>6, <2>8
  <2> QED
    BY <2>6, <2>9
<1> QED
  BY <1>6, <1>8

-----------------------------------------------------------------------------
(* What the instructions of the lowered function are.                      *)

LEMMA OpIs ==
  ASSUME Static, NEW b \in Blocks
  PROVE  /\ code[b].op \in {"goto", "join", "br", "brcond", "ret"}
         /\ code[b].op = "goto" <=> b \in DOMAIN SimdBranches
         /\ code[b].op = "join" <=> b \in DOMAIN JoinPoints
         /\ code[b].op = "ret" => term[b].kind = "ret"
         /\ code[b].op = "br" => term[b].kind = "br"
         /\ code[b].op = "brcond" => term[b].kind = "cond"
<1>1. term[b].kind \in {"ret", "br", "cond"}
  BY TerminatorFields DEF Static, GraphOK
<1>2. CASE b \in DOMAIN SimdBranches
  <2>1. code[b].op = "goto" /\ b \notin DOMAIN JoinPoints
    BY <1>2 DEF Static, GotoOK
  <2> QED
    BY <1>2, <2>1
<1>3. CASE b \in DOMAIN JoinPoints
  <2>1. code[b].op = "join" /\ b \notin DOMAIN SimdBranches
    BY <1>3 DEF Static, JoinOK
  <2> QED
    BY <1>3, <2>1
<1>4. CASE b \notin DOMAIN SimdBranches \cup DOMAIN JoinPoints
  <2>1. ScalarOK(b)
    BY <1>4 DEF Static
  <2> QED
    BY <1>1, <1>4, <2>1 DEF ScalarOK
<1> QED
  BY <1>2, <1>3, <1>4

\* The legs of a scalar branch are its targets and those of the terminator.
LEMMA ScalarLegs ==
  ASSUME Static, NEW b \in Blocks, code[b].op \in {"br", "brcond"}
  PROVE  /\ b \notin DOMAIN SimdBranches \cup DOMAIN JoinPoints
         /\ Targets(b) \subseteq Blocks \cap Succs(b)
         /\ ~term[b].inv
         /\ code[b].op = "br" => code[b].next = term[b].succ[1]
         /\ code[b].op = "brcond" =>
              code[b].taken = term[b].succ[1] /\ code[b].next = term[b].succ[2]
<1>1. /\ b \notin DOMAIN SimdBranches \cup DOMAIN JoinPoints
      /\ code[b].op = "br" => term[b].kind = "br"
      /\ code[b].op = "brcond" => term[b].kind = "cond"
  BY OpIs
<1>2. ScalarOK(b) /\ GraphOK
  BY <1>1 DEF Static
<1>3. /\ code[b].op = "br" => code[b].next = term[b].succ[1]
      /\ code[b].op = "brcond" =>
           code[b].taken = term[b].succ[1] /\ code[b].next = term[b].succ[2]
  BY <1>1, <1>2 DEF ScalarOK
<1>4. \A k \in 1 .. Len(term[b].succ) : term[b].succ[k] \in Blocks \cap Succs(b)
  BY <1>2, LegsOf DEF Succs, Range
<1>5. CASE code[b].op = "br"
  <2>1. 1 \in 1 .. Len(term[b].succ)
    BY <1>1, <1>2, <1>5, LegsOf
  <2> QED
    BY <2>1, <1>1, <1>2, <1>3, <1>4, <1>5 DEF Targets, ScalarOK
<1>6. CASE code[b].op = "brcond"
  <2>1. Len(term[b].succ) = 2
    BY <1>1, <1>2, <1>6, LegsOf
  <2>2. 1 \in 1 .. Len(term[b].succ) /\ 2 \in 1 .. Len(term[b].succ)
    BY <2>1
  <2> QED
    BY <2>2, <1>1, <1>2, <1>3, <1>4, <1>6 DEF Targets, ScalarOK
<1> QED
  BY <1>5, <1>6

-----------------------------------------------------------------------------
(***************************************************************************)
(* The masks when the function runs: the lanes wait at joins, and the call *)
(* mask is split between EM and the resume masks.                          *)
(***************************************************************************)
MasksOK ==
  /\ EM \subseteq Channels /\ callMask \subseteq Channels
  /\ source.cmWidth = 0 => callMask = Channels
  /\ RM \in [1 .. MaxBlocks -> SUBSET Lanes(Width)]
  /\ \A j \in 1 .. MaxBlocks : RM[j] # {} => j \in DOMAIN JoinPoints
  /\ M!MaskPartition

Running == Static /\ Len(layout) <= MaxBlocks /\ ip \in Blocks \cup {NoBlock} /\ MasksOK

\* What the steps of the lowered function do.
TakesGoto(T) ==
  /\ ip \in DOMAIN SimdBranches /\ T \subseteq EnabledLanes
  /\ EM' = EM \ T
  /\ RM' \in [1 .. MaxBlocks -> SUBSET Lanes(Width)]
  /\ RM'[UIPOf(ip)] = RM[UIPOf(ip)] \cup T
  /\ \A j \in 1 .. MaxBlocks : j # UIPOf(ip) => RM'[j] = RM[j]
  /\ ip' = IF EnabledLanes' = {} THEN JIPs[ip] ELSE code[ip].next

TakesJoin ==
  /\ ip \in DOMAIN JoinPoints
  /\ EM' = EM \cup RM[ip]
  /\ RM' \in [1 .. MaxBlocks -> SUBSET Lanes(Width)]
  /\ RM'[ip] = {}
  /\ \A j \in 1 .. MaxBlocks : j # ip => RM'[j] = RM[j]
  /\ ip' = IF EnabledLanes' = {} /\ code[ip].taken # NoBlock
           THEN code[ip].taken ELSE code[ip].next

TakesScalar ==
  /\ ip \in Blocks /\ code[ip].op \in {"br", "brcond"}
  /\ ip' \in Targets(ip)
  /\ UNCHANGED <<EM, RM>>

TakesReturn ==
  /\ ip \in Blocks /\ code[ip].op = "ret"
  /\ ip' = NoBlock
  /\ UNCHANGED <<EM, RM>>

\* The lanes that take the first leg of a lowered branch.
Taking(first) ==
  IF ~IsCond(ip) THEN EnabledLanes
  ELSE IF term[ip].inv THEN EnabledLanes \ first ELSE first

LEMMA RunGotoIs ==
  ASSUME Running, NEW first \in SUBSET EnabledLanes, RunGoto(first)
  PROVE  TakesGoto(Taking(first)) /\ UNCHANGED <<callMask, code>>
<1> DEFINE T == Taking(first)
           e == ip
<1>1. e # NoBlock /\ e \in Blocks /\ code[e].op = "goto"
  BY DEF RunGoto, M!Running, Running
<1>2. e \in DOMAIN SimdBranches /\ GotoOK(e)
  BY <1>1, OpIs DEF Running, Static
<1>3. T \subseteq EnabledLanes
  BY DEF Taking
<1> DEFINE keep == code[e].lanes \ T
<1>4. /\ M!Goto(keep)
      /\ code[e].lanes = Lanes(Width) /\ code[e].uip = UIPOf(e) /\ code[e].taken = JIPs[e]
  BY <1>2 DEF RunGoto, GotoOK, Taking
<1>5. UIPOf(e) \in 1 .. MaxBlocks
  <2>1. UIPOf(e) \in Blocks
    BY <1>2 DEF Running, Static, GotoOK
  <2>2. Len(layout) \in Nat /\ MaxBlocks \in Nat /\ Len(layout) <= MaxBlocks
    BY ExecAssumption, Numbers DEF Running, Static, GraphOK
  <2> QED
    BY <2>1, <2>2 DEF Blocks
<1>6. EM \subseteq Channels /\ RM \in [1 .. MaxBlocks -> SUBSET Lanes(Width)]
  BY DEF Running, MasksOK
<1> HIDE DEF T
<1>7. EM' = EM \ T
  <2>1. EM' = EM \cap (keep \cup (Channels \ Lanes(Width)))
    BY <1>4 DEF M!Goto, M!GotoEM, M!OneExtended
  <2> QED
    BY <2>1, <1>3, <1>4, <1>6 DEF EnabledLanes
<1>8. RM' = [RM EXCEPT ![UIPOf(e)] = RM[UIPOf(e)] \cup ((EM \cap Lanes(Width)) \ keep)]
  BY <1>4 DEF M!Goto, M!GotoRM
<1>9. (EM \cap Lanes(Width)) \ keep = T
  BY <1>3, <1>4 DEF EnabledLanes
<1>10. T \subseteq Lanes(Width)
  BY <1>3 DEF EnabledLanes
<1>11. /\ RM' \in [1 .. MaxBlocks -> SUBSET Lanes(Width)]
       /\ RM'[UIPOf(e)] = RM[UIPOf(e)] \cup T
       /\ \A j \in 1 .. MaxBlocks : j # UIPOf(e) => RM'[j] = RM[j]
  <2> HIDE DEF keep
  <2> QED
    BY <1>5, <1>6, <1>8, <1>9, <1>10
<1>12. ip' = IF EnabledLanes' = {} THEN JIPs[e] ELSE code[e].next
  BY <1>4 DEF M!Goto, M!NoneEnabled, EnabledLanes, Lanes
<1>13. UNCHANGED <<callMask, code>>
  BY <1>4 DEF M!Goto
<1> QED
  BY <1>2, <1>3, <1>7, <1>11, <1>12, <1>13 DEF TakesGoto, T

LEMMA RunJoinIs ==
  ASSUME Running, RunJoin
  PROVE  TakesJoin /\ UNCHANGED <<callMask, code, choice>>
<1>1. ip # NoBlock /\ ip \in Blocks /\ code[ip].op = "join"
  BY DEF RunJoin, M!Join, M!Running, Running
<1>2. ip \in DOMAIN JoinPoints /\ JoinOK(ip)
  BY <1>1, OpIs DEF Running, Static
<1>3. ip \in 1 .. MaxBlocks
  <2>1. Len(layout) \in Nat /\ MaxBlocks \in Nat /\ Len(layout) <= MaxBlocks
    BY ExecAssumption, Numbers DEF Running, Static, GraphOK
  <2> QED
    BY <1>1, <2>1 DEF Blocks
<1>4. RM \in [1 .. MaxBlocks -> SUBSET Lanes(Width)]
  BY DEF Running, MasksOK
<1>5. EM' = EM \cup RM[ip] /\ RM' = [RM EXCEPT ![ip] = {}]
  BY DEF RunJoin, M!Join, M!JoinEM, M!JoinRM
<1>6. ip' = IF EnabledLanes' = {} /\ code[ip].taken # NoBlock
            THEN code[ip].taken ELSE code[ip].next
  BY <1>2 DEF RunJoin, M!Join, M!NoneEnabled, EnabledLanes, Lanes, JoinOK
<1>7. UNCHANGED <<callMask, code, choice>>
  BY DEF RunJoin, M!Join
<1> QED
  BY <1>2, <1>3, <1>4, <1>5, <1>6, <1>7 DEF TakesJoin

LEMMA RunScalarIs ==
  ASSUME Running, NEW taken \in BOOLEAN, RunBranch(taken) \/ RunJump
  PROVE  /\ TakesScalar /\ UNCHANGED <<callMask, code>>
         /\ RunBranch(taken) => code[ip].op = "brcond"
         /\ RunJump => code[ip].op = "br"
<1>1. ip # NoBlock /\ ip \in Blocks
  BY DEF RunBranch, RunJump, M!Branch, M!Jump, M!Running, Running
<1>2. CASE RunBranch(taken)
  BY <1>1, <1>2 DEF RunBranch, M!Branch, M!Running, TakesScalar, Targets, RunJump, M!Jump
<1>3. CASE RunJump
  BY <1>1, <1>3 DEF RunJump, M!Jump, M!Running, TakesScalar, Targets, RunBranch, M!Branch
<1> QED
  BY <1>2, <1>3

LEMMA RunReturnIs ==
  ASSUME Running, RunReturn
  PROVE  TakesReturn /\ UNCHANGED <<callMask, code>> /\ choice' = {}
BY DEF RunReturn, M!Return, M!Running, Running, TakesReturn

LEMMA GotoMasks ==
  ASSUME Running, NEW T, TakesGoto(T), UNCHANGED <<callMask, source, JoinPoints>>
  PROVE  MasksOK'
<1> DEFINE u == UIPOf(ip)
<1>1. u \in DOMAIN JoinPoints
  BY DEF TakesGoto, Running, Static, GotoOK
<1>2. /\ EM \subseteq Channels /\ callMask \subseteq Channels
      /\ source.cmWidth = 0 => callMask = Channels
      /\ \A j \in 1 .. MaxBlocks : RM[j] # {} => j \in DOMAIN JoinPoints
      /\ M!Disjoint /\ M!Complete
  BY DEF Running, MasksOK, M!MaskPartition
<1>3. /\ T \subseteq EM /\ EM' = EM \ T
      /\ RM'[u] = RM[u] \cup T
      /\ \A j \in 1 .. MaxBlocks : j # u => RM'[j] = RM[j]
      /\ RM' \in [1 .. MaxBlocks -> SUBSET Lanes(Width)]
  BY DEF TakesGoto, EnabledLanes
<1>4. u \in 1 .. MaxBlocks
  <2>1. Len(layout) \in Nat /\ MaxBlocks \in Nat /\ Len(layout) <= MaxBlocks
    BY ExecAssumption, Numbers DEF Running, Static, GraphOK
  <2>2. u \in Blocks
    BY <1>1 DEF Running, Static
  <2> QED
    BY <2>1, <2>2 DEF Blocks
<1> HIDE DEF u
<1>5. \A j \in 1 .. MaxBlocks : RM'[j] # {} => j \in DOMAIN JoinPoints'
  BY <1>1, <1>2, <1>3
<1>6. M!Disjoint'
  <2>1. ASSUME NEW b \in 1 .. MaxBlocks PROVE EM' \cap RM'[b] = {}
    <3>1. EM \cap RM[b] = {} /\ EM \cap RM[u] = {}
      BY <1>2, <1>4 DEF M!Disjoint
    <3> QED BY <1>3, <3>1
  <2>2. ASSUME NEW b \in 1 .. MaxBlocks, NEW d \in 1 .. MaxBlocks, b # d
        PROVE  RM'[b] \cap RM'[d] = {}
    <3>1. RM[b] \cap RM[d] = {} /\ T \cap RM[b] = {} /\ T \cap RM[d] = {}
      BY <2>2, <1>2, <1>3 DEF M!Disjoint
    <3> QED BY <2>2, <3>1, <1>3
  <2> QED BY <2>1, <2>2 DEF M!Disjoint
<1>7. M!Complete'
  <2>1. EM' \cup UNION {RM'[b] : b \in 1 .. MaxBlocks} = EM \cup UNION {RM[b] : b \in 1 .. MaxBlocks}
    BY <1>3, <1>4
  <2> QED BY <2>1, <1>2 DEF M!Complete
<1> QED BY <1>2, <1>3, <1>5, <1>6, <1>7 DEF MasksOK, M!MaskPartition

LEMMA JoinMasks ==
  ASSUME Running, TakesJoin, UNCHANGED <<callMask, source, JoinPoints>>
  PROVE  MasksOK'
<1>1. /\ EM \subseteq Channels /\ callMask \subseteq Channels
      /\ source.cmWidth = 0 => callMask = Channels
      /\ \A j \in 1 .. MaxBlocks : RM[j] # {} => j \in DOMAIN JoinPoints
      /\ RM \in [1 .. MaxBlocks -> SUBSET Lanes(Width)]
      /\ M!Disjoint /\ M!Complete
  BY DEF Running, MasksOK, M!MaskPartition
<1>2. /\ EM' = EM \cup RM[ip] /\ RM'[ip] = {}
      /\ \A j \in 1 .. MaxBlocks : j # ip => RM'[j] = RM[j]
      /\ RM' \in [1 .. MaxBlocks -> SUBSET Lanes(Width)]
  BY DEF TakesJoin
<1>3. ip \in 1 .. MaxBlocks
  <2>1. Len(layout) \in Nat /\ MaxBlocks \in Nat /\ Len(layout) <= MaxBlocks
    BY ExecAssumption, Numbers DEF Running, Static, GraphOK
  <2>2. ip \in Blocks
    BY DEF TakesJoin, Running, Static
  <2> QED
    BY <2>1, <2>2 DEF Blocks
<1>4. EM' \subseteq Channels
  BY <1>1, <1>2, <1>3, ExecAssumption
<1>5. M!Disjoint'
  BY <1>1, <1>2, <1>3 DEF M!Disjoint
<1>6. M!Complete'
  <2>1. EM' \cup UNION {RM'[b] : b \in 1 .. MaxBlocks} = EM \cup UNION {RM[b] : b \in 1 .. MaxBlocks}
    BY <1>2, <1>3
  <2> QED BY <2>1, <1>1 DEF M!Complete
<1> QED BY <1>1, <1>2, <1>4, <1>5, <1>6 DEF MasksOK, M!MaskPartition

LEMMA SameMasks ==
  ASSUME MasksOK, UNCHANGED <<EM, RM, callMask, source, JoinPoints>>
  PROVE  MasksOK'
BY DEF MasksOK, M!MaskPartition, M!Disjoint, M!Complete

LEMMA NextBlocks ==
  ASSUME Running
  PROVE  /\ \A T : TakesGoto(T) => ip' \in Blocks
         /\ TakesJoin => ip' \in Blocks
         /\ TakesScalar => ip' \in Blocks
<1>1. ASSUME NEW T, TakesGoto(T) PROVE ip' \in Blocks
  BY <1>1 DEF TakesGoto, Running, Static, GotoOK, IsFirstAfter
<1>2. ASSUME TakesJoin PROVE ip' \in Blocks
  <2>1. JoinOK(ip) /\ ip \in Blocks /\ GraphOK
    BY <1>2 DEF TakesJoin, Running, Static
  <2>2. code[ip].taken # NoBlock => code[ip].taken \in Blocks
    BY <2>1 DEF JoinOK, IsFirstAfter
  <2>3. code[ip].next \in Blocks
    <3>1. PICK home, rank : Leads(home, rank)
      BY DEF Running, Static, HomesOK
    <3> QED
      BY <2>1, <3>1, BodylessFalls DEF JoinOK, Running
  <2> QED
    BY <1>2, <2>2, <2>3 DEF TakesJoin
<1>3. ASSUME TakesScalar PROVE ip' \in Blocks
  BY <1>3, ScalarLegs DEF TakesScalar, Running
<1> QED
  BY <1>1, <1>2, <1>3

LEMMA RunUnchanged ==
  ASSUME Running, Run
  PROVE  UNCHANGED staticVars /\ UNCHANGED phase
<1>1. UNCHANGED passVars
  BY DEF Run
<1>2. UNCHANGED code
  <2>1. \A first \in SUBSET EnabledLanes : RunGoto(first) => UNCHANGED code
    BY RunGotoIs
  <2> QED
    BY <2>1, RunJoinIs, RunScalarIs, RunReturnIs DEF Run
<1> QED
  BY <1>1, <1>2 DEF passVars, staticVars

LEMMA RunKeepsRunning ==
  ASSUME Running, Run
  PROVE  Running'
<1>1. UNCHANGED staticVars
  BY RunUnchanged
<1>2. Static' /\ Blocks' = Blocks /\ UNCHANGED <<source, JoinPoints, layout>>
  BY <1>1, StaticKept DEF Running, staticVars
<1>3. MasksOK' /\ ip' \in Blocks \cup {NoBlock}
  <2>1. ASSUME NEW first \in SUBSET EnabledLanes, RunGoto(first)
        PROVE  MasksOK' /\ ip' \in Blocks
    BY <2>1, <1>2, RunGotoIs, GotoMasks, NextBlocks
  <2>2. ASSUME RunJoin PROVE MasksOK' /\ ip' \in Blocks
    BY <2>2, <1>2, RunJoinIs, JoinMasks, NextBlocks
  <2>3. ASSUME NEW taken \in BOOLEAN, RunBranch(taken) PROVE MasksOK' /\ ip' \in Blocks
    <3>1. TakesScalar /\ UNCHANGED callMask
      BY <2>3, RunScalarIs
    <3> QED
      BY <3>1, <1>2, SameMasks, NextBlocks DEF TakesScalar, Running
  <2>4. ASSUME RunJump PROVE MasksOK' /\ ip' \in Blocks
    <3>1. TakesScalar /\ UNCHANGED callMask
      BY <2>4, RunScalarIs
    <3> QED
      BY <3>1, <1>2, SameMasks, NextBlocks DEF TakesScalar, Running
  <2>5. ASSUME RunReturn PROVE MasksOK' /\ ip' = NoBlock
    <3>1. TakesReturn /\ UNCHANGED callMask
      BY <2>5, RunReturnIs
    <3> QED
      BY <3>1, <1>2, SameMasks DEF TakesReturn, Running
  <2> QED
    BY <2>1, <2>2, <2>3, <2>4, <2>5 DEF Run
<1> QED
  BY <1>2, <1>3 DEF Running

-----------------------------------------------------------------------------
(***************************************************************************)
(* A join where lanes wait is not passed: it is a candidate for the JIP of *)
(* every goto and join before it, and scalar branches do not go past it.   *)
(***************************************************************************)
LEMMA WaitsFurtherOn ==
  ASSUME Static, NEW b \in Blocks, NEW d \in Blocks, NEW j, MayWait(b, j),
         Number(b) <= Number(d)
  PROVE  MayWait(d, j)
<1>1. \A p \in Blocks : Number(d) <= Number(p) => Number(b) <= Number(p)
  BY GraphNumbers DEF Static
<1> QED
  BY <1>1 DEF MayWait

LEMMA CandidateJIP ==
  ASSUME Static, NEW b \in Blocks, NEW j \in DOMAIN JoinPoints,
         Number(b) < Number(j), MayWait(b, j)
  PROVE  j \in JIPCandidates(b, OwnUIP(b))
<1>1. PICK g \in DOMAIN SimdBranches :
        /\ UIPOf(g) = j
        /\ \A p \in Blocks : Number(b) <= Number(p) /\ Number(p) <= Number(g)
             => CrossedBack(p, j)
  BY DEF MayWait
<1>2. /\ GraphOK /\ g \in Blocks /\ j \in Blocks
      /\ Number(b) \in Nat /\ Number(g) \in Nat /\ Number(j) \in Nat
  BY GraphNumbers DEF Static
<1> DEFINE between == {m \in Blocks : Number(b) < Number(m) /\ Number(m) <= Number(j)}
<1>3. CASE Number(g) < Number(b)
  <2>1. Len(term[g].succ) >= 1 /\ Len(term[g].succ) \in Nat
    BY <1>2, LegsOf DEF Static, GotoOK
  <2>2. j \in Succs(g)
    <3>1. 1 \in 1 .. Len(term[g].succ) /\ DOMAIN term[g].succ = 1 .. Len(term[g].succ)
      BY <2>1, <1>2, LegsOf
    <3> QED
      BY <3>1, <1>1 DEF UIPOf, Succs, Range
  <2>3. EnteredFromBefore(j, b)
    BY <2>2, <1>2, <1>3 DEF EnteredFromBefore, Preds
  <2>4. ResumableFrom(j, b)
    BY <2>3, <1>2 DEF ResumableFrom
  <2> QED
    BY <2>4, <1>2 DEF JIPCandidates
<1>4. CASE g = b
  BY <1>1, <1>2, <1>4 DEF JIPCandidates, OwnUIP
<1>5. CASE Number(b) < Number(g)
  <2>1. CrossedBack(b, j)
    BY <1>1, <1>2, <1>5
  <2>2. PICK x \in Blocks : /\ Number(b) < Number(x) /\ Number(x) < Number(j)
                            /\ BranchesBack(x, b)
    BY <2>1 DEF CrossedBack
  <2>3. x \in between \ {j}
    BY <2>2, <1>2, GraphNumbers
  <2>4. ResumableFrom(j, b)
    BY <2>2, <2>3 DEF ResumableFrom
  <2> QED
    BY <2>4, <1>2 DEF JIPCandidates
<1>6. Number(g) < Number(b) \/ g = b \/ Number(b) < Number(g)
  BY <1>2, Numbers DEF GraphOK
<1> QED
  BY <1>3, <1>4, <1>5, <1>6

\* Where execution is when lanes wait at j.
IsAhead(b, j) == b = j \/ (Number(b) < Number(j) /\ MayWait(b, j))

LEMMA AheadAfterJIP ==
  ASSUME Static, NEW b \in Blocks, NEW j \in DOMAIN JoinPoints, NEW d,
         Number(b) < Number(j), MayWait(b, j),
         IsFirstAfter(d, b, OwnUIP(b))
  PROVE  IsAhead(d, j)
<1>1. /\ d \in Blocks /\ j \in Blocks /\ Number(b) < Number(d) /\ Number(d) <= Number(j)
      /\ Number(b) \in Nat /\ Number(d) \in Nat /\ Number(j) \in Nat
      /\ \A p, q \in Blocks : Number(p) = Number(q) => p = q
  BY CandidateJIP, GraphNumbers, Numbers DEF IsFirstAfter, Static
<1>2. MayWait(d, j)
  BY <1>1, WaitsFurtherOn
<1>3. d = j \/ Number(d) < Number(j)
  BY <1>1
<1> QED
  BY <1>2, <1>3 DEF IsAhead

LEMMA AheadAfterNext ==
  ASSUME Static, NEW b \in Blocks, NEW j \in DOMAIN JoinPoints, NEW d \in Blocks,
         Number(b) < Number(j), MayWait(b, j), Number(d) = Number(b) + 1
  PROVE  IsAhead(d, j)
<1>1. /\ j \in Blocks
      /\ Number(b) \in Nat /\ Number(d) \in Nat /\ Number(j) \in Nat
      /\ \A p, q \in Blocks : Number(p) = Number(q) => p = q
  BY GraphNumbers, Numbers DEF Static
<1>2. MayWait(d, j)
  BY <1>1, WaitsFurtherOn
<1>3. d = j \/ Number(d) < Number(j)
  BY <1>1
<1> QED
  BY <1>2, <1>3 DEF IsAhead

LEMMA AheadAfterScalar ==
  ASSUME Static, NoJoinPassed, NEW b \in Blocks, NEW j \in DOMAIN JoinPoints,
         code[b].op \in {"br", "brcond"}, NEW t \in Targets(b),
         Number(b) < Number(j), MayWait(b, j)
  PROVE  IsAhead(t, j)
<1>1. t \in Blocks /\ t \in Succs(b) /\ j \in Blocks /\ GraphOK
  BY ScalarLegs DEF Static
<1>2. /\ Number(b) \in Nat /\ Number(t) \in Nat /\ Number(j) \in Nat
      /\ \A p, q \in Blocks : Number(p) = Number(q) => p = q
      /\ \A p \in Blocks : Number(p) \in Nat
  BY <1>1, GraphNumbers, Numbers
<1>3. ~(Number(j) < Number(t))
  BY <1>1 DEF NoJoinPassed, Passes
<1>4. MayWait(t, j)
  <2>1. PICK g \in DOMAIN SimdBranches :
          /\ UIPOf(g) = j /\ Parts(g)
          /\ \A p \in Blocks : Number(b) <= Number(p) /\ Number(p) <= Number(g)
               => CrossedBack(p, j)
    BY DEF MayWait
  <2>2. ASSUME NEW p \in Blocks, Number(t) <= Number(p), Number(p) <= Number(g)
        PROVE  CrossedBack(p, j)
    <3>1. CASE Number(b) <= Number(p)
      BY <2>1, <2>2, <3>1
    <3>2. CASE Number(p) < Number(b)
      <4>1. BranchesBack(b, p)
        BY <1>1, <2>2 DEF BranchesBack
      <4> QED
        BY <4>1, <3>2 DEF CrossedBack
    <3> QED
      BY <3>1, <3>2, <1>2
  <2> QED
    BY <2>1, <2>2 DEF MayWait
<1> QED
  BY <1>1, <1>2, <1>3, <1>4 DEF IsAhead

-----------------------------------------------------------------------------
(***************************************************************************)
(* The invariant of the execution: the lanes that wait do so ahead of ip,  *)
(* and execution with no lane enabled is on its way to lanes that wait.    *)
(***************************************************************************)
WaitsAhead ==
  ip # NoBlock => \A j \in DOMAIN JoinPoints : RM[j] # {} => IsAhead(ip, j)

LeadsToUIP ==
  ip # NoBlock /\ EnabledLanes = {} =>
    \E e \in DOMAIN SimdBranches : ip \in IdlePath(e) /\ RM[UIPOf(e)] # {}

RunInv == Running /\ Orderly /\ WaitsAhead /\ LeadsToUIP

\* Code of the source runs for some lane.
LEMMA EnabledAtBody ==
  ASSUME RunInv, ip # NoBlock, body[ip] # NoBlock
  PROVE  EnabledLanes # {}
<1> SUFFICES ASSUME EnabledLanes = {} PROVE FALSE
  OBVIOUS
<1>1. PICK e \in DOMAIN SimdBranches : ip \in IdlePath(e)
  BY DEF RunInv, LeadsToUIP
<1>2. ip = UIPOf(e)
  BY <1>1 DEF RunInv, Orderly, IdlePathsReachUIP
<1>3. body[ip] = NoBlock
  BY <1>2 DEF RunInv, Running, Static, GotoOK, JoinOK
<1> QED
  BY <1>3

LEMMA GotoAhead ==
  ASSUME RunInv, phase = "run", NEW first \in SUBSET EnabledLanes, RunGoto(first)
  PROVE  ip' # NoBlock =>
           \A j \in DOMAIN JoinPoints : RM'[j] # {} => IsAhead(ip', j)
<1> DEFINE T == Taking(first)
<1>1. /\ Running /\ Static /\ WaitsAhead /\ TakesGoto(T)
      /\ ip \in DOMAIN SimdBranches /\ ip \in Blocks /\ GotoOK(ip)
  BY RunGotoIs DEF RunInv, Running, Static, TakesGoto
<1>2. /\ Number(ip) < Number(UIPOf(ip)) /\ UIPOf(ip) \in Blocks
      /\ IsFirstAfter(JIPs[ip], ip, UIPOf(ip)) /\ OwnUIP(ip) = UIPOf(ip)
      /\ code[ip].next \in Blocks /\ Number(code[ip].next) = Number(ip) + 1
      /\ Number(ip) \in Nat /\ Number(UIPOf(ip)) \in Nat
      /\ \A p \in Blocks : Number(p) \in Nat
      /\ \A p, q \in Blocks : Number(p) = Number(q) => p = q
  BY <1>1, GraphNumbers, Numbers DEF GotoOK, Static, OwnUIP
<1>3. ip' = JIPs[ip] \/ (EnabledLanes' # {} /\ ip' = code[ip].next)
  BY <1>1 DEF TakesGoto
<1>4. ASSUME NEW j \in DOMAIN JoinPoints, RM[j] # {}
      PROVE  IsAhead(ip', j)
  <2>1. ip # j /\ ip # NoBlock
    BY <1>1 DEF Static, NoBlock, Blocks
  <2>2. Number(ip) < Number(j) /\ MayWait(ip, j)
    BY <1>1, <1>4, <2>1 DEF WaitsAhead, IsAhead
  <2>3. CASE ip' = JIPs[ip]
    BY <1>1, <1>2, <2>2, <2>3, AheadAfterJIP
  <2>4. CASE ip' = code[ip].next
    BY <1>1, <1>2, <2>2, <2>4, AheadAfterNext
  <2> QED
    BY <1>3, <2>3, <2>4
<1>5. ASSUME T # {} PROVE IsAhead(ip', UIPOf(ip))
  <2>1. \A d \in Blocks : (\A p \in Blocks : Number(d) <= Number(p) => ~(Number(p) <= Number(ip)))
                            /\ Parts(ip) => MayWait(d, UIPOf(ip))
    BY <1>1 DEF MayWait
  <2>2. \A d \in Blocks : Number(ip) < Number(d) /\ Parts(ip) => MayWait(d, UIPOf(ip))
    BY <2>1, <1>2
  <2>3. CASE ip' = JIPs[ip]
    <3>1. UIPOf(ip) \in JIPCandidates(ip, UIPOf(ip))
      BY <1>2 DEF JIPCandidates
    <3>2. /\ JIPs[ip] \in Blocks /\ Number(JIPs[ip]) > Number(ip)
          /\ Number(JIPs[ip]) <= Number(UIPOf(ip))
      BY <3>1, <1>2 DEF IsFirstAfter
    <3>3. JIPs[ip] = UIPOf(ip) \/ (Number(JIPs[ip]) < Number(UIPOf(ip)) /\ Parts(ip))
      BY <3>2, <1>2 DEF Parts
    <3> QED
      BY <2>2, <2>3, <3>2, <3>3, <1>2 DEF IsAhead
  <2>4. CASE EnabledLanes' # {} /\ ip' = code[ip].next
    <3>1. T # EnabledLanes
      BY <1>1, <2>4 DEF TakesGoto, EnabledLanes
    <3>2. IsCond(ip) /\ first # {} /\ first # EnabledLanes
      <4>1. IsCond(ip)
        BY <3>1 DEF Taking
      <4>2. CASE term[ip].inv
        BY <4>1, <4>2, <3>1, <1>5 DEF Taking
      <4>3. CASE ~term[ip].inv
        BY <4>1, <4>3, <3>1, <1>5 DEF Taking
      <4> QED
        BY <4>1, <4>2, <4>3
    <3>3. term[ip].width # 0
      BY <3>2 DEF RunGoto
    <3>4. term[ip].width > 0
      <4>1. /\ term[ip].width \in Widths \cup {0} /\ Widths \ {0} \subseteq {Width}
            /\ Width \in Nat \ {0}
        BY <1>1, TerminatorFields, OneWidthOnly, ExecAssumption DEF Static, GraphOK
      <4> QED
        BY <4>1, <3>3
    <3>5. Parts(ip)
      BY <3>4 DEF Parts
    <3>6. MayWait(code[ip].next, UIPOf(ip))
      BY <2>2, <3>5, <1>2
    <3>7. Number(code[ip].next) < Number(UIPOf(ip)) \/ code[ip].next = UIPOf(ip)
      BY <1>2
    <3> QED
      BY <2>4, <3>6, <3>7 DEF IsAhead
  <2> QED
    BY <1>3, <2>3, <2>4
<1>6. ASSUME NEW j \in DOMAIN JoinPoints, RM'[j] # {}
      PROVE  IsAhead(ip', j)
  <2>1. j \in 1 .. MaxBlocks
    <3>1. Len(layout) \in Nat /\ MaxBlocks \in Nat /\ Len(layout) <= MaxBlocks
      BY <1>1, ExecAssumption, Numbers DEF Running, Static, GraphOK
    <3> QED
      BY <3>1, <1>1 DEF Static, Blocks
  <2>2. RM'[j] = RM[j] \/ (j = UIPOf(ip) /\ RM'[j] = RM[j] \cup T)
    BY <2>1, <1>1 DEF TakesGoto
  <2> HIDE DEF T
  <2>3. RM[j] # {} \/ (j = UIPOf(ip) /\ T # {})
    BY <2>2, <1>6
  <2> QED
    BY <2>3, <1>4, <1>5 DEF T
<1> QED
  BY <1>6

LEMMA JoinAhead ==
  ASSUME RunInv, RunJoin
  PROVE  ip' # NoBlock =>
           \A j \in DOMAIN JoinPoints : RM'[j] # {} => IsAhead(ip', j)
<1>1. /\ Running /\ Static /\ WaitsAhead /\ TakesJoin
      /\ ip \in DOMAIN JoinPoints /\ ip \in Blocks /\ JoinOK(ip)
      /\ ip \notin DOMAIN SimdBranches
  BY RunJoinIs DEF RunInv, Running, Static, TakesJoin
<1>2. ip # NoBlock
  BY <1>1 DEF NoBlock, Blocks
<1>3. \/ ip' = code[ip].taken /\ IsFirstAfter(code[ip].taken, ip, OwnUIP(ip))
      \/ ip' = code[ip].next /\ ip' \in Blocks /\ Number(code[ip].next) = Number(ip) + 1
  BY <1>1, NextBlocks DEF TakesJoin, JoinOK, OwnUIP
<1>4. ASSUME NEW j \in DOMAIN JoinPoints, RM'[j] # {}
      PROVE  IsAhead(ip', j)
  <2>1. j \in 1 .. MaxBlocks
    <3>1. Len(layout) \in Nat /\ MaxBlocks \in Nat /\ Len(layout) <= MaxBlocks
      BY <1>1, ExecAssumption, Numbers DEF Running, Static, GraphOK
    <3> QED
      BY <3>1, <1>1 DEF Static, Blocks
  <2>2. j # ip /\ RM[j] # {}
    BY <2>1, <1>1, <1>4 DEF TakesJoin
  <2>3. Number(ip) < Number(j) /\ MayWait(ip, j)
    BY <2>2, <1>1, <1>2 DEF WaitsAhead, IsAhead
  <2> QED
    BY <2>3, <1>1, <1>3, AheadAfterJIP, AheadAfterNext
<1> QED
  BY <1>4

LEMMA ScalarAhead ==
  ASSUME RunInv, TakesScalar
  PROVE  \A j \in DOMAIN JoinPoints : RM'[j] # {} => IsAhead(ip', j)
<1>1. /\ Static /\ WaitsAhead /\ NoJoinPassed /\ ip \in Blocks
      /\ code[ip].op \in {"br", "brcond"} /\ ip' \in Targets(ip) /\ RM' = RM
  BY DEF RunInv, Running, TakesScalar, Orderly
<1>2. ip # NoBlock /\ ip \notin DOMAIN JoinPoints
  BY <1>1, ScalarLegs DEF NoBlock, Blocks
<1>3. ASSUME NEW j \in DOMAIN JoinPoints, RM[j] # {}
      PROVE  IsAhead(ip', j)
  <2>1. Number(ip) < Number(j) /\ MayWait(ip, j)
    BY <1>1, <1>2, <1>3 DEF WaitsAhead, IsAhead
  <2> QED
    BY <2>1, <1>1, AheadAfterScalar
<1> QED
  BY <1>1, <1>3

\* Nobody waits when the function returns.
LEMMA NoneWaitAtReturn ==
  ASSUME RunInv, ip \in Blocks, code[ip].op = "ret"
  PROVE  \A j \in 1 .. MaxBlocks : RM[j] = {}
<1> SUFFICES ASSUME NEW j \in 1 .. MaxBlocks, RM[j] # {} PROVE FALSE
  OBVIOUS
<1>1. j \in DOMAIN JoinPoints /\ Static /\ WaitsAhead /\ NoJoinPassed
  BY DEF RunInv, Running, MasksOK, Orderly
<1>2. ip # NoBlock /\ ip \notin DOMAIN JoinPoints
  BY <1>1, OpIs DEF NoBlock, Blocks
<1>3. Number(ip) < Number(j) /\ MayWait(ip, j) /\ j \in Blocks
  BY <1>1, <1>2 DEF WaitsAhead, IsAhead, Static
<1> QED
  BY <1>1, <1>3 DEF NoJoinPassed, Passes

-----------------------------------------------------------------------------
(* With no lane enabled, execution keeps to the way to the waiting lanes.  *)

LEMMA GotoLeads ==
  ASSUME RunInv, NEW first \in SUBSET EnabledLanes, RunGoto(first)
  PROVE  EnabledLanes' = {} =>
           \E e \in DOMAIN SimdBranches : ip' \in IdlePath(e) /\ RM'[UIPOf(e)] # {}
<1> DEFINE T == Taking(first)
<1>1. /\ Running /\ Static /\ TakesGoto(T)
      /\ ip \in DOMAIN SimdBranches /\ ip \in Blocks /\ GotoOK(ip)
  BY RunGotoIs DEF RunInv, Running, Static, TakesGoto
<1>2. SUFFICES ASSUME EnabledLanes' = {}
               PROVE  ip' \in IdlePath(ip) /\ RM'[UIPOf(ip)] # {}
  BY <1>1
<1>3. ip # NoBlock /\ body[ip] # NoBlock
  BY <1>1 DEF GotoOK, NoBlock, Blocks
<1>4. EnabledLanes # {}
  BY <1>3, EnabledAtBody
<1>5. T # {}
  BY <1>1, <1>2, <1>4 DEF TakesGoto, EnabledLanes
<1>6. ip' = code[ip].taken
  BY <1>1, <1>2 DEF TakesGoto, GotoOK
<1>7. code[ip].taken \in IdlePath(ip)
  BY <1>1 DEF RunInv, Orderly, IdlePathsReachUIP
<1> QED
  BY <1>1, <1>5, <1>6, <1>7 DEF TakesGoto

\* A block with no code of the source, that lanes do not wait at, is passed.
LEMMA PassesOn ==
  ASSUME RunInv, ip # NoBlock, EnabledLanes = {}, ip \in DOMAIN JoinPoints => RM[ip] = {}
  PROVE  \E e \in DOMAIN SimdBranches :
           Idle(ip) \in IdlePath(e) /\ RM[UIPOf(e)] # {} /\ ip # UIPOf(e)
<1>1. PICK e \in DOMAIN SimdBranches : ip \in IdlePath(e) /\ RM[UIPOf(e)] # {}
  BY DEF RunInv, LeadsToUIP
<1>2. UIPOf(e) \in DOMAIN JoinPoints
  BY DEF RunInv, Running, Static, GotoOK
<1>3. ip # UIPOf(e)
  BY <1>1, <1>2
<1>4. Idle(ip) \in IdlePath(e)
  BY <1>1, <1>3 DEF RunInv, Orderly, IdlePathsReachUIP
<1> QED
  BY <1>1, <1>3, <1>4

LEMMA JoinLeads ==
  ASSUME RunInv, RunJoin
  PROVE  EnabledLanes' = {} =>
           \E e \in DOMAIN SimdBranches : ip' \in IdlePath(e) /\ RM'[UIPOf(e)] # {}
<1> SUFFICES ASSUME EnabledLanes' = {}
             PROVE  \E e \in DOMAIN SimdBranches : ip' \in IdlePath(e) /\ RM'[UIPOf(e)] # {}
  OBVIOUS
<1>1. /\ Running /\ Static /\ TakesJoin
      /\ ip \in DOMAIN JoinPoints /\ ip \in Blocks /\ ip # NoBlock
      /\ code[ip].op = "join"
  BY RunJoinIs DEF RunInv, Running, Static, TakesJoin, JoinOK, NoBlock, Blocks
<1>2. ip \in 1 .. MaxBlocks /\ \A e \in DOMAIN SimdBranches : UIPOf(e) \in 1 .. MaxBlocks
  <2>1. Len(layout) \in Nat /\ MaxBlocks \in Nat /\ Len(layout) <= MaxBlocks
    BY <1>1, ExecAssumption, Numbers DEF Running, Static, GraphOK
  <2>2. \A e \in DOMAIN SimdBranches : UIPOf(e) \in Blocks
    BY <1>1 DEF Static, GotoOK
  <2> QED
    BY <2>1, <2>2, <1>1 DEF Blocks
<1>3. RM[ip] \subseteq Lanes(Width)
  BY <1>1, <1>2 DEF Running, MasksOK
<1>4. EnabledLanes = {} /\ RM[ip] = {}
  BY <1>1, <1>3 DEF TakesJoin, EnabledLanes, Lanes
<1>5. PICK e \in DOMAIN SimdBranches :
        Idle(ip) \in IdlePath(e) /\ RM[UIPOf(e)] # {} /\ ip # UIPOf(e)
  BY <1>1, <1>4, PassesOn
<1>6. ip' = Idle(ip)
  BY <1>1 DEF TakesJoin, Idle
<1>7. RM'[UIPOf(e)] = RM[UIPOf(e)]
  BY <1>1, <1>2, <1>5 DEF TakesJoin
<1> QED
  BY <1>5, <1>6, <1>7

LEMMA ScalarLeads ==
  ASSUME RunInv, TakesScalar
  PROVE  EnabledLanes' = {} =>
           \E e \in DOMAIN SimdBranches : ip' \in IdlePath(e) /\ RM'[UIPOf(e)] # {}
<1> SUFFICES ASSUME EnabledLanes' = {}
             PROVE  \E e \in DOMAIN SimdBranches : ip' \in IdlePath(e) /\ RM'[UIPOf(e)] # {}
  OBVIOUS
<1>1. /\ Static /\ ip \in Blocks /\ ip # NoBlock /\ code[ip].op \in {"br", "brcond"}
      /\ ip' \in Targets(ip) /\ RM' = RM /\ ip \notin DOMAIN JoinPoints
  BY ScalarLegs DEF RunInv, Running, TakesScalar, NoBlock, Blocks
<1>2. EnabledLanes = {}
  BY DEF TakesScalar, EnabledLanes, Lanes
<1>3. body[ip] = NoBlock
  BY <1>1, <1>2, EnabledAtBody
<1>4. code[ip].op = "br"
  <2>1. PICK home, rank : Leads(home, rank)
    BY <1>1 DEF Static, HomesOK
  <2>2. term[ip].kind = "br"
    BY <1>1, <1>3, <2>1 DEF Leads
  <2> QED
    BY <1>1, <2>2, OpIs
<1>5. ip' = Idle(ip)
  BY <1>1, <1>4 DEF Targets, Idle
<1> QED
  BY <1>1, <1>2, <1>5, PassesOn

LEMMA RunKeepsInv ==
  ASSUME RunInv, phase = "run", Run
  PROVE  RunInv'
<1>1. UNCHANGED staticVars /\ Running /\ Running' /\ Orderly'
  BY RunUnchanged, RunKeepsRunning, OrderlyKept DEF RunInv
<1>2. /\ DOMAIN JoinPoints' = DOMAIN JoinPoints /\ DOMAIN SimdBranches' = DOMAIN SimdBranches
      /\ \A b : UIPOf(b)' = UIPOf(b)
      /\ \A b, j : IsAhead(b, j)' <=> IsAhead(b, j)
      /\ \A e : IdlePath(e)' = IdlePath(e)
  <2>1. \A b, j : IsAhead(b, j)' <=> IsAhead(b, j)
    BY <1>1, MayWaitKept DEF IsAhead, Number, staticVars
  <2>2. \A e : IdlePath(e)' = IdlePath(e)
    BY <1>1 DEF staticVars, IdlePath, Idle, UIPOf
  <2> QED
    BY <2>1, <2>2, <1>1 DEF staticVars, UIPOf
<1> DEFINE StillAhead ==
             ip' # NoBlock => \A j \in DOMAIN JoinPoints : RM'[j] # {} => IsAhead(ip', j)
           StillLeads ==
             ip' # NoBlock /\ EnabledLanes' = {} =>
               \E e \in DOMAIN SimdBranches : ip' \in IdlePath(e) /\ RM'[UIPOf(e)] # {}
<1>3. StillAhead /\ StillLeads
  <2>1. ASSUME NEW first \in SUBSET EnabledLanes, RunGoto(first) PROVE StillAhead /\ StillLeads
    BY <2>1, GotoAhead, GotoLeads
  <2>2. CASE RunJoin
    BY <2>2, JoinAhead, JoinLeads
  <2>3. ASSUME NEW taken \in BOOLEAN, RunBranch(taken) PROVE StillAhead /\ StillLeads
    BY <2>3, <1>1, RunScalarIs, ScalarAhead, ScalarLeads
  <2>4. CASE RunJump
    BY <2>4, <1>1, RunScalarIs, ScalarAhead, ScalarLeads
  <2>5. CASE RunReturn
    BY <2>5, <1>1, RunReturnIs DEF TakesReturn
  <2> QED
    BY <2>1, <2>2, <2>3, <2>4, <2>5 DEF Run
<1>4. WaitsAhead'
  <2> SUFFICES ASSUME ip' # NoBlock, NEW j \in DOMAIN JoinPoints, RM'[j] # {}
               PROVE  IsAhead(ip, j)'
    BY <1>2 DEF WaitsAhead
  <2>1. IsAhead(ip', j)
    BY <1>3
  <2>2. PICK b : b = ip'
    OBVIOUS
  <2>3. IsAhead(b, j)'
    BY <2>1, <2>2, <1>2
  <2> QED
    BY <2>2, <2>3 DEF IsAhead, MayWait, Number
<1>5. LeadsToUIP'
  <2> SUFFICES ASSUME ip' # NoBlock, EnabledLanes' = {}
               PROVE  \E e \in DOMAIN SimdBranches' : ip' \in IdlePath(e)' /\ RM'[UIPOf(e)'] # {}
    BY DEF LeadsToUIP
  <2>1. PICK e \in DOMAIN SimdBranches : ip' \in IdlePath(e) /\ RM'[UIPOf(e)] # {}
    BY <1>3
  <2> QED
    BY <2>1, <1>2
<1> QED
  BY <1>1, <1>4, <1>5 DEF RunInv

-----------------------------------------------------------------------------
(* From the start: the lowering, the call, the steps of the function.      *)

LEMMA LoweringIsNotRun ==
  ASSUME Next
  PROVE  phase # "run" /\ phase' # "run" /\ UNCHANGED source
<1>1. CASE FixSimdBranches
  <2>1. phase = "fixSimdBranches" /\ UNCHANGED source
    BY <1>1 DEF FixSimdBranches, SkipBlock, UnsimdBackward, InsertBackward, InsertLoopEnd,
       KeepBranch, InvertBranch, InsertFallthrough, LegsFixed, AtSimd, fixFrame
  <2>2. phase' \in {phase, "findAndSplitJoinPoints"}
    BY <1>1 DEF FixSimdBranches, SkipBlock, UnsimdBackward, InsertBackward, InsertLoopEnd,
       KeepBranch, InvertBranch, InsertFallthrough, MoveOn
  <2> QED
    BY <2>1, <2>2
<1>2. CASE FindSimdBranches \/ DeterminePredicatedBlocks \/ MarkPredicatedBranches
  BY <1>2 DEF FindSimdBranches, DeterminePredicatedBlocks, MarkPredicatedBranches
<1>3. CASE SplitJoinPoint \/ FormGroups \/ PredicateCode \/ LowerSimdCF
  BY <1>3 DEF SplitJoinPoint, FormGroups, PredicateCode, LowerSimdCF
<1>4. CASE DetermineJIPs
  BY <1>4 DEF DetermineJIPs
<1> QED
  BY <1>1, <1>2, <1>3, <1>4 DEF Next

ExecInv ==
  /\ phase # "run" => LInv /\ choice = {}
  /\ phase = "run" => Running

LEMMA EnterRuns ==
  ASSUME LInv, Enter
  PROVE  /\ UNCHANGED staticVars /\ Running' /\ EnabledLanes' # {}
         /\ \A j \in DOMAIN JoinPoints' : RM'[j] = {}
         /\ Number(ip') = 1 /\ ip' \in Blocks
<1>1. Static /\ UNCHANGED staticVars
  BY LoweredStatic DEF Enter, staticVars
<1>2. Static' /\ Blocks' = Blocks /\ UNCHANGED <<source, layout, JoinPoints>>
  BY <1>1, StaticKept DEF staticVars
<1>3. Number(ip') = 1 /\ ip' \in Blocks
  <2>1. LayoutOK /\ Len(layout) > 0
    BY <1>1 DEF Static, GraphOK, LayoutOK
  <2>2. 1 \in Blocks
    BY <2>1, Numbers DEF Blocks
  <2> QED
    BY <2>1, <2>2, Numbers DEF Enter
<1>4. Len(layout) \in Nat /\ MaxBlocks \in Nat /\ Len(layout) <= MaxBlocks
  BY <1>1, ExecAssumption, Numbers DEF Static, GraphOK, Enter
<1>5. PICK mask \in CallMasks : EM' = mask /\ callMask' = mask
  BY DEF Enter
<1>6. RM' = [b \in 1 .. MaxBlocks |-> {}]
  BY DEF Enter, M!ZeroRM
<1>7. /\ mask \subseteq Channels /\ mask \cap Lanes(Width) # {}
      /\ source.cmWidth = 0 => mask = Channels
  <2>1. Lanes(Width) \subseteq Channels /\ 1 \in Lanes(Width)
    BY ExecAssumption DEF Lanes
  <2> QED
    BY <1>5, <2>1 DEF CallMasks
<1>8. MasksOK'
  <2>1. M!MaskPartition'
    BY <1>5, <1>6 DEF M!MaskPartition, M!Disjoint, M!Complete
  <2> QED
    BY <2>1, <1>2, <1>5, <1>6, <1>7 DEF MasksOK
<1>9. \A j \in DOMAIN JoinPoints' : RM'[j] = {}
  <2>1. \A j \in DOMAIN JoinPoints' : j \in 1 .. MaxBlocks
    BY <1>1, <1>2, <1>4 DEF Static, Blocks
  <2> QED
    BY <2>1, <1>6
<1>10. EnabledLanes' # {}
  BY <1>5, <1>7 DEF EnabledLanes, Lanes
<1> QED
  BY <1>1, <1>2, <1>3, <1>4, <1>8, <1>9, <1>10 DEF Running

LEMMA StutterRunning ==
  ASSUME UNCHANGED vars, Running
  PROVE  Running'
<1>1. UNCHANGED staticVars /\ UNCHANGED <<ip, EM, RM, callMask, source, layout, JoinPoints>>
  BY DEF vars, runVars, lowerVars, passVars, staticVars
<1>2. Static' /\ Blocks' = Blocks
  BY <1>1, StaticKept DEF Running
<1>3. MasksOK'
  BY <1>1, SameMasks DEF Running
<1> QED
  BY <1>1, <1>2, <1>3 DEF Running

LEMMA InitExecInv == ExecInit => ExecInv
<1>1. Init => phase # "run"
  BY DEF Init
<1> QED
  BY <1>1, InitLInv DEF ExecInit, ExecInv

LEMMA NextExecInv == ExecInv /\ [ExecNext]_vars => ExecInv'
<1> SUFFICES ASSUME ExecInv, [ExecNext]_vars PROVE ExecInv'
  OBVIOUS
<1>1. CASE Lower
  <2>1. phase # "run" /\ phase' # "run" /\ Next /\ UNCHANGED choice
    BY <1>1, LoweringIsNotRun DEF Lower, runVars
  <2> QED
    BY <2>1, NextLInv DEF ExecInv
<1>2. CASE Enter
  BY <1>2, EnterRuns DEF ExecInv, Enter
<1>3. CASE Run
  BY <1>3, RunKeepsRunning, RunUnchanged DEF ExecInv, Run
<1>4. CASE UNCHANGED vars
  <2>1. UNCHANGED lowerVars /\ UNCHANGED <<phase, choice>>
    BY <1>4 DEF vars, lowerVars, passVars, runVars
  <2>2. CASE phase = "run"
    BY <2>1, <2>2, <1>4, StutterRunning DEF ExecInv
  <2>3. CASE phase # "run"
    BY <2>1, <2>3, NextLInv DEF ExecInv
  <2> QED
    BY <2>2, <2>3
<1> QED
  BY <1>1, <1>2, <1>3, <1>4 DEF ExecNext, Finished

-----------------------------------------------------------------------------
(* Theorems.                                                               *)

(***************************************************************************)
(* The lowering keeps the graph of the source. In the function it leaves,  *)
(* and while that runs, every block has a source block it is or leads to   *)
(* (Home) and branches as that one does, each goto has for JIP the first   *)
(* join that may be resumed after it, the UIP among them, and each join    *)
(* that has a JIP likewise.                                                *)
(***************************************************************************)
THEOREM LoweredIsSource == ExecSpec => [](phase \in {"lowered", "run"} => Static)
<1>1. ExecInv => (phase \in {"lowered", "run"} => Static)
  BY LoweredStatic DEF ExecInv, Running
<1> QED
  BY <1>1, InitExecInv, NextExecInv, PTL DEF ExecSpec

(***************************************************************************)
(* Whatever the source function and its conditions, the channels a lowered *)
(* function was called with are at each moment enabled or waiting at one   *)
(* join, and none waits that is not a lane of the simd branches.           *)
(***************************************************************************)
THEOREM LanesPartitioned == ExecSpec => [](phase = "run" => MasksOK)
<1>1. ExecInv => (phase = "run" => MasksOK)
  BY DEF ExecInv, Running
<1> QED
  BY <1>1, InitExecInv, NextExecInv, PTL DEF ExecSpec

-----------------------------------------------------------------------------
(* When the lowered code is orderly.                                       *)

OrderlyCode == phase = "lowered" => Orderly
OrderlyInv == phase = "run" => RunInv

LEMMA EnterRunInv ==
  ASSUME LInv, Orderly, Enter
  PROVE  RunInv'
<1>1. /\ UNCHANGED staticVars /\ Running' /\ EnabledLanes' # {}
      /\ \A j \in DOMAIN JoinPoints' : RM'[j] = {}
  BY EnterRuns
<1>2. Orderly'
  BY <1>1, OrderlyKept
<1>3. WaitsAhead' /\ LeadsToUIP'
  BY <1>1 DEF WaitsAhead, LeadsToUIP
<1> QED
  BY <1>1, <1>2, <1>3 DEF RunInv

LEMMA StutterRunInv ==
  ASSUME UNCHANGED vars, RunInv
  PROVE  RunInv'
<1>1. UNCHANGED staticVars /\ UNCHANGED <<ip, EM, RM, SimdBranches, JoinPoints>>
  BY DEF vars, runVars, lowerVars, passVars, staticVars
<1>2. Running' /\ Orderly'
  BY <1>1, StutterRunning, OrderlyKept DEF RunInv
<1>3. /\ \A b, j : IsAhead(b, j)' <=> IsAhead(b, j)
      /\ \A e : IdlePath(e)' = IdlePath(e)
      /\ \A e : UIPOf(e)' = UIPOf(e)
  <2>1. \A b, j : IsAhead(b, j)' <=> IsAhead(b, j)
    BY <1>1, MayWaitKept DEF IsAhead, Number, staticVars
  <2>2. \A e : IdlePath(e)' = IdlePath(e)
    BY <1>1 DEF staticVars, IdlePath, Idle, UIPOf
  <2> QED
    BY <2>1, <2>2, <1>1 DEF staticVars, UIPOf
<1>4. WaitsAhead'
  <2> SUFFICES ASSUME ip' # NoBlock, NEW j \in DOMAIN JoinPoints, RM[j] # {}
               PROVE  IsAhead(ip, j)'
    BY <1>1 DEF WaitsAhead
  <2>1. PICK b : b = ip
    OBVIOUS
  <2>2. IsAhead(b, j)'
    BY <2>1, <1>1, <1>3 DEF RunInv, WaitsAhead
  <2> QED
    BY <2>1, <2>2, <1>1 DEF IsAhead, MayWait, Number
<1>5. LeadsToUIP'
  <2>1. EnabledLanes' = EnabledLanes
    BY <1>1 DEF EnabledLanes, Lanes
  <2> SUFFICES ASSUME ip # NoBlock, EnabledLanes = {}
               PROVE  \E e \in DOMAIN SimdBranches : ip \in IdlePath(e)' /\ RM[UIPOf(e)'] # {}
    BY <1>1, <2>1 DEF LeadsToUIP
  <2>2. PICK e \in DOMAIN SimdBranches : ip \in IdlePath(e) /\ RM[UIPOf(e)] # {}
    BY DEF RunInv, LeadsToUIP
  <2> QED
    BY <2>2, <1>3
<1> QED
  BY <1>2, <1>4, <1>5 DEF RunInv

LEMMA NextOrderlyInv ==
  ExecInv /\ OrderlyCode /\ OrderlyInv /\ [ExecNext]_vars => OrderlyInv'
<1> SUFFICES ASSUME ExecInv, OrderlyCode, OrderlyInv, [ExecNext]_vars PROVE OrderlyInv'
  OBVIOUS
<1>1. CASE Lower
  BY <1>1, LoweringIsNotRun DEF Lower, OrderlyInv
<1>2. CASE Enter
  BY <1>2, EnterRunInv DEF ExecInv, OrderlyCode, OrderlyInv, Enter
<1>3. CASE Run
  BY <1>3, RunKeepsInv, RunUnchanged DEF OrderlyInv, Run
<1>4. CASE UNCHANGED vars
  <2>1. UNCHANGED phase
    BY <1>4 DEF vars, lowerVars, passVars
  <2> QED
    BY <2>1, <1>4, StutterRunInv DEF OrderlyInv
<1> QED
  BY <1>1, <1>2, <1>3, <1>4 DEF ExecNext, Finished

LEMMA OrderlyRuns == ExecSpec /\ []OrderlyCode => [](ExecInv /\ OrderlyInv)
<1>1. ExecInit => OrderlyInv
  BY DEF ExecInit, Init, OrderlyInv
<1> QED
  BY <1>1, InitExecInv, NextExecInv, NextOrderlyInv, PTL DEF ExecSpec

(***************************************************************************)
(* Orderly code runs no instruction of the source with no lane enabled: a  *)
(* join without a JIP is only reached with a channel to enable (the        *)
(* comment at GenXSimdCFLowering.cpp:977-986).                             *)
(***************************************************************************)
THEOREM SomeLaneEnabledHolds ==
  ExecSpec /\ [](phase = "lowered" => Orderly) => []SomeLaneEnabled
<1>1. OrderlyInv => SomeLaneEnabled
  BY EnabledAtBody DEF OrderlyInv, SomeLaneEnabled, AtBody
<1> QED
  BY <1>1, OrderlyRuns, PTL DEF OrderlyCode

(***************************************************************************)
(* Orderly code that is predicated before each join where lanes can wait   *)
(* runs no unpredicated instruction of the source with a channel disabled. *)
(***************************************************************************)
THEOREM PredicatedWhenDivergedHolds ==
  ExecSpec /\ [](phase = "lowered" => Orderly /\ PredicatedWhereLanesWait)
    => []PredicatedWhenDiverged
<1> DEFINE Predicated == phase = "lowered" => PredicatedWhereLanesWait
           StillPredicated == phase = "run" => PredicatedWhereLanesWait
<1>1. ASSUME UNCHANGED staticVars, PredicatedWhereLanesWait
      PROVE  PredicatedWhereLanesWait'
  <2>1. Blocks' = Blocks /\ \A x : Number(x)' = Number(x)
    BY <1>1 DEF staticVars, Blocks, Number
  <2>2. UNCHANGED <<body, masked, source>>
    BY <1>1 DEF staticVars
  <2> QED
    BY <1>1, <2>1, <2>2, MayWaitKept DEF PredicatedWhereLanesWait
<1>2. ExecInv /\ Predicated /\ StillPredicated /\ [ExecNext]_vars => StillPredicated'
  <2> SUFFICES ASSUME ExecInv, Predicated, StillPredicated, [ExecNext]_vars
               PROVE  StillPredicated'
    OBVIOUS
  <2>1. CASE Lower
    BY <2>1, LoweringIsNotRun DEF Lower
  <2>2. CASE Enter
    BY <2>2, <1>1, EnterRuns DEF ExecInv, Enter
  <2>3. CASE Run
    BY <2>3, <1>1, RunUnchanged DEF ExecInv, Run
  <2>4. CASE UNCHANGED vars
    <3>1. UNCHANGED staticVars /\ UNCHANGED phase
      BY <2>4 DEF vars, lowerVars, passVars, staticVars
    <3> QED
      BY <3>1, <1>1
  <2> QED
    BY <2>1, <2>2, <2>3, <2>4 DEF ExecNext, Finished
<1>3. OrderlyInv /\ StillPredicated => PredicatedWhenDiverged
  <2> SUFFICES ASSUME RunInv, PredicatedWhereLanesWait, AtBody, EM # Channels
               PROVE  masked[ip] = Width
    BY DEF OrderlyInv, PredicatedWhenDiverged, AtBody
  <2>1. /\ ip \in Blocks /\ ip # NoBlock /\ body[ip] # NoBlock /\ ip \notin DOMAIN JoinPoints
        /\ Static /\ MasksOK /\ WaitsAhead
    BY DEF AtBody, RunInv, Running, Static, JoinOK
  <2>2. CASE callMask # Channels
    <3>1. source.cmWidth # 0 /\ source.cmWidth \in {0, Width} /\ Width \in Nat \ {0}
      BY <2>1, <2>2, ExecAssumption DEF MasksOK, Static, GraphOK
    <3> QED
      BY <3>1, <2>1 DEF PredicatedWhereLanesWait
  <2>3. CASE callMask = Channels
    <3>1. PICK c \in Channels : c \notin EM
      BY <2>1 DEF MasksOK
    <3>2. PICK j \in 1 .. MaxBlocks : RM[j] # {}
      <4>1. EM \cup UNION {RM[b] : b \in 1 .. MaxBlocks} = Channels
        BY <2>1, <2>3 DEF MasksOK, M!MaskPartition, M!Complete
      <4>2. c \in UNION {RM[b] : b \in 1 .. MaxBlocks}
        BY <3>1, <4>1
      <4> QED
        BY <4>2
    <3>3. j \in DOMAIN JoinPoints /\ j \in Blocks
      BY <3>2, <2>1 DEF MasksOK, Static
    <3>4. Number(ip) < Number(j) /\ MayWait(ip, j)
      BY <3>2, <3>3, <2>1 DEF WaitsAhead, IsAhead
    <3> QED
      BY <3>3, <3>4, <2>1 DEF PredicatedWhereLanesWait
  <2> QED
    BY <2>2, <2>3
<1>4. ExecInit => StillPredicated
  BY DEF ExecInit, Init
<1> QED
  <2>1. (phase = "lowered" => Orderly /\ PredicatedWhereLanesWait) => OrderlyCode /\ Predicated
    BY DEF OrderlyCode
  <2> QED
    BY <2>1, <1>2, <1>3, <1>4, OrderlyRuns, PTL DEF ExecSpec

-----------------------------------------------------------------------------
(***************************************************************************)
(* Where the lanes are in the source. em, rm and mask are EM, RM and the   *)
(* call mask, now or after a step.                                         *)
(***************************************************************************)
Split(em, rm, mask) ==
  /\ \A j \in 1 .. MaxBlocks : em \cap rm[j] = {}
  /\ \A j, k \in 1 .. MaxBlocks : j # k => rm[j] \cap rm[k] = {}
  /\ em \cup UNION {rm[j] : j \in 1 .. MaxBlocks} = mask
  /\ \A j \in 1 .. MaxBlocks : rm[j] # {} => j \in Blocks

PcOf(home, c, i, em, rm, mask) ==
  IF c \notin mask THEN NoBlock
  ELSE IF c \in em THEN home[i]
  ELSE home[M!WaitsAt(rm, c)]

IsPc(pc, home, c, i, em, rm, mask) ==
  /\ c \notin mask => pc = NoBlock
  /\ c \in em => pc = home[i]
  /\ \A j \in 1 .. MaxBlocks : c \in rm[j] => pc = home[j]
  /\ c \in mask => c \in em \/ \E j \in 1 .. MaxBlocks : c \in rm[j]

LEMMA WaitsAtJoin ==
  ASSUME NEW em, NEW rm, NEW mask, Split(em, rm, mask), NEW c, NEW j \in 1 .. MaxBlocks, c \in rm[j]
  PROVE  M!WaitsAt(rm, c) = j
<1>1. \A k \in 1 .. MaxBlocks : c \in rm[k] => k = j
  BY DEF Split
<1>2. (CHOOSE k \in 1 .. MaxBlocks : c \in rm[k]) = j
  BY <1>1
<1> QED
  BY <1>2 DEF M!WaitsAt

LEMMA PcIs ==
  ASSUME NEW em, NEW rm, NEW mask, Split(em, rm, mask), NEW home, NEW c, NEW i
  PROVE  IsPc(PcOf(home, c, i, em, rm, mask), home, c, i, em, rm, mask)
<1>1. em \cup UNION {rm[j] : j \in 1 .. MaxBlocks} = mask
  BY DEF Split
<1>2. c \in em => c \in mask
  BY <1>1
<1>3. ASSUME NEW j \in 1 .. MaxBlocks, c \in rm[j]
      PROVE  PcOf(home, c, i, em, rm, mask) = home[j]
  <2>1. c \in mask
    BY <1>1, <1>3
  <2>2. c \notin em
    BY <1>3 DEF Split
  <2>3. M!WaitsAt(rm, c) = j
    BY <1>3, WaitsAtJoin
  <2> QED
    BY <2>1, <2>2, <2>3 DEF PcOf
<1>4. c \in mask => c \in em \/ \E j \in 1 .. MaxBlocks : c \in rm[j]
  BY <1>1
<1> QED
  BY <1>2, <1>3, <1>4 DEF PcOf, IsPc

LEMMA SplitNow ==
  ASSUME Running
  PROVE  Split(EM, RM, callMask)
BY DEF Running, Static, MasksOK, M!MaskPartition, M!Disjoint, M!Complete, Split

LEMMA SplitNext ==
  ASSUME Static, Running', UNCHANGED staticVars
  PROVE  Split(EM', RM', callMask')
<1>1. MasksOK' /\ DOMAIN JoinPoints' \subseteq Blocks
  BY DEF Running, Static, staticVars
<1> QED
  BY <1>1 DEF MasksOK, M!MaskPartition, M!Disjoint, M!Complete, Split

LEMMA LanePcNow ==
  ASSUME Running, phase = "run", ip # NoBlock,
         NEW home, NEW rank, Leads(home, rank), NEW c \in Lanes(Width)
  PROVE  IsPc(LanePc[c], home, c, ip, EM, RM, callMask)
<1>1. Static /\ ip \in Blocks /\ Split(EM, RM, callMask)
  BY SplitNow DEF Running
<1> SUFFICES LanePc[c] = PcOf(home, c, ip, EM, RM, callMask)
  BY <1>1, PcIs
<1>2. CASE c \notin callMask
  BY <1>2 DEF LanePc, PcOf
<1>3. CASE c \in callMask /\ c \in EM
  <2>1. Home(ip) = home[ip]
    BY <1>1, HomeIs
  <2> QED
    BY <2>1, <1>3 DEF LanePc, PcOf
<1>4. CASE c \in callMask /\ c \notin EM
  <2>1. PICK j \in 1 .. MaxBlocks : c \in RM[j]
    BY <1>1, <1>4 DEF Split
  <2>2. M!WaitsAt(RM, c) = j /\ j \in Blocks
    BY <1>1, <2>1, WaitsAtJoin DEF Split
  <2>3. Home(j) = home[j]
    BY <1>1, <2>2, HomeIs
  <2>4. LanePc[c] = Home(M!WaitsAt(RM, c))
    BY <1>4 DEF LanePc
  <2> QED
    BY <2>2, <2>3, <2>4, <1>4 DEF PcOf
<1> QED
  BY <1>2, <1>3, <1>4

LEMMA LanePcNext ==
  ASSUME Static, Running', UNCHANGED staticVars, phase' = "run", ip' # NoBlock,
         NEW home, NEW rank, Leads(home, rank), NEW c \in Lanes(Width)
  PROVE  IsPc(LanePc'[c], home, c, ip', EM', RM', callMask')
<1>1. Split(EM', RM', callMask') /\ ip' \in Blocks
  BY SplitNext, StaticKept DEF Running
<1>2. \A b \in Blocks : Home(b)' = home[b]
  BY <1>1, HomeKept, HomeIs
<1>3. LanePc' = [d \in Lanes(Width) |->
                   IF d \notin callMask' THEN NoBlock
                   ELSE IF d \in EM' THEN Home(ip)'
                   ELSE Home(M!WaitsAt(RM, d))']
  BY DEF LanePc, Lanes
<1> SUFFICES LanePc'[c] = PcOf(home, c, ip', EM', RM', callMask')
  BY <1>1, PcIs
<1>4. CASE c \notin callMask'
  BY <1>3, <1>4 DEF PcOf
<1>5. CASE c \in callMask' /\ c \in EM'
  <2>1. PICK b \in Blocks : b = ip'
    BY <1>1
  <2>2. Home(ip)' = Home(b)'
    BY <2>1 DEF Home
  <2> QED
    BY <2>1, <2>2, <1>2, <1>3, <1>5 DEF PcOf
<1>6. CASE c \in callMask' /\ c \notin EM'
  <2>1. PICK j \in 1 .. MaxBlocks : c \in RM'[j]
    BY <1>1, <1>6 DEF Split
  <2>2. M!WaitsAt(RM', c) = j /\ j \in Blocks
    BY <1>1, <2>1, WaitsAtJoin DEF Split
  <2>3. Home(M!WaitsAt(RM, c))' = Home(j)'
    BY <2>2 DEF Home
  <2> QED
    BY <2>2, <2>3, <1>2, <1>3, <1>6 DEF PcOf
<1> QED
  BY <1>4, <1>5, <1>6

-----------------------------------------------------------------------------
(* The steps of the lowered function are steps of the source.              *)

LEMMA LanesAtBody ==
  ASSUME RunInv, phase = "run", ip # NoBlock, body[ip] # NoBlock
  PROVE  /\ Src!LanesAt(body[ip]) = EnabledLanes
         /\ body[ip] \in {LanePc[c] : c \in Src!Active}
<1>1. /\ Running /\ Static /\ ip \in Blocks /\ WaitsAhead /\ JoinsLeadForward
      /\ Split(EM, RM, callMask)
  BY SplitNow DEF RunInv, Running, Orderly
<1>2. PICK home, rank : Leads(home, rank)
  BY <1>1 DEF Static, HomesOK
<1>3. home[ip] = body[ip]
  BY <1>1, <1>2 DEF Leads
<1>4. \A c \in Lanes(Width) : IsPc(LanePc[c], home, c, ip, EM, RM, callMask)
  BY <1>1, <1>2, LanePcNow
<1>5. ASSUME NEW c \in Lanes(Width), c \in EM PROVE LanePc[c] = body[ip]
  BY <1>3, <1>4, <1>5 DEF IsPc
<1>6. ASSUME NEW c \in Lanes(Width), c \notin EM PROVE LanePc[c] # body[ip]
  <2>1. CASE c \notin callMask
    BY <2>1, <1>1, <1>4 DEF IsPc, NoBlock
  <2>2. CASE c \in callMask
    <3>1. PICK j \in 1 .. MaxBlocks : c \in RM[j]
      BY <2>2, <1>4, <1>6 DEF IsPc
    <3>2. j \in DOMAIN JoinPoints /\ j \in Blocks /\ body[j] = NoBlock
      BY <3>1, <1>1 DEF Running, MasksOK, Static, JoinOK
    <3>3. Number(ip) < Number(j)
      BY <3>1, <3>2, <1>1 DEF WaitsAhead, IsAhead
    <3>4. Home(j) = home[j] /\ LanePc[c] = home[j]
      BY <3>1, <3>2, <1>1, <1>2, <1>4, HomeIs DEF IsPc
    <3>5. Number(ip) \in Nat /\ Number(j) \in Nat
      BY <1>1, <3>2, GraphNumbers DEF Static
    <3> QED
      BY <3>2, <3>3, <3>4, <3>5, <1>1 DEF JoinsLeadForward
  <2> QED
    BY <2>1, <2>2
<1>7. Src!LanesAt(body[ip]) = EnabledLanes
  BY <1>5, <1>6 DEF Src!LanesAt, EnabledLanes
<1>8. PICK c \in Lanes(Width) : c \in EM
  BY EnabledAtBody DEF EnabledLanes
<1>9. c \in Src!Active
  BY <1>5, <1>8 DEF Src!Active, Src!Outside, NoBlock
<1> QED
  BY <1>5, <1>7, <1>8, <1>9

\* The source terminator of a block with a body.
LEMMA SourceTerm ==
  ASSUME Static, NEW home, NEW rank, Leads(home, rank), NEW b \in Blocks, body[b] # NoBlock
  PROVE  LET s == source.term[body[b]] IN
         /\ s.kind = term[b].kind /\ s.width = term[b].width
         /\ term[b].kind # "ret" => home[term[b].succ[1]] = s.succ[SourceLeg(term[b], 1)]
         /\ term[b].kind = "cond" => home[term[b].succ[2]] = s.succ[SourceLeg(term[b], 2)]
         /\ home[b] = body[b]
<1>1. IsKept(term[b], source.term[body[b]], home) /\ home[b] = body[b] /\ GraphOK
  BY DEF Leads, Static
<1>2. term[b].kind # "ret" => 1 \in 1 .. Len(term[b].succ)
  <2>1. Len(term[b].succ) \in Nat /\ (term[b].kind # "ret" => Len(term[b].succ) >= 1)
    BY <1>1, LegsOf
  <2> QED
    BY <2>1
<1>3. term[b].kind = "cond" => 2 \in 1 .. Len(term[b].succ)
  <2>1. term[b].kind = "cond" => Len(term[b].succ) = 2
    BY <1>1, LegsOf
  <2> QED
    BY <2>1, SMTT(30)
<1> QED
  BY <1>1, <1>2, <1>3 DEF IsKept

\* A step that leaves alone the lanes that are not enabled and sends those that
\* are to Dest does that to their places in the source.
LEMMA LanesMove ==
  ASSUME RunInv, RunInv', phase = "run", phase' = "run", UNCHANGED <<staticVars, callMask>>,
         ip # NoBlock, ip' # NoBlock, body[ip] # NoBlock,
         NEW home, NEW rank, Leads(home, rank), NEW T, T \subseteq EnabledLanes,
         NEW u \in 1 .. MaxBlocks,
         EM' = EM \ T, RM'[u] = RM[u] \cup T,
         \A j \in 1 .. MaxBlocks : j # u => RM'[j] = RM[j]
  PROVE  LanePc' = [c \in Lanes(Width) |->
                      IF c \notin EnabledLanes THEN LanePc[c]
                      ELSE IF c \in T THEN home[u] ELSE home[ip']]
<1>1. Running /\ Static /\ Running' /\ UNCHANGED staticVars
  BY DEF RunInv, Running
<1>2. callMask' = callMask
  OBVIOUS
<1>3. \A c \in Lanes(Width) : /\ IsPc(LanePc[c], home, c, ip, EM, RM, callMask)
                              /\ IsPc(LanePc'[c], home, c, ip', EM', RM', callMask')
  BY <1>1, LanePcNow, LanePcNext
<1>4. ASSUME NEW c \in Lanes(Width), c \notin EM PROVE LanePc'[c] = LanePc[c]
  <2>1. CASE c \notin callMask
    BY <2>1, <1>2, <1>3 DEF IsPc
  <2>2. CASE c \in callMask
    <3>1. PICK j \in 1 .. MaxBlocks : c \in RM[j]
      BY <2>2, <1>3, <1>4 DEF IsPc
    <3>2. c \in RM'[j]
      BY <3>1
    <3> QED
      BY <3>1, <3>2, <1>3 DEF IsPc
  <2> QED
    BY <2>1, <2>2
<1>5. ASSUME NEW c \in T PROVE LanePc'[c] = home[u]
  <2>1. c \in Lanes(Width) /\ c \in RM'[u]
    BY DEF EnabledLanes
  <2> QED
    BY <2>1, <1>3 DEF IsPc
<1>6. ASSUME NEW c \in EnabledLanes \ T PROVE LanePc'[c] = home[ip']
  <2>1. c \in Lanes(Width) /\ c \in EM'
    BY DEF EnabledLanes
  <2> QED
    BY <2>1, <1>3 DEF IsPc
<1>7. LanePc' = [c \in Lanes(Width) |-> LanePc'[c]]
  BY DEF LanePc, Lanes
<1> QED
  BY <1>4, <1>5, <1>6, <1>7 DEF EnabledLanes

LEMMA GotoIsSource ==
  ASSUME RunInv, phase = "run", Run, NEW first \in SUBSET EnabledLanes, RunGoto(first)
  PROVE  Src!Next
<1> DEFINE b == ip
           T == Taking(first)
           u == UIPOf(ip)
           s == source.term[body[ip]]
<1>1. /\ Running /\ Static /\ RunInv' /\ phase' = "run"
      /\ UNCHANGED <<staticVars, callMask>> /\ UNCHANGED source
      /\ TakesGoto(T) /\ ip \in Blocks /\ ip # NoBlock /\ GotoOK(ip)
      /\ ip' \in Blocks /\ ip' # NoBlock /\ body[ip] # NoBlock
  <2>1. Running /\ Static /\ RunInv' /\ UNCHANGED <<staticVars, phase>> /\ UNCHANGED source
    BY RunKeepsInv, RunUnchanged DEF RunInv, Running, staticVars
  <2>2. TakesGoto(T) /\ UNCHANGED callMask /\ ip' \in Blocks
    BY <2>1, RunGotoIs, NextBlocks
  <2>3. ip \in DOMAIN SimdBranches /\ ip \in Blocks /\ GotoOK(ip)
    BY <2>1, <2>2 DEF TakesGoto, Static
  <2> QED
    BY <2>1, <2>2, <2>3 DEF GotoOK, NoBlock, Blocks
<1>2. PICK home, rank : Leads(home, rank)
  BY <1>1 DEF Static, HomesOK
<1>3. u \in 1 .. MaxBlocks
  <2>1. Len(layout) \in Nat /\ MaxBlocks \in Nat /\ Len(layout) <= MaxBlocks
    BY <1>1, ExecAssumption, Numbers DEF Running, Static, GraphOK
  <2>2. u \in Blocks
    BY <1>1 DEF Static, GotoOK
  <2> QED
    BY <2>1, <2>2 DEF Blocks
<1>4. T \subseteq EnabledLanes
  BY <1>1 DEF TakesGoto
<1>5. LanePc' = [c \in Lanes(Width) |->
                   IF c \notin EnabledLanes THEN LanePc[c]
                   ELSE IF c \in T THEN home[u] ELSE home[ip']]
  <2>1. /\ EM' = EM \ T /\ RM'[u] = RM[u] \cup T
        /\ \A j \in 1 .. MaxBlocks : j # u => RM'[j] = RM[j]
    BY <1>1 DEF TakesGoto
  <2> HIDE DEF T, u
  <2> QED
    BY <2>1, <1>1, <1>2, <1>3, <1>4, LanesMove
<1>6. /\ Src!LanesAt(body[ip]) = EnabledLanes
      /\ body[ip] \in {LanePc[c] : c \in Src!Active}
  BY <1>1, LanesAtBody
<1>7. /\ s.kind = term[ip].kind /\ s.width = term[ip].width
      /\ home[u] = s.succ[SourceLeg(term[ip], 1)]
      /\ IsCond(ip) => home[code[ip].next] = s.succ[SourceLeg(term[ip], 2)]
  BY <1>1, <1>2, SourceTerm DEF GotoOK, UIPOf, IsCond
<1>8. CASE IsCond(ip)
  <2>1. ASSUME NEW c \in EnabledLanes \ T PROVE ip' = code[ip].next
    <3>1. EnabledLanes' # {}
      BY <1>1, <2>1 DEF TakesGoto, EnabledLanes, Lanes
    <3> QED
      BY <3>1, <1>1 DEF TakesGoto
  <2>2. ASSUME NEW c \in EnabledLanes
        PROVE  (IF c \in T THEN home[u] ELSE home[ip']) = IF c \in first THEN s.succ[1] ELSE s.succ[2]
    <3>1. CASE term[ip].inv
      <4>1. c \in T <=> c \notin first
        BY <3>1, <1>8 DEF Taking
      <4>2. home[u] = s.succ[2] /\ home[code[ip].next] = s.succ[1]
        BY <3>1, <1>7, <1>8 DEF SourceLeg
      <4> HIDE DEF T, u, s
      <4> QED
        BY <4>1, <4>2, <2>1, <2>2
    <3>2. CASE ~term[ip].inv
      <4>1. c \in T <=> c \in first
        BY <3>2, <1>8 DEF Taking
      <4>2. home[u] = s.succ[1] /\ home[code[ip].next] = s.succ[2]
        BY <3>2, <1>7, <1>8 DEF SourceLeg
      <4> HIDE DEF T, u, s
      <4> QED
        BY <4>1, <4>2, <2>1, <2>2
    <3> QED
      BY <3>1, <3>2
  <2>3. s.kind = "cond" /\ choice' = first /\ (s.width = 0 => first \in {{}, EnabledLanes})
    BY <1>7, <1>8 DEF RunGoto, IsCond
  <2>4. LanePc' = [c \in Lanes(Width) |->
                     IF c \notin EnabledLanes THEN LanePc[c]
                     ELSE IF c \in first THEN s.succ[1] ELSE s.succ[2]]
    <3> HIDE DEF T, u, s
    <3> QED
      BY <1>5, <2>2
  <2>5. Src!Conditional(body[ip], first)
    BY <1>1, <1>6, <2>3, <2>4 DEF Src!Conditional
  <2> QED
    BY <1>6, <2>5 DEF Src!Next
<1>9. CASE ~IsCond(ip)
  <2>1. T = EnabledLanes /\ first = {} /\ choice' = {}
    BY <1>9 DEF Taking, RunGoto
  <2>2. s.kind = "br"
    BY <1>1, <1>7, <1>9, TerminatorFields DEF IsCond, GotoOK, Static, GraphOK
  <2>3. home[u] = s.succ[1]
    BY <1>1, <1>7, <1>9 DEF Static, SourceLeg
  <2>4. LanePc' = [c \in Lanes(Width) |->
                     IF c \in EnabledLanes THEN s.succ[1] ELSE LanePc[c]]
    <3> HIDE DEF T, u, s
    <3> QED
      BY <1>5, <2>1, <2>3
  <2>5. Src!Unconditional(body[ip])
    BY <1>1, <1>6, <2>1, <2>2, <2>4 DEF Src!Unconditional
  <2> QED
    BY <1>6, <2>5 DEF Src!Next
<1> QED
  BY <1>8, <1>9

\* A scalar branch of a block with a body sends the enabled lanes to ip'.
LEMMA ScalarMoves ==
  ASSUME RunInv, RunInv', phase = "run", phase' = "run", UNCHANGED <<staticVars, callMask>>,
         TakesScalar, ip' \in Blocks, body[ip] # NoBlock,
         NEW home, NEW rank, Leads(home, rank)
  PROVE  LanePc' = [c \in Lanes(Width) |-> IF c \notin EnabledLanes THEN LanePc[c] ELSE home[ip']]
<1>1. /\ Running /\ Static /\ ip \in Blocks /\ ip # NoBlock /\ ip' # NoBlock
      /\ EM' = EM /\ RM' = RM
  BY DEF RunInv, Running, TakesScalar, NoBlock, Blocks
<1>2. ip \in 1 .. MaxBlocks
  <2>1. Len(layout) \in Nat /\ MaxBlocks \in Nat /\ Len(layout) <= MaxBlocks
    BY <1>1, ExecAssumption, Numbers DEF Running, Static, GraphOK
  <2> QED
    BY <2>1, <1>1 DEF Blocks
<1>3. /\ EM' = EM \ {} /\ RM'[ip] = RM[ip] \cup {}
      /\ \A j \in 1 .. MaxBlocks : j # ip => RM'[j] = RM[j]
  BY <1>1
<1>4. PICK T : T = {}
  OBVIOUS
<1>5. LanePc' = [c \in Lanes(Width) |->
                   IF c \notin EnabledLanes THEN LanePc[c]
                   ELSE IF c \in T THEN home[ip] ELSE home[ip']]
  BY <1>1, <1>2, <1>3, <1>4, LanesMove
<1> QED
  BY <1>4, <1>5

LEMMA BranchIsSource ==
  ASSUME RunInv, phase = "run", Run, NEW taken \in BOOLEAN, RunBranch(taken)
  PROVE  Src!Next
<1> DEFINE s == source.term[body[ip]]
<1>1. /\ Static /\ TakesScalar /\ code[ip].op = "brcond" /\ ip \in Blocks /\ ip # NoBlock
      /\ RunInv' /\ phase' = "run" /\ UNCHANGED <<staticVars, callMask>> /\ UNCHANGED source
      /\ ip' \in Blocks
  <2>1. Running /\ Static /\ RunInv' /\ UNCHANGED <<staticVars, phase>> /\ UNCHANGED source
    BY RunKeepsInv, RunUnchanged DEF RunInv, Running, staticVars
  <2>2. TakesScalar /\ UNCHANGED callMask /\ code[ip].op = "brcond" /\ ip' \in Blocks
    BY <2>1, RunScalarIs, NextBlocks
  <2> QED
    BY <2>1, <2>2 DEF TakesScalar, NoBlock, Blocks
<1>2. PICK home, rank : Leads(home, rank)
  BY <1>1 DEF Static, HomesOK
<1>3. term[ip].kind = "cond" /\ body[ip] # NoBlock
  <2>1. term[ip].kind = "cond"
    BY <1>1, OpIs
  <2> QED
    BY <2>1, <1>1, <1>2 DEF Leads
<1>4. /\ LanePc' = [c \in Lanes(Width) |-> IF c \notin EnabledLanes THEN LanePc[c] ELSE home[ip']]
      /\ Src!LanesAt(body[ip]) = EnabledLanes
      /\ body[ip] \in {LanePc[c] : c \in Src!Active}
  BY <1>1, <1>2, <1>3, ScalarMoves, LanesAtBody
<1>5. /\ s.kind = "cond" /\ ip' = (IF taken THEN code[ip].taken ELSE code[ip].next)
      /\ choice' = IF taken THEN EnabledLanes ELSE {}
  BY <1>1, <1>2, <1>3, SourceTerm DEF RunBranch, M!Branch
<1>6. home[code[ip].taken] = s.succ[1] /\ home[code[ip].next] = s.succ[2]
  <2>1. /\ ~term[ip].inv /\ code[ip].taken = term[ip].succ[1] /\ code[ip].next = term[ip].succ[2]
    BY <1>1, ScalarLegs
  <2>2. SourceLeg(term[ip], 1) = 1 /\ SourceLeg(term[ip], 2) = 2
    BY <2>1 DEF SourceLeg
  <2> QED
    BY <2>1, <2>2, <1>1, <1>2, <1>3, SourceTerm
<1>7. PICK first \in SUBSET EnabledLanes : first = choice'
  BY <1>5
<1>8. first \in {{}, EnabledLanes}
  BY <1>5, <1>7
<1>9. LanePc' = [c \in Lanes(Width) |->
                   IF c \notin EnabledLanes THEN LanePc[c]
                   ELSE IF c \in first THEN s.succ[1] ELSE s.succ[2]]
  <2> HIDE DEF s
  <2>1. CASE taken
    BY <2>1, <1>4, <1>5, <1>6, <1>7
  <2>2. CASE ~taken
    BY <2>2, <1>4, <1>5, <1>6, <1>7
  <2> QED
    BY <2>1, <2>2
<1>10. Src!Conditional(body[ip], first)
  BY <1>1, <1>4, <1>5, <1>7, <1>8, <1>9 DEF Src!Conditional
<1> QED
  BY <1>4, <1>10 DEF Src!Next

LEMMA JumpIsSource ==
  ASSUME RunInv, phase = "run", Run, RunJump, body[ip] # NoBlock
  PROVE  Src!Next
<1> DEFINE s == source.term[body[ip]]
<1>1. /\ Static /\ TakesScalar /\ code[ip].op = "br" /\ ip \in Blocks /\ ip # NoBlock
      /\ RunInv' /\ phase' = "run" /\ UNCHANGED <<staticVars, callMask>> /\ UNCHANGED source
      /\ ip' \in Blocks
  <2>1. Running /\ Static /\ RunInv' /\ UNCHANGED <<staticVars, phase>> /\ UNCHANGED source
    BY RunKeepsInv, RunUnchanged DEF RunInv, Running, staticVars
  <2>2. TakesScalar /\ UNCHANGED callMask /\ code[ip].op = "br" /\ ip' \in Blocks
    BY <2>1, RunScalarIs, NextBlocks
  <2> QED
    BY <2>1, <2>2 DEF TakesScalar, NoBlock, Blocks
<1>2. PICK home, rank : Leads(home, rank)
  BY <1>1 DEF Static, HomesOK
<1>3. term[ip].kind = "br" /\ ip' = code[ip].next
  BY <1>1, OpIs DEF RunJump, M!Jump
<1>4. /\ LanePc' = [c \in Lanes(Width) |-> IF c \notin EnabledLanes THEN LanePc[c] ELSE home[ip']]
      /\ Src!LanesAt(body[ip]) = EnabledLanes
      /\ body[ip] \in {LanePc[c] : c \in Src!Active}
  BY <1>1, <1>2, ScalarMoves, LanesAtBody
<1>5. s.kind = "br" /\ choice' = {}
  BY <1>1, <1>2, <1>3, SourceTerm DEF RunJump
<1>6. home[ip'] = s.succ[1]
  <2>1. ~term[ip].inv /\ code[ip].next = term[ip].succ[1]
    BY <1>1, ScalarLegs
  <2>2. SourceLeg(term[ip], 1) = 1
    BY <2>1 DEF SourceLeg
  <2> QED
    BY <2>1, <2>2, <1>1, <1>2, <1>3, SourceTerm
<1>7. LanePc' = [c \in Lanes(Width) |-> IF c \in EnabledLanes THEN s.succ[1] ELSE LanePc[c]]
  <2> HIDE DEF s
  <2> QED
    BY <1>4, <1>6
<1>8. Src!Unconditional(body[ip])
  BY <1>1, <1>4, <1>5, <1>7 DEF Src!Unconditional
<1> QED
  BY <1>4, <1>8 DEF Src!Next

\* Blocks with no code of the source leave the lanes where they are in it.
LEMMA LanesStay ==
  ASSUME RunInv, RunInv', phase = "run", phase' = "run", UNCHANGED <<staticVars, callMask>>,
         ip # NoBlock, ip' # NoBlock, NEW home, NEW rank, Leads(home, rank),
         \A c \in Lanes(Width) :
           /\ c \in EM => c \in EM' /\ home[ip'] = home[ip]
           /\ \A j \in 1 .. MaxBlocks : c \in RM[j] =>
                c \in RM'[j] \/ (c \in EM' /\ home[ip'] = home[j])
  PROVE  LanePc' = LanePc
<1>1. Running /\ Static /\ Running' /\ UNCHANGED staticVars /\ callMask' = callMask
  BY DEF RunInv, Running
<1>2. \A c \in Lanes(Width) : /\ IsPc(LanePc[c], home, c, ip, EM, RM, callMask)
                              /\ IsPc(LanePc'[c], home, c, ip', EM', RM', callMask')
  BY <1>1, LanePcNow, LanePcNext
<1>3. ASSUME NEW c \in Lanes(Width) PROVE LanePc'[c] = LanePc[c]
  <2>1. CASE c \notin callMask
    BY <2>1, <1>1, <1>2 DEF IsPc
  <2>2. CASE c \in EM
    BY <2>2, <1>2 DEF IsPc
  <2>3. CASE c \in callMask /\ c \notin EM
    <3>1. PICK j \in 1 .. MaxBlocks : c \in RM[j]
      BY <2>3, <1>2 DEF IsPc
    <3>2. LanePc[c] = home[j]
      BY <3>1, <1>2 DEF IsPc
    <3>3. CASE c \in RM'[j]
      BY <3>2, <3>3, <1>2 DEF IsPc
    <3>4. CASE c \in EM' /\ home[ip'] = home[j]
      BY <3>2, <3>4, <1>2 DEF IsPc
    <3> QED
      BY <3>1, <3>3, <3>4
  <2> QED
    BY <2>1, <2>2, <2>3
<1>4. /\ LanePc' = [c \in Lanes(Width) |-> LanePc'[c]]
      /\ LanePc = [c \in Lanes(Width) |-> LanePc[c]]
  BY DEF LanePc, Lanes
<1> QED
  BY <1>3, <1>4

LEMMA JoinIsStutter ==
  ASSUME RunInv, phase = "run", Run, RunJoin
  PROVE  UNCHANGED Src!vars
<1>1. /\ Running /\ Static /\ TakesJoin /\ ip \in DOMAIN JoinPoints /\ ip \in Blocks /\ ip # NoBlock
      /\ RunInv' /\ phase' = "run" /\ UNCHANGED <<staticVars, callMask>>
      /\ UNCHANGED <<source, choice>> /\ ip' \in Blocks /\ ip' # NoBlock
  <2>1. Running /\ Static /\ RunInv' /\ UNCHANGED <<staticVars, phase>> /\ UNCHANGED source
    BY RunKeepsInv, RunUnchanged DEF RunInv, Running, staticVars
  <2>2. TakesJoin /\ UNCHANGED <<callMask, choice>> /\ ip' \in Blocks
    BY <2>1, RunJoinIs, NextBlocks
  <2> QED
    BY <2>1, <2>2 DEF TakesJoin, Static, NoBlock, Blocks
<1>2. PICK home, rank : Leads(home, rank)
  BY <1>1 DEF Static, HomesOK
<1>3. home[ip] = home[code[ip].next]
  <2>1. body[ip] = NoBlock
    BY <1>1 DEF Static, JoinOK
  <2> QED
    BY <2>1, <1>1, <1>2, BodylessFalls
<1>4. /\ EM' = EM \cup RM[ip]
      /\ \A j \in 1 .. MaxBlocks : j # ip => RM'[j] = RM[j]
      /\ EnabledLanes' # {} => ip' = code[ip].next
  BY <1>1 DEF TakesJoin
<1>5. ASSUME NEW c \in Lanes(Width)
      PROVE  /\ c \in EM => c \in EM' /\ home[ip'] = home[ip]
             /\ \A j \in 1 .. MaxBlocks : c \in RM[j] =>
                  c \in RM'[j] \/ (c \in EM' /\ home[ip'] = home[j])
  <2>1. c \in EM' => ip' = code[ip].next
    BY <1>4 DEF EnabledLanes, Lanes
  <2> QED
    BY <2>1, <1>3, <1>4
<1>6. LanePc' = LanePc
  BY <1>1, <1>2, <1>5, LanesStay
<1> QED
  BY <1>1, <1>6 DEF Src!vars

LEMMA JumpIsStutter ==
  ASSUME RunInv, phase = "run", Run, RunJump, body[ip] = NoBlock
  PROVE  UNCHANGED Src!vars
<1>1. /\ Running /\ Static /\ TakesScalar /\ ip \in Blocks /\ ip # NoBlock
      /\ RunInv' /\ phase' = "run" /\ UNCHANGED <<staticVars, callMask>>
      /\ UNCHANGED <<source, choice, EM, RM>> /\ ip' = code[ip].next /\ ip' # NoBlock
  <2>1. Running /\ Static /\ RunInv' /\ UNCHANGED <<staticVars, phase>> /\ UNCHANGED source
    BY RunKeepsInv, RunUnchanged DEF RunInv, Running, staticVars
  <2>2. TakesScalar /\ UNCHANGED callMask /\ ip' \in Blocks
    BY <2>1, RunScalarIs, NextBlocks
  <2>3. choice' = choice /\ ip' = code[ip].next
    BY DEF RunJump, M!Jump
  <2> QED
    BY <2>1, <2>2, <2>3 DEF TakesScalar, NoBlock, Blocks
<1>2. PICK home, rank : Leads(home, rank)
  BY <1>1 DEF Static, HomesOK
<1>3. home[ip] = home[ip']
  BY <1>1, <1>2, BodylessFalls
<1>4. LanePc' = LanePc
  BY <1>1, <1>2, <1>3, LanesStay
<1> QED
  BY <1>1, <1>4 DEF Src!vars

LEMMA ReturnIsSource ==
  ASSUME RunInv, phase = "run", Run, RunReturn
  PROVE  Src!Next
<1>1. /\ Running /\ Static /\ code[ip].op = "ret" /\ ip \in Blocks /\ ip # NoBlock
      /\ UNCHANGED source /\ ip' = NoBlock /\ choice' = {}
  BY RunReturnIs, RunUnchanged DEF RunInv, Running, TakesReturn, NoBlock, Blocks, staticVars
<1>2. PICK home, rank : Leads(home, rank)
  BY <1>1 DEF Static, HomesOK
<1>3. term[ip].kind = "ret" /\ body[ip] # NoBlock
  <2>1. term[ip].kind = "ret"
    BY <1>1, OpIs
  <2> QED
    BY <2>1, <1>1, <1>2 DEF Leads
<1>4. source.term[body[ip]].kind = "ret" /\ home[ip] = body[ip]
  BY <1>1, <1>2, <1>3, SourceTerm
<1>5. /\ Src!LanesAt(body[ip]) = EnabledLanes
      /\ body[ip] \in {LanePc[c] : c \in Src!Active}
  BY <1>1, <1>3, LanesAtBody
<1>6. Src!Active = Src!LanesAt(body[ip])
  <2>1. \A c \in Lanes(Width) : IsPc(LanePc[c], home, c, ip, EM, RM, callMask)
    BY <1>1, <1>2, LanePcNow
  <2>2. \A j \in 1 .. MaxBlocks : RM[j] = {}
    BY <1>1, NoneWaitAtReturn
  <2>3. ASSUME NEW c \in Lanes(Width), LanePc[c] # NoBlock PROVE LanePc[c] = body[ip]
    BY <2>1, <2>2, <2>3, <1>4 DEF IsPc
  <2> QED
    BY <2>3, <1>3 DEF Src!Active, Src!LanesAt, Src!Outside, NoBlock
<1>7. LanePc' = [c \in Lanes(Width) |-> 0]
  BY <1>1 DEF LanePc, Lanes, NoBlock
<1>8. Src!Return(body[ip])
  BY <1>1, <1>4, <1>6, <1>7 DEF Src!Return, Src!Outside
<1> QED
  BY <1>5, <1>8 DEF Src!Next

LEMMA RunIsSource ==
  ASSUME RunInv, phase = "run", Run
  PROVE  [Src!Next]_(Src!vars)
<1>1. ASSUME NEW first \in SUBSET EnabledLanes, RunGoto(first) PROVE Src!Next
  BY <1>1, GotoIsSource
<1>2. ASSUME NEW taken \in BOOLEAN, RunBranch(taken) PROVE Src!Next
  BY <1>2, BranchIsSource
<1>3. ASSUME RunJump PROVE [Src!Next]_(Src!vars)
  BY <1>3, JumpIsSource, JumpIsStutter
<1> QED
  BY <1>1, <1>2, <1>3, JoinIsStutter, ReturnIsSource DEF Run

LEMMA EnterIsCall ==
  ASSUME LInv, choice = {}, Enter
  PROVE  Src!Next
<1>1. /\ UNCHANGED staticVars /\ Running' /\ Number(ip') = 1 /\ ip' \in Blocks
      /\ Static /\ Static' /\ Blocks' = Blocks
      /\ \A j \in DOMAIN JoinPoints' : RM'[j] = {}
  <2>1. Static
    BY LoweredStatic DEF Enter
  <2> QED
    BY <2>1, EnterRuns, StaticKept
<1>2. phase # "run" /\ phase' = "run" /\ choice' = {} /\ UNCHANGED source /\ ip' # NoBlock
  BY <1>1 DEF Enter, NoBlock, Blocks
<1>3. PICK home, rank : Leads(home, rank)
  BY <1>1 DEF Static, HomesOK
<1>4. home[ip'] = 1
  BY <1>1, <1>3 DEF Leads
<1>5. \A c \in Lanes(Width) : IsPc(LanePc'[c], home, c, ip', EM', RM', callMask')
  BY <1>1, <1>2, <1>3, LanePcNext
<1>6. EM' = callMask'
  BY DEF Enter
<1>7. PICK mask \in SUBSET Lanes(Width) : mask = callMask' \cap Lanes(Width)
  OBVIOUS
<1>8. ASSUME NEW c \in Lanes(Width)
      PROVE  LanePc'[c] = IF c \in mask THEN 1 ELSE 0
  BY <1>4, <1>5, <1>6, <1>7 DEF IsPc, NoBlock
<1>9. LanePc' = [c \in Lanes(Width) |-> LanePc'[c]]
  BY DEF LanePc, Lanes
<1>10. Src!Active = {}
  BY <1>2 DEF Src!Active, Src!Outside, LanePc, NoBlock
<1>11. Src!Call(mask)
  BY <1>2, <1>8, <1>9, <1>10 DEF Src!Call, Src!Outside
<1> QED
  BY <1>11 DEF Src!Next

(***************************************************************************)
(* The lowered function implements the source function: whatever the       *)
(* conditions are, each lane goes through the source as SourceCF says, the *)
(* lanes of a block together, and the blocks the pass made do nothing.     *)
(***************************************************************************)
THEOREM LoweredImplementsSource ==
  ExecSpec /\ [](phase = "lowered" => Orderly) => ImplementsSource
<1>1. ExecInit => Src!Init
  BY DEF ExecInit, Init, Src!Init, LanePc, Src!Outside, NoBlock
<1>2. ExecInv /\ OrderlyInv /\ [ExecNext]_vars => [Src!Next]_(Src!vars)
  <2> SUFFICES ASSUME ExecInv, OrderlyInv, [ExecNext]_vars PROVE [Src!Next]_(Src!vars)
    OBVIOUS
  <2>1. CASE Lower
    <3>1. phase # "run" /\ phase' # "run" /\ UNCHANGED <<source, choice>>
      BY <2>1, LoweringIsNotRun DEF Lower, runVars
    <3>2. LanePc' = LanePc
      BY <3>1 DEF LanePc, Lanes
    <3> QED
      BY <3>1, <3>2 DEF Src!vars
  <2>2. CASE Enter
    BY <2>2, EnterIsCall DEF ExecInv, Enter
  <2>3. CASE Run
    BY <2>3, RunIsSource DEF OrderlyInv, Run
  <2>4. CASE UNCHANGED vars
    <3>1. UNCHANGED <<phase, ip, EM, RM, callMask, choice, source, body, code, layout>>
      BY <2>4 DEF vars, runVars, lowerVars, passVars
    <3>2. LanePc' = LanePc
      BY <3>1 DEF LanePc, Lanes, Home, Blocks
    <3> QED
      BY <3>1, <3>2 DEF Src!vars
  <2> QED
    BY <2>1, <2>2, <2>3, <2>4 DEF ExecNext, Finished
<1> QED
  BY <1>1, <1>2, OrderlyRuns, PTL DEF ExecSpec, OrderlyCode, ImplementsSource, Src!Spec
=============================================================================
