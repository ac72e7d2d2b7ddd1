------------------------ MODULE SimdCFLowering_proofs ------------------------
(***************************************************************************)
(* Proofs about the lowering of one function, for every control flow graph,*)
(* every width and every number of blocks.                                 *)
(***************************************************************************)
EXTENDS SimdCFLowering, FiniteSetTheorems, SequenceTheorems, WellFoundedInduction, TLAPS

-----------------------------------------------------------------------------
(* Choices: the least of a set of naturals, a place in a sequence.         *)

LEMMA LeastExists ==
  ASSUME NEW S, S \subseteq Nat, S # {}
  PROVE  \E k \in S : \A j \in S : k <= j
<1>1. PICK k \in S : \A j \in S : <<j, k>> \notin OpToRel(<, Nat)
  BY NatLessThanWellFounded, WFMin
<1>2. ASSUME NEW j \in S PROVE k <= j
  <2>1. j \in Nat /\ k \in Nat
    OBVIOUS
  <2>2. ~(j < k)
    BY <1>1, <2>1 DEF OpToRel
  <2> QED
    BY <2>1, <2>2
<1> QED
  BY <1>2

LEMMA GreatestExists ==
  ASSUME NEW n \in Nat, NEW S, S \subseteq 0 .. n, S # {}
  PROVE  \E k \in S : \A j \in S : j <= k
<1> DEFINE T == {n - k : k \in S}
<1>1. T \subseteq Nat /\ T # {}
  OBVIOUS
<1>2. PICK t \in T : \A u \in T : t <= u
  BY <1>1, LeastExists
<1>3. PICK k \in S : t = n - k
  BY <1>2
<1>4. ASSUME NEW j \in S PROVE j <= k
  <2>1. n - k <= n - j
    BY <1>2, <1>3
  <2> QED
    BY <2>1
<1> QED
  BY <1>4

\* What InsertAt does to a sequence.
IsInserted(t, s, i, e) ==
  /\ Len(t) = Len(s) + 1
  /\ \A k \in 1 .. Len(s) + 1 :
       t[k] = IF k < i THEN s[k] ELSE IF k = i THEN e ELSE s[k - 1]

LEMMA InsertAtProperties ==
  ASSUME NEW S, NEW s \in Seq(S), NEW i \in 1 .. Len(s) + 1, NEW e \in S
  PROVE  InsertAt(s, i, e) \in Seq(S) /\ IsInserted(InsertAt(s, i, e), s, i, e)
<1> DEFINE front == SubSeq(s, 1, i - 1)
           back == SubSeq(s, i, Len(s))
           mid == front \o <<e>>
<1>0. Len(s) \in Nat /\ \A k \in 1 .. Len(s) : s[k] \in S
  OBVIOUS
<1>1. /\ front \in Seq(S) /\ Len(front) = i - 1
      /\ \A k \in 1 .. i - 1 : front[k] = s[k]
  <2>1. \A k \in 1 .. i - 1 : s[k] \in S
    BY <1>0
  <2>2. /\ front \in Seq(S)
        /\ Len(front) = IF 1 <= i - 1 THEN i - 1 - 1 + 1 ELSE 0
        /\ \A k \in 1 .. i - 1 - 1 + 1 : front[k] = s[1 + k - 1]
    BY <2>1, <1>0, SubSeqProperties
  <2> QED
    BY <2>2
<1>2. /\ back \in Seq(S) /\ Len(back) = Len(s) - i + 1
      /\ \A k \in 1 .. Len(s) - i + 1 : back[k] = s[i + k - 1]
  <2>1. \A k \in i .. Len(s) : s[k] \in S
    BY <1>0
  <2>2. /\ back \in Seq(S)
        /\ Len(back) = IF i <= Len(s) THEN Len(s) - i + 1 ELSE 0
        /\ \A k \in 1 .. Len(s) - i + 1 : back[k] = s[i + k - 1]
    BY <2>1, <1>0, SubSeqProperties
  <2> QED
    BY <2>2
<1>3. <<e>> \in Seq(S) /\ Len(<<e>>) = 1 /\ <<e>>[1] = e
  OBVIOUS
<1>4. /\ mid \in Seq(S) /\ Len(mid) = i
      /\ \A k \in 1 .. i : mid[k] = IF k < i THEN s[k] ELSE e
  <2>1. /\ mid \in Seq(S) /\ Len(mid) = Len(front) + 1
        /\ \A k \in 1 .. Len(front) + 1 :
             mid[k] = IF k <= Len(front) THEN front[k] ELSE <<e>>[k - Len(front)]
    BY <1>1, <1>3, ConcatProperties
  <2> HIDE DEF mid, front
  <2> QED
    BY <2>1, <1>1, <1>3
<1>5. /\ mid \o back \in Seq(S)
      /\ Len(mid \o back) = Len(mid) + Len(back)
      /\ \A k \in 1 .. Len(mid) + Len(back) :
           (mid \o back)[k] = IF k <= Len(mid) THEN mid[k] ELSE back[k - Len(mid)]
  BY <1>2, <1>4, ConcatProperties, ZenonT(60)
<1>6. InsertAt(s, i, e) = mid \o back
  BY DEF InsertAt
<1> HIDE DEF mid, front, back
<1>7. ASSUME NEW k \in 1 .. Len(s) + 1
      PROVE  (mid \o back)[k] =
               IF k < i THEN s[k] ELSE IF k = i THEN e ELSE s[k - 1]
  <2>1. CASE k <= i
    BY <2>1, <1>5, <1>4, <1>2, <1>0
  <2>2. CASE k > i
    <3>1. (mid \o back)[k] = back[k - i]
      BY <2>2, <1>5, <1>4, <1>2, <1>0, SMTT(30)
    <3>2. k - i \in 1 .. Len(s) - i + 1
      BY <2>2, <1>0
    <3>3. back[k - i] = s[i + (k - i) - 1]
      BY <3>2, <1>2
    <3>4. i + (k - i) - 1 = k - 1
      BY <1>0
    <3> QED
      BY <2>2, <3>1, <3>3, <3>4, <1>0
  <2>3. k <= i \/ k > i
    BY <1>0
  <2> QED
    BY <2>1, <2>2, <2>3
<1> QED
  BY <1>0, <1>2, <1>4, <1>5, <1>6, <1>7 DEF IsInserted

-----------------------------------------------------------------------------
(* The layout of the function: an enumeration of its blocks.               *)

LayoutOK ==
  /\ layout \in Seq(Nat)
  /\ Len(layout) > 0
  /\ IsInjective(layout)
  /\ Range(layout) = Blocks

LEMMA PlaceIs ==
  ASSUME NEW l, IsInjective(l), NEW i \in DOMAIN l
  PROVE  (CHOOSE j \in DOMAIN l : l[j] = l[i]) = i
BY DEF IsInjective

LEMMA Numbers ==
  ASSUME LayoutOK
  PROVE  /\ Len(layout) \in Nat /\ DOMAIN layout = Blocks
         /\ \A b \in Blocks : Number(b) \in Blocks /\ layout[Number(b)] = b
         /\ \A i \in Blocks : layout[i] \in Blocks /\ Number(layout[i]) = i
         /\ \A b, d \in Blocks : Number(b) = Number(d) => b = d
<1>1. Len(layout) \in Nat /\ DOMAIN layout = Blocks
  BY DEF LayoutOK, Blocks
<1>2. \A i \in Blocks : layout[i] \in Blocks /\ Number(layout[i]) = i
  BY <1>1, PlaceIs DEF LayoutOK, Range, Number
<1>3. ASSUME NEW b \in Blocks
      PROVE  Number(b) \in Blocks /\ layout[Number(b)] = b
  <2>1. PICK i \in Blocks : layout[i] = b
    BY <1>1 DEF LayoutOK, Range
  <2> QED
    BY <1>2, <2>1
<1> QED
  BY <1>1, <1>2, <1>3

LEMMA NextNodes ==
  ASSUME LayoutOK, NEW b \in Blocks
  PROVE  /\ NextNode(b) = NoBlock \/ NextNode(b) \in Blocks
         /\ \A d \in Blocks : NextNode(b) = d <=> Number(d) = Number(b) + 1
<1>1. Number(b) \in 1 .. Len(layout) /\ Len(layout) \in Nat
  BY Numbers DEF Blocks
<1>2. CASE Number(b) = Len(layout)
  <2>1. NextNode(b) = NoBlock
    BY <1>2 DEF NextNode
  <2>2. \A d \in Blocks : d # NoBlock /\ Number(d) # Number(b) + 1
    BY <1>1, <1>2, Numbers, SMTT(30) DEF Blocks, NoBlock
  <2> QED
    BY <2>1, <2>2
<1>3. CASE Number(b) # Len(layout)
  <2>1. Number(b) + 1 \in Blocks
    BY <1>1, <1>3 DEF Blocks
  <2>2. NextNode(b) = layout[Number(b) + 1]
    BY <1>3 DEF NextNode
  <2> QED
    BY <2>1, <2>2, Numbers
<1> QED
  BY <1>2, <1>3

(***************************************************************************)
(* Every new block is put in the layout with InsertAt, and takes the       *)
(* number after the largest one: the blocks keep their order.              *)
(***************************************************************************)
Shifted(i, new) ==
  /\ Blocks' = Blocks \cup {new}
  /\ new \notin Blocks /\ new \in Nat \ {NoBlock}
  /\ Number(new)' = i
  /\ \A b \in Blocks :
       Number(b)' = IF Number(b) < i THEN Number(b) ELSE Number(b) + 1

LEMMA Inserted ==
  ASSUME LayoutOK, NEW i \in 1 .. Len(layout) + 1, NEW new, new = Fresh,
         layout' = InsertAt(layout, i, new)
  PROVE  LayoutOK' /\ Len(layout') = Len(layout) + 1 /\ Shifted(i, new)
<1>0. Len(layout) \in Nat /\ new = Len(layout) + 1 /\ new \in Nat /\ layout \in Seq(Nat)
  BY DEF LayoutOK, Fresh
<1>1. /\ layout' \in Seq(Nat)
      /\ Len(layout') = Len(layout) + 1
      /\ \A k \in 1 .. Len(layout) + 1 :
           layout'[k] = IF k < i THEN layout[k] ELSE IF k = i THEN new ELSE layout[k - 1]
  <2>1. layout' \in Seq(Nat) /\ IsInserted(layout', layout, i, new)
    BY <1>0, InsertAtProperties
  <2> QED
    BY <2>1 DEF IsInserted
<1>2. Blocks' = Blocks \cup {new} /\ new \notin Blocks /\ DOMAIN layout' = Blocks'
  <2>1. DOMAIN layout' = 1 .. Len(layout')
    BY <1>1
  <2>2. Blocks' = 1 .. Len(layout) + 1 /\ Blocks = 1 .. Len(layout)
    BY <1>1 DEF Blocks
  <2>3. 1 .. Len(layout) + 1 = 1 .. Len(layout) \cup {new} /\ new \notin 1 .. Len(layout)
    BY <1>0
  <2> QED
    BY <2>1, <2>2, <2>3, <1>1
<1>3. ASSUME NEW b \in Blocks
      PROVE  LET n == IF Number(b) < i THEN Number(b) ELSE Number(b) + 1
             IN  n \in Blocks' /\ layout'[n] = b
  <2>1. Number(b) \in 1 .. Len(layout) /\ layout[Number(b)] = b
    BY Numbers DEF Blocks
  <2>2. Blocks' = 1 .. Len(layout) + 1
    BY <1>1 DEF Blocks
  <2>3. PICK m : m = Number(b)
    OBVIOUS
  <2>4. m \in 1 .. Len(layout) /\ layout[m] = b
    BY <2>1, <2>3
  <2>5. CASE m < i
    <3>1. m \in 1 .. Len(layout) + 1 /\ layout'[m] = b
      BY <1>0, <1>1, <2>4, <2>5, SMTT(30)
    <3> QED
      BY <2>2, <2>3, <2>5, <3>1
  <2>6. CASE ~(m < i)
    <3>1. m + 1 \in 1 .. Len(layout) + 1 /\ ~(m + 1 < i) /\ m + 1 # i /\ (m + 1) - 1 = m
      BY <1>0, <2>4, <2>6
    <3>2. layout'[m + 1] = b
      BY <1>1, <2>4, <3>1
    <3> QED
      BY <2>2, <2>3, <2>6, <3>1, <3>2
  <2> QED
    BY <2>5, <2>6
<1>4. layout'[i] = new /\ i \in Blocks'
  BY <1>0, <1>1, <1>2 DEF Blocks
<1>5. ASSUME NEW k \in Blocks', NEW m \in Blocks', layout'[k] = layout'[m]
      PROVE  k = m
  <2>1. ASSUME NEW x \in Blocks', x # i
        PROVE  LET p == IF x < i THEN x ELSE x - 1
               IN  p \in Blocks /\ layout'[x] = layout[p]
    <3>1. x \in 1 .. Len(layout) + 1 /\ Blocks = 1 .. Len(layout)
      BY <1>1 DEF Blocks
    <3>2. CASE x < i
      BY <1>0, <1>1, <3>1, <3>2, SMTT(30)
    <3>3. CASE x > i
      <4>1. x - 1 \in 1 .. Len(layout) /\ ~(x < i) /\ x # i
        BY <1>0, <3>1, <3>3
      <4> QED
        BY <1>1, <3>1, <4>1
    <3> QED
      BY <1>0, <2>1, <3>1, <3>2, <3>3
  <2>2. \A p \in Blocks : layout[p] # new
    BY <1>2, Numbers
  <2>3. \A p, q \in Blocks : layout[p] = layout[q] => p = q
    BY Numbers
  <2>4. CASE k = i \/ m = i
    BY <2>1, <2>2, <2>4, <1>4, <1>5
  <2>5. CASE k # i /\ m # i
    <3> DEFINE p == IF k < i THEN k ELSE k - 1
               q == IF m < i THEN m ELSE m - 1
    <3>1. p \in Blocks /\ q \in Blocks /\ layout[p] = layout[q]
      BY <2>1, <2>5, <1>5
    <3>2. p = q
      BY <2>3, <3>1
    <3>3. k \in Int /\ m \in Int /\ i \in Int
      BY <1>0, <1>1 DEF Blocks
    <3>4. CASE k < i
      BY <2>5, <3>2, <3>3, <3>4
    <3>5. CASE k > i
      BY <2>5, <3>2, <3>3, <3>5
    <3> QED
      BY <2>5, <3>3, <3>4, <3>5
  <2> QED
    BY <2>4, <2>5
<1>6. IsInjective(layout')
  BY <1>2, <1>5 DEF IsInjective
<1>7. Range(layout') = Blocks'
  <2>1. ASSUME NEW k \in Blocks' PROVE layout'[k] \in Blocks'
    <3>1. CASE k = i
      BY <3>1, <1>4, <1>2
    <3>2. CASE k # i
      <4>1. k \in 1 .. Len(layout) + 1 /\ Blocks = 1 .. Len(layout)
        BY <1>1 DEF Blocks
      <4>2. CASE k < i
        BY <4>1, <4>2, <1>0, <1>1, <1>2, Numbers, SMTT(30)
      <4>3. CASE k > i
        <5>1. k - 1 \in Blocks /\ layout'[k] = layout[k - 1]
          BY <4>1, <4>3, <1>0, <1>1, SMTT(30)
        <5> QED
          BY <5>1, <1>2, Numbers
      <4> QED
        BY <3>2, <4>1, <4>2, <4>3, <1>0
    <3> QED
      BY <3>1, <3>2
  <2>2. ASSUME NEW b \in Blocks' PROVE \E k \in Blocks' : layout'[k] = b
    BY <1>2, <1>3, <1>4
  <2> QED
    BY <2>1, <2>2, <1>2 DEF Range
<1>8. LayoutOK'
  BY <1>0, <1>1, <1>6, <1>7 DEF LayoutOK
<1>9. Number(new)' = i
  <2>1. (CHOOSE j \in DOMAIN layout' : layout'[j] = layout'[i]) = i
    BY <1>2, <1>4, <1>6, PlaceIs
  <2> QED
    BY <2>1, <1>4 DEF Number
<1>10. ASSUME NEW b \in Blocks
       PROVE  Number(b)' = IF Number(b) < i THEN Number(b) ELSE Number(b) + 1
  <2> DEFINE n == IF Number(b) < i THEN Number(b) ELSE Number(b) + 1
  <2>1. n \in Blocks' /\ layout'[n] = b
    BY <1>3
  <2>2. (CHOOSE j \in DOMAIN layout' : layout'[j] = layout'[n]) = n
    BY <1>2, <2>1, <1>6, PlaceIs
  <2> HIDE DEF n
  <2>3. Number(b)' = n
    BY <2>1, <2>2 DEF Number
  <2> QED
    BY <2>3 DEF n
<1> QED
  BY <1>0, <1>1, <1>2, <1>8, <1>9, <1>10 DEF Shifted, NoBlock

-----------------------------------------------------------------------------
(* The first and the last block of a set, the least leg, and the maps.     *)

LEMMA FirstOfIn ==
  ASSUME LayoutOK, NEW S, S \subseteq Blocks, S # {}
  PROVE  FirstOf(S) \in S /\ \A d \in S : Number(FirstOf(S)) <= Number(d)
<1> DEFINE N == {Number(b) : b \in S}
<1>1. N \subseteq Nat /\ N # {}
  <2>1. \A b \in S : Number(b) \in Nat
    BY Numbers DEF Blocks
  <2> QED
    BY <2>1
<1>2. PICK k \in N : \A j \in N : k <= j
  BY <1>1, LeastExists
<1>3. PICK b \in S : Number(b) = k
  BY <1>2
<1>4. \A d \in S : Number(b) <= Number(d)
  BY <1>2, <1>3
<1> QED
  BY <1>4 DEF FirstOf

LEMMA LastOfIn ==
  ASSUME LayoutOK, NEW S, S \subseteq Blocks, S # {}
  PROVE  LastOf(S) \in S
<1> DEFINE N == {Number(b) : b \in S}
<1>1. Len(layout) \in Nat /\ N \subseteq 0 .. Len(layout) /\ N # {}
  <2>1. Len(layout) \in Nat /\ \A b \in S : Number(b) \in 1 .. Len(layout)
    BY Numbers DEF Blocks
  <2> QED
    BY <2>1
<1>2. PICK k \in N : \A j \in N : j <= k
  BY <1>1, GreatestExists
<1>3. PICK b \in S : Number(b) = k
  BY <1>2
<1>4. \A d \in S : Number(d) <= Number(b)
  BY <1>2, <1>3
<1> QED
  BY <1>4 DEF LastOf

LEMMA LeastIn ==
  ASSUME NEW S, S \subseteq Nat, S # {}
  PROVE  Least(S) \in S
BY LeastExists DEF Least

IsEntered(m, g, d, e) ==
  /\ DOMAIN m = {d} \cup DOMAIN g
  /\ m[d] = e
  /\ \A x \in DOMAIN g \ {d} : m[x] = g[x]

LEMMA EnteredIn ==
  ASSUME NEW d, NEW e, NEW g
  PROVE  IsEntered(Entered(g, d, e), g, d, e)
BY DEF Entered, Over, IsEntered

\* The walk up the postdominator tree stops before the virtual exit.
LEMMA ControlDependentBlocks ==
  ASSUME NEW m, NEW n
  PROVE  ControlDependent(m, n) \subseteq Blocks
<1>1. \A b : NoBlock \in PostDominators(b) /\ PostDominators(b) \subseteq Blocks \cup {NoBlock}
  BY DEF PostDominators
<1> HIDE DEF NoBlock
<1> QED
  BY <1>1 DEF ControlDependent

-----------------------------------------------------------------------------
(***************************************************************************)
(* The inductive invariant. GraphOK: the blocks and their terminators.     *)
(* MapsOK: what the maps keyed by block hold; a simd branch has a width, of*)
(* its own condition or of the predicated block it ends.                   *)
(***************************************************************************)
Terminators(blocks) ==
  {t \in [kind : {"ret", "br", "cond"}, width : Widths \cup {0}, inv : BOOLEAN,
          succ : Seq(Nat)] :
     /\ Len(t.succ) = IF t.kind = "ret" THEN 0 ELSE IF t.kind = "br" THEN 1 ELSE 2
     /\ t.width > 0 => t.kind = "cond"
     /\ \A i \in 1 .. Len(t.succ) : t.succ[i] \in blocks}

GraphOK ==
  /\ source \in SourceFunctions
  /\ LayoutOK
  /\ DOMAIN term = Blocks
  /\ \A b \in Blocks : term[b] \in Terminators(Blocks)
  /\ body \in Seq({NoBlock} \cup DOMAIN source.term)
  /\ Len(body) = Len(layout)

Positive(map) ==
  DOMAIN map \subseteq Blocks /\ \A b \in DOMAIN map : map[b] \in Widths \ {0}

HasWidth(b) ==
  term[b].width = 0 => b \in DOMAIN PredicatedBlocks /\ PredicatedBlocks[b] # 0

Marked == phase \notin {"findSimdBranches", "determinePredicatedBlocks",
                        "markPredicatedBranches", "notSimd", "rejected"}

MapsOK ==
  /\ Positive(SimdBranches)
  /\ Positive(JoinPoints)
  /\ WidthMap(PredicatedBlocks)
  /\ DOMAIN JIPs \subseteq Blocks /\ \A b \in DOMAIN JIPs : JIPs[b] \in Blocks
  /\ \A j \in DOMAIN JoinPoints : body[j] = NoBlock
  /\ phase = "markPredicatedBranches" =>
       \A b \in DOMAIN PredicatedBlocks : PredicatedBlocks[b] # 0
  /\ phase \in {"determinePredicatedBlocks", "markPredicatedBranches"} =>
       \A b \in DOMAIN SimdBranches : term[b].width > 0
  /\ Marked => \A b \in DOMAIN SimdBranches : term[b].kind # "ret" /\ HasWidth(b)

PlaceOK ==
  /\ at \in Blocks \cup {NoBlock}
  /\ phase = "fixSimdBranches" => at \in Blocks
  /\ isBackward \in BOOLEAN

(***************************************************************************)
(* FixedOK: the simd branches that have been visited go forward and fall   *)
(* through; all have once the visit is over, and when the groups are       *)
(* formed each goes to a join.                                             *)
(***************************************************************************)
Forward(b) == \A i \in 1 .. Len(term[b].succ) : Number(term[b].succ[i]) > Number(b)
Falls(b) == IsCond(b) => Number(term[b].succ[2]) = Number(b) + 1

FixedOK ==
  /\ phase = "fixSimdBranches" =>
       \A b \in DOMAIN SimdBranches : Number(b) < Number(at) => Forward(b) /\ Falls(b)
  /\ BranchesFixed \/ phase = "findAndSplitJoinPoints" =>
       \A b \in DOMAIN SimdBranches : Forward(b) /\ Falls(b)
  /\ BranchesFixed => \A b \in DOMAIN SimdBranches : UIPOf(b) \in DOMAIN JoinPoints

\* JIPsOK: what the last round of determineJIPs leaves.
JIPsOK ==
  phase \in {"predicateCode", "lowerSimdCF", "lowered"} =>
    \A b \in DOMAIN SimdBranches \cup (IF "reached end" \in asserts THEN {} ELSE JoinsWithJIP) :
      /\ b \in DOMAIN JIPs
      /\ JIPs[b] \in DOMAIN JoinPoints
      /\ Number(JIPs[b]) > Number(b)

IInv == GraphOK /\ MapsOK /\ PlaceOK /\ FixedOK /\ JIPsOK /\ WidthsMatch

-----------------------------------------------------------------------------
(* The invariant holds of a function on entry.                             *)

Arity(kind) == IF kind = "ret" THEN 0 ELSE IF kind = "br" THEN 1 ELSE 2

LEMMA TerminatorIs ==
  ASSUME NEW blocks, blocks \subseteq Nat, NEW kind \in {"ret", "br", "cond"},
         NEW width \in Widths \cup {0}, NEW inv \in BOOLEAN,
         NEW succ, succ \in Seq(Nat), Len(succ) = Arity(kind),
         \A i \in 1 .. Len(succ) : succ[i] \in blocks,
         width > 0 => kind = "cond"
  PROVE  [kind |-> kind, width |-> width, inv |-> inv, succ |-> succ] \in Terminators(blocks)
<1> DEFINE t == [kind |-> kind, width |-> width, inv |-> inv, succ |-> succ]
<1>1. t \in [kind : {"ret", "br", "cond"}, width : Widths \cup {0}, inv : BOOLEAN, succ : Seq(Nat)]
  OBVIOUS
<1>2. t.kind = kind /\ t.width = width /\ t.succ = succ
  OBVIOUS
<1> HIDE DEF t
<1> QED
  BY <1>1, <1>2 DEF Terminators, Arity, t

LEMMA BrIs ==
  ASSUME NEW blocks, blocks \subseteq Nat, NEW s \in blocks
  PROVE  Br(s) \in Terminators(blocks)
<1>1. <<s>> \in Seq(Nat) /\ Len(<<s>>) = 1 /\ <<s>>[1] = s
  OBVIOUS
<1>2. \A i \in 1 .. Len(<<s>>) : <<s>>[i] \in blocks
  BY <1>1
<1>3. Len(<<s>>) = Arity("br") /\ ~(0 > 0)
  BY <1>1 DEF Arity
<1> QED
  BY <1>1, <1>2, <1>3, TerminatorIs DEF Br

LEMMA SourceTerminators ==
  ASSUME source \in SourceFunctions, NEW b \in DOMAIN source.term
  PROVE  source.term[b] \in Terminators(DOMAIN source.term)
<1> DEFINE blocks == DOMAIN source.term
           t == source.term[b]
<1>1. IsTerminator(t, blocks) /\ blocks \subseteq Nat
  BY SourceAssumption
<1>2. t.width \in Widths
  BY DEF Widths
<1> HIDE DEF blocks, t
<1>3. ASSUME t = Ret PROVE t \in Terminators(blocks)
  <2>1. <<>> \in Seq(Nat) /\ Len(<<>>) = Arity("ret") /\ ~(0 > 0)
    BY DEF Arity
  <2>2. \A i \in 1 .. Len(<<>>) : <<>>[i] \in blocks
    OBVIOUS
  <2>3. Ret \in Terminators(blocks)
    <3> DEFINE none == <<>>
    <3>1. none \in Seq(Nat) /\ Len(none) = Arity("ret") /\ \A i \in 1 .. Len(none) : none[i] \in blocks
      BY <2>1, <2>2
    <3> HIDE DEF none
    <3>2. [kind |-> "ret", width |-> 0, inv |-> FALSE, succ |-> none] \in Terminators(blocks)
      BY <1>1, <2>1, <3>1, TerminatorIs
    <3> QED
      BY <3>2 DEF Ret, none
  <2> QED
    BY <1>3, <2>3
<1>4. ASSUME NEW s \in blocks, t = Br(s) PROVE t \in Terminators(blocks)
  BY <1>1, <1>4, BrIs
<1>5. ASSUME NEW p \in blocks, NEW q \in blocks, t = Cond(t.width, p, q)
      PROVE  t \in Terminators(blocks)
  <2>1. /\ <<p, q>> \in Seq(Nat) /\ Len(<<p, q>>) = 2
        /\ <<p, q>>[1] = p /\ <<p, q>>[2] = q
    BY <1>1
  <2>2. \A i \in 1 .. Len(<<p, q>>) : <<p, q>>[i] \in blocks
    BY <2>1
  <2>3. Len(<<p, q>>) = Arity("cond")
    BY <2>1 DEF Arity
  <2>4. Cond(t.width, p, q) \in Terminators(blocks)
    BY <1>1, <1>2, <2>1, <2>2, <2>3, TerminatorIs DEF Cond
  <2> QED
    BY <1>5, <2>4
<1> QED
  BY <1>1, <1>3, <1>4, <1>5 DEF IsTerminator, blocks, t

LEMMA InitIInv == Init => IInv
<1> SUFFICES ASSUME Init PROVE IInv
  OBVIOUS
<1> DEFINE n == Len(source.term)
<1>1. source \in SourceFunctions /\ n \in Nat /\ n > 0 /\ DOMAIN source.term = 1 .. n
  <2>1. source \in SourceFunctions
    BY DEF Init
  <2>2. source.term \in Seq(Range(source.term)) /\ source.term # <<>>
    BY <2>1, SourceAssumption
  <2> QED
    BY <2>1, <2>2
<1> HIDE DEF n
<1>2. layout = [i \in 1 .. n |-> i] /\ layout \in Seq(Nat) /\ Len(layout) = n /\ Blocks = 1 .. n
  <2>1. layout = [i \in 1 .. n |-> i]
    BY <1>1 DEF Init
  <2>2. layout \in [1 .. n -> Nat]
    BY <1>1, <2>1
  <2> QED
    BY <1>1, <2>1, <2>2 DEF Blocks
<1>3. LayoutOK
  <2>1. \A i \in 1 .. n : layout[i] = i
    BY <1>2
  <2>2. DOMAIN layout = 1 .. n
    BY <1>2
  <2>3. IsInjective(layout)
    BY <2>1, <2>2 DEF IsInjective
  <2>4. Range(layout) = 1 .. n
    BY <2>1, <2>2 DEF Range
  <2> QED
    BY <1>1, <1>2, <2>3, <2>4 DEF LayoutOK
<1>4. GraphOK
  <2>1. DOMAIN term = Blocks /\ \A b \in Blocks : term[b] \in Terminators(Blocks)
    BY <1>1, <1>2, SourceTerminators DEF Init
  <2>2. body \in Seq({NoBlock} \cup DOMAIN source.term) /\ Len(body) = Len(layout)
    <3>1. body = [i \in 1 .. n |-> i]
      BY <1>2 DEF Init
    <3>2. body \in [1 .. n -> {NoBlock} \cup DOMAIN source.term]
      BY <3>1, <1>1
    <3> QED
      BY <3>2, <1>1, <1>2
  <2> QED
    BY <1>1, <1>3, <2>1, <2>2 DEF GraphOK
<1>5. MapsOK
  BY DEF Init, MapsOK, Positive, WidthMap, Range, Marked
<1>6. PlaceOK /\ FixedOK /\ JIPsOK /\ WidthsMatch
  BY DEF Init, PlaceOK, FixedOK, JIPsOK, WidthsMatch, BranchesFixed
<1> QED
  BY <1>4, <1>5, <1>6 DEF IInv

-----------------------------------------------------------------------------
(* The changes the pass makes to the graph.                                *)

LEMMA TerminatorFields ==
  ASSUME NEW blocks, NEW t \in Terminators(blocks)
  PROVE  /\ t.kind \in {"ret", "br", "cond"} /\ t.width \in Widths \cup {0}
         /\ t.inv \in BOOLEAN /\ t.succ \in Seq(Nat)
         /\ Len(t.succ) = Arity(t.kind) /\ Len(t.succ) \in Nat
         /\ \A i \in 1 .. Len(t.succ) : t.succ[i] \in blocks
         /\ t.width > 0 => t.kind = "cond"
BY DEF Terminators, Arity

LEMMA MoreTargets ==
  ASSUME NEW S, NEW T, S \subseteq T, NEW t \in Terminators(S)
  PROVE  t \in Terminators(T)
BY DEF Terminators

LEMMA TerminatorsPrime ==
  ASSUME UNCHANGED source
  PROVE  /\ Widths' = Widths
         /\ Terminators(Blocks)' = Terminators(Blocks')
<1>1. Widths' = Widths
  BY DEF Widths
<1> QED
  BY <1>1 DEF Terminators

\* u is the branch t with one leg redirected.
IsRedirected(u, t, leg, new) ==
  /\ u.kind = t.kind /\ u.width = t.width /\ u.inv = t.inv /\ Len(u.succ) = Len(t.succ)
  /\ u.succ[leg] = new
  /\ \A i \in 1 .. Len(t.succ) : i # leg => u.succ[i] = t.succ[i]

LEMMA RedirectedLeg ==
  ASSUME NEW S, S \subseteq Nat, NEW t \in Terminators(S),
         NEW leg \in 1 .. Len(t.succ), NEW new \in S
  PROVE  /\ [t EXCEPT !.succ[leg] = new] \in Terminators(S)
         /\ IsRedirected([t EXCEPT !.succ[leg] = new], t, leg, new)
<1> DEFINE u == [t EXCEPT !.succ[leg] = new]
           s == [t.succ EXCEPT ![leg] = new]
<1>1. /\ t \in [kind : {"ret", "br", "cond"}, width : Widths \cup {0}, inv : BOOLEAN, succ : Seq(Nat)]
      /\ Len(t.succ) \in Nat /\ \A i \in 1 .. Len(t.succ) : t.succ[i] \in S
  BY DEF Terminators
<1>2. /\ s \in Seq(Nat) /\ Len(s) = Len(t.succ) /\ s[leg] = new
      /\ \A i \in 1 .. Len(t.succ) : i # leg => s[i] = t.succ[i]
  BY <1>1
<1>3. /\ u.kind = t.kind /\ u.width = t.width /\ u.inv = t.inv /\ u.succ = s
      /\ u \in [kind : {"ret", "br", "cond"}, width : Widths \cup {0}, inv : BOOLEAN, succ : Seq(Nat)]
  BY <1>1, <1>2
<1> HIDE DEF u, s
<1>4. \A i \in 1 .. Len(s) : s[i] \in S
  BY <1>1, <1>2
<1>5. u \in Terminators(S)
  BY <1>2, <1>3, <1>4 DEF Terminators
<1> QED
  BY <1>2, <1>3, <1>5 DEF u, IsRedirected

(***************************************************************************)
(* A block is put in the layout on one leg of the branch at the current    *)
(* block: the leg goes to it and it goes where the leg went.               *)
(***************************************************************************)
LegThrough(leg, new) ==
  /\ DOMAIN term' = Blocks'
  /\ \A b \in Blocks \ {at} : term'[b] = term[b]
  /\ term'[new] = Br(term[at].succ[leg])
  /\ IsRedirected(term'[at], term[at], leg, new)

BodyGrows(new) ==
  /\ \A b \in Blocks : body'[b] = body[b]
  /\ body'[new] = NoBlock

LEMMA Redirecting ==
  ASSUME GraphOK, at \in Blocks, NEW leg \in 1 .. Len(term[at].succ),
         NEW i \in 1 .. Len(layout) + 1, NEW new, new = Fresh,
         UNCHANGED source, layout' = InsertAt(layout, i, new),
         term' = Redirected(leg, new), body' = Append(body, NoBlock)
  PROVE  GraphOK' /\ Shifted(i, new) /\ LegThrough(leg, new) /\ BodyGrows(new)
<1>1. LayoutOK' /\ Len(layout') = Len(layout) + 1 /\ Shifted(i, new)
  BY Inserted DEF GraphOK
<1>2. /\ Blocks' = Blocks \cup {new} /\ new \notin Blocks /\ Blocks \subseteq Nat
      /\ Blocks' \subseteq Nat /\ Len(layout) \in Nat /\ new = Len(layout) + 1
  BY <1>1, SMTT(30) DEF Shifted, GraphOK, LayoutOK, Blocks, Fresh
<1> DEFINE t == term[at]
           u == [t EXCEPT !.succ[leg] = new]
           moved == [term EXCEPT ![at].succ[leg] = new]
<1>3. DOMAIN moved = Blocks /\ moved[at] = u /\ \A b \in Blocks \ {at} : moved[b] = term[b]
  BY DEF GraphOK
<1>4. t \in Terminators(Blocks) /\ t \in Terminators(Blocks')
  BY <1>2, MoreTargets DEF GraphOK
<1>5. u \in Terminators(Blocks') /\ IsRedirected(u, t, leg, new)
  BY <1>2, <1>4, RedirectedLeg, ZenonT(60)
<1>6. t.succ[leg] \in Blocks
  BY <1>4, TerminatorFields
<1> HIDE DEF moved, u
<1>7. term' = Entered(moved, new, Br(t.succ[leg]))
  BY DEF Redirected, moved
<1>8. /\ DOMAIN term' = Blocks' /\ term'[new] = Br(t.succ[leg])
      /\ \A b \in Blocks : term'[b] = moved[b]
  <2> DEFINE e == Br(t.succ[leg])
  <2>1. IsEntered(term', moved, new, e)
    BY EnteredIn, <1>7
  <2> QED
    BY <2>1, <1>2, <1>3 DEF IsEntered
<1>9. \A b \in Blocks' : term'[b] \in Terminators(Blocks')
  <2>1. Br(t.succ[leg]) \in Terminators(Blocks')
    BY <1>2, <1>6, BrIs
  <2>2. \A b \in Blocks \ {at} : term'[b] \in Terminators(Blocks')
    BY <1>2, <1>3, <1>8, MoreTargets DEF GraphOK
  <2> QED
    BY <2>1, <2>2, <1>2, <1>3, <1>5, <1>8
<1>10. LegThrough(leg, new)
  BY <1>3, <1>5, <1>8 DEF LegThrough
<1>11. /\ body' \in Seq({NoBlock} \cup DOMAIN source.term)
       /\ Len(body') = Len(body) + 1 /\ body'[Len(body) + 1] = NoBlock
       /\ \A k \in 1 .. Len(body) : body'[k] = body[k]
  <2>1. body \in Seq({NoBlock} \cup DOMAIN source.term)
    BY DEF GraphOK
  <2> QED
    BY <2>1, AppendProperties
<1>12. BodyGrows(new)
  BY <1>2, <1>11 DEF BodyGrows, GraphOK, Blocks
<1>13. GraphOK'
  BY <1>1, <1>2, <1>8, <1>9, <1>11, TerminatorsPrime DEF GraphOK
<1> QED
  BY <1>1, <1>10, <1>12, <1>13

IsAppended(t, s, e) ==
  /\ Len(t) = Len(s) + 1 /\ t[Len(s) + 1] = e
  /\ \A k \in 1 .. Len(s) : t[k] = s[k]

LEMMA Appending ==
  ASSUME NEW S, NEW s \in Seq(S), NEW e \in S
  PROVE  Append(s, e) \in Seq(S) /\ IsAppended(Append(s, e), s, e)
BY AppendProperties DEF IsAppended

\* The code and the terminator of jp move to a new block after it.
SplitInto(jp, new) ==
  /\ DOMAIN term' = Blocks'
  /\ \A b \in Blocks \ {jp} : term'[b] = term[b] /\ body'[b] = body[b]
  /\ term'[jp] = Br(new) /\ body'[jp] = NoBlock
  /\ term'[new] = term[jp] /\ body'[new] = body[jp]

LEMMA Splitting ==
  ASSUME GraphOK, NEW jp \in Blocks, NEW new, new = Fresh, UNCHANGED source,
         layout' = InsertAfter(jp, new),
         term' = Entered([term EXCEPT ![jp] = Br(new)], new, term[jp]),
         body' = Append([body EXCEPT ![jp] = NoBlock], body[jp])
  PROVE  GraphOK' /\ Shifted(Number(jp) + 1, new) /\ SplitInto(jp, new)
<1> DEFINE n == Number(jp)
           moved == [term EXCEPT ![jp] = Br(new)]
           emptied == [body EXCEPT ![jp] = NoBlock]
           Bodies == {NoBlock} \cup DOMAIN source.term
<1>1. n + 1 \in 1 .. Len(layout) + 1 /\ Len(layout) \in Nat
  BY Numbers, SMTT(30) DEF GraphOK, Blocks
<1>2. LayoutOK' /\ Len(layout') = Len(layout) + 1 /\ Shifted(n + 1, new)
  BY <1>1, Inserted DEF GraphOK, InsertAfter
<1>3. /\ Blocks' = Blocks \cup {new} /\ new \notin Blocks /\ Blocks \subseteq Nat
      /\ Blocks' \subseteq Nat /\ new = Len(layout) + 1
  BY <1>1, <1>2 DEF Shifted, Blocks, Fresh
<1>4. DOMAIN moved = Blocks /\ moved[jp] = Br(new) /\ \A b \in Blocks \ {jp} : moved[b] = term[b]
  BY DEF GraphOK
<1> HIDE DEF moved
<1>5. /\ DOMAIN term' = Blocks' /\ term'[new] = term[jp]
      /\ \A b \in Blocks : term'[b] = moved[b]
  <2>1. IsEntered(term', moved, new, term[jp])
    BY EnteredIn DEF moved
  <2> QED
    BY <2>1, <1>3, <1>4 DEF IsEntered
<1>6. \A b \in Blocks' : term'[b] \in Terminators(Blocks')
  <2>1. Br(new) \in Terminators(Blocks')
    BY <1>3, BrIs
  <2>2. \A b \in Blocks : term[b] \in Terminators(Blocks')
    BY <1>3, MoreTargets DEF GraphOK
  <2> QED
    BY <2>1, <2>2, <1>3, <1>4, <1>5, ZenonT(60)
<1>7. /\ body \in Seq(Bodies) /\ Len(body) = Len(layout) /\ jp \in 1 .. Len(body)
  BY DEF GraphOK, Blocks
<1>8. /\ emptied \in Seq(Bodies) /\ Len(emptied) = Len(body) /\ emptied[jp] = NoBlock
      /\ \A b \in 1 .. Len(body) : b # jp => emptied[b] = body[b]
  BY <1>7
<1>9. body[jp] \in Bodies
  BY <1>7
<1> HIDE DEF emptied, Bodies
<1>10. /\ body' \in Seq(Bodies) /\ Len(body') = Len(body) + 1
       /\ body'[Len(body) + 1] = body[jp]
       /\ \A k \in 1 .. Len(body) : body'[k] = emptied[k]
  <2>1. body' = Append(emptied, body[jp])
    BY DEF emptied
  <2>2. body' \in Seq(Bodies) /\ IsAppended(body', emptied, body[jp])
    BY <2>1, <1>8, <1>9, Appending
  <2> QED
    BY <2>2, <1>8 DEF IsAppended
<1>11. SplitInto(jp, new)
  <2>1. Blocks = 1 .. Len(body) /\ new = Len(body) + 1
    BY <1>3, <1>7 DEF Blocks
  <2> QED
    BY <2>1, <1>4, <1>5, <1>7, <1>8, <1>10 DEF SplitInto
<1>12. GraphOK'
  BY <1>2, <1>5, <1>6, <1>7, <1>10, TerminatorsPrime, ZenonT(60) DEF GraphOK, Bodies
<1> QED
  BY <1>2, <1>11, <1>12

LEMMA Inverting ==
  ASSUME GraphOK, at \in Blocks, IsCond(at), UNCHANGED <<source, layout, body>>,
         term' = [term EXCEPT ![at] = Inverted(term[at])]
  PROVE  /\ GraphOK'
         /\ \A b \in Blocks \ {at} : term'[b] = term[b]
         /\ term'[at].kind = "cond" /\ term'[at].width = term[at].width
         /\ term'[at].inv = ~term[at].inv /\ Len(term'[at].succ) = 2
         /\ term'[at].succ[1] = term[at].succ[2] /\ term'[at].succ[2] = term[at].succ[1]
<1> DEFINE t == term[at]
           u == Inverted(t)
<1>1. /\ t \in Terminators(Blocks) /\ Len(t.succ) = 2 /\ t.kind = "cond" /\ Blocks \subseteq Nat
      /\ t \in [kind : {"ret", "br", "cond"}, width : Widths \cup {0}, inv : BOOLEAN, succ : Seq(Nat)]
      /\ \A i \in 1 .. Len(t.succ) : t.succ[i] \in Blocks
  <2>1. t \in Terminators(Blocks) /\ t.kind = "cond"
    BY DEF GraphOK, IsCond
  <2>2. Blocks \subseteq Nat
    BY DEF Blocks
  <2> HIDE DEF t, u
  <2> QED
    BY <2>1, <2>2 DEF Terminators
<1>2. t.succ[1] \in Blocks /\ t.succ[2] \in Blocks
  BY <1>1
<1> DEFINE s == <<t.succ[2], t.succ[1]>>
<1>3. s \in Seq(Nat) /\ Len(s) = 2 /\ s[1] = t.succ[2] /\ s[2] = t.succ[1]
  BY <1>1, <1>2
<1> HIDE DEF s
<1>4. /\ u.kind = t.kind /\ u.width = t.width /\ u.inv = ~t.inv /\ u.succ = s
      /\ u \in [kind : {"ret", "br", "cond"}, width : Widths \cup {0}, inv : BOOLEAN, succ : Seq(Nat)]
  BY <1>1, <1>3 DEF Inverted, s
<1>5. \A i \in 1 .. Len(s) : s[i] \in Blocks
  BY <1>2, <1>3
<1> HIDE DEF u, t
<1>6. u \in Terminators(Blocks)
  BY <1>1, <1>3, <1>4, <1>5 DEF Terminators
<1>7. term' = [term EXCEPT ![at] = u] /\ Blocks' = Blocks
  BY DEF u, t, Blocks
<1>8. /\ DOMAIN term' = Blocks /\ term'[at] = u
      /\ \A b \in Blocks \ {at} : term'[b] = term[b]
  BY <1>7 DEF GraphOK
<1>9. \A b \in Blocks : term'[b] \in Terminators(Blocks)
  BY <1>6, <1>8 DEF GraphOK
<1>10. LayoutOK'
  BY DEF GraphOK, LayoutOK, Blocks
<1>11. GraphOK'
  BY <1>7, <1>8, <1>9, <1>10, TerminatorsPrime DEF GraphOK
<1> QED
  BY <1>1, <1>3, <1>4, <1>8, <1>11 DEF t

-----------------------------------------------------------------------------
(* What the invariant says of the graph is kept by a step that leaves it,  *)
(* and by the insertion of a block.                                        *)

LEMMA WidthsNat ==
  ASSUME source \in SourceFunctions
  PROVE  Widths \subseteq Nat
<1>1. source.cmWidth \in Nat
  BY SourceAssumption
<1>2. ASSUME NEW b \in DOMAIN source.term PROVE source.term[b].width \in Nat
  <2>1. IsTerminator(source.term[b], DOMAIN source.term)
    BY SourceAssumption
  <2>2. Ret.width = 0 /\ \A s : Br(s).width = 0
    BY DEF Ret, Br
  <2> QED
    BY <2>1, <2>2 DEF IsTerminator
<1> QED
  BY <1>1, <1>2 DEF Widths

LEMMA GraphNumbers ==
  ASSUME GraphOK
  PROVE  /\ LayoutOK /\ Blocks \subseteq Nat
         /\ \A b \in Blocks : Number(b) \in Blocks /\ Number(b) \in Nat
<1>1. LayoutOK
  BY DEF GraphOK
<1>2. Blocks \subseteq Nat
  BY DEF Blocks
<1> QED
  BY <1>1, <1>2, Numbers

SameGraph == UNCHANGED <<source, layout, term, body>>

LEMMA GraphKept ==
  ASSUME GraphOK, SameGraph
  PROVE  GraphOK' /\ Blocks' = Blocks /\ Widths' = Widths
<1>1. Blocks' = Blocks /\ LayoutOK' /\ Widths' = Widths
  BY DEF GraphOK, SameGraph, LayoutOK, Blocks, Widths
<1>2. Terminators(Blocks)' = Terminators(Blocks)
  BY <1>1, TerminatorsPrime DEF SameGraph
<1> QED
  BY <1>1, <1>2 DEF GraphOK, SameGraph

LEMMA NumbersKept ==
  ASSUME SameGraph
  PROVE  \A b : /\ Number(b)' = Number(b)
                /\ Forward(b)' <=> Forward(b)
                /\ Falls(b)' <=> Falls(b)
BY DEF SameGraph, Number, Forward, Falls, IsCond

LEMMA WidthsMatchKept ==
  ASSUME WidthsMatch, UNCHANGED <<source, asserts>>
  PROVE  WidthsMatch'
BY DEF WidthsMatch, OneWidth, Widths

LEMMA LegsOf ==
  ASSUME GraphOK, NEW b \in Blocks
  PROVE  /\ Len(term[b].succ) \in Nat
         /\ \A k \in 1 .. Len(term[b].succ) :
              term[b].succ[k] \in Blocks /\ Number(term[b].succ[k]) \in Blocks
         /\ DOMAIN term[b].succ = 1 .. Len(term[b].succ)
         /\ term[b].kind = "cond" => Len(term[b].succ) = 2
         /\ term[b].kind # "ret" => Len(term[b].succ) >= 1
<1>1. term[b] \in Terminators(Blocks)
  BY DEF GraphOK
<1> DEFINE t == term[b]
<1> HIDE DEF t
<1>2. /\ t.kind \in {"ret", "br", "cond"} /\ t.succ \in Seq(Nat)
      /\ Len(t.succ) = Arity(t.kind) /\ Len(t.succ) \in Nat
      /\ \A k \in 1 .. Len(t.succ) : t.succ[k] \in Blocks
  BY <1>1, TerminatorFields DEF t
<1>3. \A k \in 1 .. Len(t.succ) : t.succ[k] \in Blocks /\ Number(t.succ[k]) \in Blocks
  BY <1>2, GraphNumbers
<1>4. /\ DOMAIN t.succ = 1 .. Len(t.succ)
      /\ t.kind = "cond" => Len(t.succ) = 2
      /\ t.kind # "ret" => Len(t.succ) >= 1
  BY <1>2 DEF Arity
<1> QED
  BY <1>2, <1>3, <1>4 DEF t

LEMMA ForwardShifted ==
  ASSUME GraphOK, NEW i \in Nat, NEW new, Shifted(i, new),
         NEW b \in Blocks, term'[b] = term[b], Forward(b)
  PROVE  Forward(b)'
<1>1. ASSUME NEW k \in 1 .. Len(term[b].succ)
      PROVE  Number(term[b].succ[k])' > Number(b)'
  <2>1. PICK s \in Blocks : s = term[b].succ[k] /\ s = term'[b].succ[k]
    BY LegsOf
  <2>2. Number(s) > Number(b)
    BY <2>1 DEF Forward
  <2>3. Number(s) \in Nat /\ Number(b) \in Nat
    BY GraphNumbers
  <2>4. /\ Number(s)' = IF Number(s) < i THEN Number(s) ELSE Number(s) + 1
        /\ Number(b)' = IF Number(b) < i THEN Number(b) ELSE Number(b) + 1
    BY DEF Shifted
  <2>5. Number(s)' > Number(b)'
    BY <2>2, <2>3, <2>4
  <2> QED
    BY <2>1, <2>5
<1> QED
  BY <1>1 DEF Forward

LEMMA FallsShifted ==
  ASSUME GraphOK, NEW i \in Nat, NEW new, Shifted(i, new),
         NEW b \in Blocks, term'[b] = term[b], Falls(b), Number(b) + 1 # i
  PROVE  Falls(b)'
<1>1. SUFFICES ASSUME IsCond(b) PROVE Number(term[b].succ[2])' = Number(b)' + 1
  BY DEF Falls, IsCond
<1>2. PICK s \in Blocks : s = term[b].succ[2] /\ s = term'[b].succ[2]
  BY <1>1, LegsOf DEF IsCond
<1>3. Number(s) = Number(b) + 1
  BY <1>1, <1>2 DEF Falls
<1>4. Number(s) \in Nat /\ Number(b) \in Nat
  BY GraphNumbers
<1>5. /\ Number(s)' = IF Number(s) < i THEN Number(s) ELSE Number(s) + 1
      /\ Number(b)' = IF Number(b) < i THEN Number(b) ELSE Number(b) + 1
  BY DEF Shifted
<1>6. Number(s)' = Number(b)' + 1
  BY <1>3, <1>4, <1>5
<1> QED
  BY <1>2, <1>6

-----------------------------------------------------------------------------
(* fixSimdBranches, one step at a time.                                    *)

\* The visit goes to the next block of the layout, or ends.
HasMovedFrom(a) ==
  /\ isBackward' = FALSE
  /\ \/ /\ Number(a)' = Len(layout')
        /\ phase' = "findAndSplitJoinPoints" /\ at' = NoBlock
     \/ /\ at' \in Blocks' /\ Number(at)' = Number(a)' + 1
        /\ phase' = phase

LEMMA MovingOn ==
  ASSUME LayoutOK', NEW a, a = at, a \in Blocks', MoveOn(layout')
  PROVE  HasMovedFrom(a) /\ Number(a)' \in Blocks'
<1>1. /\ Len(layout') \in Nat /\ DOMAIN layout' = 1 .. Len(layout') /\ Blocks' = 1 .. Len(layout')
      /\ IsInjective(layout') /\ Range(layout') = Blocks'
  BY DEF LayoutOK, Blocks
<1>2. PICK i \in DOMAIN layout' : layout'[i] = a
  BY <1>1 DEF Range
<1>3. (CHOOSE j \in DOMAIN layout' : layout'[j] = a) = i
  BY <1>1, <1>2, PlaceIs
<1>4. Number(a)' = i
  BY <1>3 DEF Number
<1>5. isBackward' = FALSE /\ IF i = Len(layout')
                             THEN phase' = "findAndSplitJoinPoints" /\ at' = NoBlock
                             ELSE at' = layout'[i + 1] /\ phase' = phase
  <2>1. layout'[i] = at
    BY <1>2
  <2>2. (CHOOSE j \in DOMAIN layout' : layout'[j] = at) = i
    BY <1>1, <2>1, PlaceIs
  <2> QED
    BY <2>2 DEF MoveOn
<1>6. ASSUME i # Len(layout'), at' = layout'[i + 1]
      PROVE  at' \in Blocks' /\ Number(at)' = i + 1
  <2>1. i + 1 \in DOMAIN layout'
    BY <1>1, <1>2, <1>6
  <2>2. (CHOOSE j \in DOMAIN layout' : layout'[j] = layout'[i + 1]) = i + 1
    BY <1>1, <2>1, PlaceIs
  <2>3. Number(at)' = i + 1
    BY <1>6, <2>2 DEF Number
  <2> QED
    BY <1>1, <1>6, <2>1, <2>3 DEF Range
<1>7. Number(a)' \in Blocks'
  BY <1>1, <1>2, <1>4
<1>8. CASE i = Len(layout')
  BY <1>4, <1>5, <1>7, <1>8 DEF HasMovedFrom
<1>9. CASE i # Len(layout')
  <2>1. at' \in Blocks' /\ Number(at)' = Number(a)' + 1
    BY <1>4, <1>5, <1>6, <1>9
  <2> QED
    BY <2>1, <1>5, <1>7, <1>9 DEF HasMovedFrom
<1> QED
  BY <1>7, <1>8, <1>9

\* The block just visited joins those that go forward and fall through.
LEMMA Visited ==
  ASSUME LayoutOK', NEW a, a = at, a \in Blocks', MoveOn(layout'),
         phase = "fixSimdBranches", DOMAIN SimdBranches' \subseteq Blocks',
         \A b \in DOMAIN SimdBranches' : Number(b)' <= Number(a)' => Forward(b)' /\ Falls(b)'
  PROVE  /\ PlaceOK' /\ FixedOK'
         /\ phase' \in {"fixSimdBranches", "findAndSplitJoinPoints"}
<1>1. HasMovedFrom(a) /\ Number(a)' \in Blocks'
  BY MovingOn
<1>2. Blocks' = 1 .. Len(layout') /\ Len(layout') \in Nat
  BY DEF Blocks, LayoutOK
<1>3. ASSUME NEW b \in Blocks' PROVE Number(b)' \in Blocks'
  <2>1. PICK i \in DOMAIN layout' : layout'[i] = b
    BY DEF LayoutOK, Range
  <2>2. (CHOOSE j \in DOMAIN layout' : layout'[j] = b) = i
    BY <2>1, PlaceIs DEF LayoutOK
  <2> QED
    BY <1>2, <2>1, <2>2 DEF Number, LayoutOK
<1>4. CASE Number(a)' = Len(layout') /\ phase' = "findAndSplitJoinPoints" /\ at' = NoBlock
  <2>1. \A b \in DOMAIN SimdBranches' : Forward(b)' /\ Falls(b)'
    BY <1>2, <1>3, <1>4
  <2> QED
    BY <1>1, <1>4, <2>1 DEF PlaceOK, FixedOK, BranchesFixed, HasMovedFrom
<1>5. CASE at' \in Blocks' /\ Number(at)' = Number(a)' + 1 /\ phase' = phase
  <2>1. ASSUME NEW b \in DOMAIN SimdBranches', Number(b)' < Number(at)'
        PROVE  Forward(b)' /\ Falls(b)'
    <3>1. Number(b)' \in Nat /\ Number(a)' \in Nat
      BY <1>1, <1>2, <1>3, SMTT(30)
    <3> QED
      BY <1>5, <2>1, <3>1
  <2> QED
    BY <1>1, <1>5, <2>1 DEF PlaceOK, FixedOK, BranchesFixed, HasMovedFrom
<1> QED
  BY <1>1, <1>4, <1>5 DEF HasMovedFrom

\* A map that has lost some of its entries.
Submap(f, g) == DOMAIN f \subseteq DOMAIN g /\ \A b \in DOMAIN f : f[b] = g[b]

LEMMA WithoutSome ==
  ASSUME NEW f, NEW S, NEW g, g = Without(f, S)
  PROVE  Submap(g, f) /\ DOMAIN g = DOMAIN f \ S
BY DEF Submap, Restrict, Without

LEMMA OnlySome ==
  ASSUME NEW f, NEW S, NEW g, g = Restrict(f, DOMAIN f \cap S)
  PROVE  Submap(g, f) /\ DOMAIN g = DOMAIN f \cap S
BY DEF Submap, Restrict

LEMMA MapsKept ==
  ASSUME GraphOK, MapsOK, SameGraph, Marked, Marked', UNCHANGED PredicatedBlocks,
         Submap(SimdBranches', SimdBranches), Submap(JoinPoints', JoinPoints),
         DOMAIN JIPs' \subseteq Blocks, \A b \in DOMAIN JIPs' : JIPs'[b] \in Blocks
  PROVE  MapsOK'
<1>1. Blocks' = Blocks /\ Widths' = Widths
  BY GraphKept
<1>2. UNCHANGED <<term, body>>
  BY DEF SameGraph
<1>3. Positive(SimdBranches)' /\ Positive(JoinPoints)'
  BY <1>1 DEF MapsOK, Positive, Submap
<1>4. WidthMap(PredicatedBlocks)'
  BY <1>1 DEF MapsOK, WidthMap
<1>5. \A j \in DOMAIN JoinPoints' : body'[j] = NoBlock
  BY <1>2 DEF MapsOK, Submap
<1>6. \A b \in DOMAIN SimdBranches' : term'[b].kind # "ret" /\ HasWidth(b)'
  BY <1>2 DEF MapsOK, Submap, HasWidth
<1>7. phase' \notin {"determinePredicatedBlocks", "markPredicatedBranches"}
  BY DEF Marked
<1> QED
  BY <1>1, <1>3, <1>4, <1>5, <1>6, <1>7 DEF MapsOK

LEMMA FixesFrame ==
  ASSUME phase = "fixSimdBranches", WidthsMatch, UNCHANGED fixFrame,
         phase' \in {"fixSimdBranches", "findAndSplitJoinPoints"}
  PROVE  JIPsOK' /\ WidthsMatch' /\ Marked /\ Marked'
BY WidthsMatchKept DEF fixFrame, JIPsOK, Marked

\* A visit that leaves the graph, and at most unmarks the block.
LEMMA LeavingBlock ==
  ASSUME IInv, phase = "fixSimdBranches", SameGraph, UNCHANGED <<fixFrame, PredicatedBlocks>>,
         MoveOn(layout), Submap(SimdBranches', SimdBranches),
         at \in DOMAIN SimdBranches' => Forward(at) /\ Falls(at)
  PROVE  IInv'
<1>1. GraphOK' /\ Blocks' = Blocks
  BY GraphKept DEF IInv
<1>2. LayoutOK' /\ MoveOn(layout') /\ at \in Blocks /\ GraphOK /\ LayoutOK
  BY <1>1 DEF GraphOK, SameGraph, IInv, PlaceOK
<1>3. PICK a \in Blocks' : a = at
  BY <1>1, <1>2
<1>4. ASSUME NEW b \in DOMAIN SimdBranches', Number(b)' <= Number(a)'
      PROVE  Forward(b)' /\ Falls(b)'
  <2>1. Number(b) <= Number(a) /\ b \in DOMAIN SimdBranches
    BY <1>4, NumbersKept DEF Submap
  <2>2. b \in Blocks /\ Number(b) \in Nat /\ Number(a) \in Nat
    BY <1>1, <1>2, <2>1, GraphNumbers DEF IInv, MapsOK, Positive
  <2>3. CASE Number(b) < Number(a)
    BY <2>1, <2>3, <1>3, NumbersKept DEF IInv, FixedOK
  <2>4. CASE Number(b) = Number(a)
    <3>1. b = a
      BY <2>2, <2>4, <1>1, <1>2, Numbers
    <3> QED
      BY <3>1, <1>3, <1>4, NumbersKept
  <2> QED
    BY <2>1, <2>2, <2>3, <2>4
<1>5. DOMAIN SimdBranches' \subseteq Blocks'
  BY <1>1 DEF IInv, MapsOK, Positive, Submap
<1>6. PlaceOK' /\ FixedOK' /\ phase' \in {"fixSimdBranches", "findAndSplitJoinPoints"}
  BY <1>2, <1>3, <1>4, <1>5, Visited
<1>7. JIPsOK' /\ WidthsMatch' /\ Marked /\ Marked'
  BY <1>6, FixesFrame DEF IInv
<1>8. MapsOK'
  <2>1. Submap(JoinPoints', JoinPoints) /\ JIPs' = JIPs
    BY DEF Submap, fixFrame
  <2>2. DOMAIN JIPs' \subseteq Blocks /\ \A b \in DOMAIN JIPs' : JIPs'[b] \in Blocks
    BY <2>1 DEF IInv, MapsOK
  <2> QED
    BY <1>2, <1>7, <2>1, <2>2, MapsKept DEF IInv
<1> QED
  BY <1>1, <1>6, <1>7, <1>8 DEF IInv

LEMMA SkipBlockKeeps == IInv /\ SkipBlock => IInv'
<1> SUFFICES ASSUME IInv, SkipBlock PROVE IInv'
  OBVIOUS
<1>1. SameGraph /\ phase = "fixSimdBranches" /\ UNCHANGED <<fixFrame, PredicatedBlocks>>
  BY DEF SkipBlock, SameGraph, fixFrame
<1>2. Submap(SimdBranches', SimdBranches) /\ at \notin DOMAIN SimdBranches' /\ MoveOn(layout)
  BY DEF SkipBlock, Submap
<1> QED
  BY <1>1, <1>2, LeavingBlock

LEMMA UnsimdBackwardKeeps == IInv /\ UnsimdBackward => IInv'
<1> SUFFICES ASSUME IInv, UnsimdBackward PROVE IInv'
  OBVIOUS
<1>1. SameGraph /\ phase = "fixSimdBranches" /\ UNCHANGED <<fixFrame, PredicatedBlocks>> /\ MoveOn(layout)
  BY DEF UnsimdBackward, AtSimd, SameGraph, fixFrame
<1>2. SimdBranches' = Without(SimdBranches, {at})
  BY DEF UnsimdBackward
<1>3. Submap(SimdBranches', SimdBranches) /\ at \notin DOMAIN SimdBranches'
  <2>1. Submap(SimdBranches', SimdBranches) /\ DOMAIN SimdBranches' = DOMAIN SimdBranches \ {at}
    BY <1>2, WithoutSome
  <2> QED
    BY <2>1
<1> QED
  BY <1>1, <1>3, LeavingBlock

\* No leg of the current block goes backward: all go forward.
LEMMA NoneBackward ==
  ASSUME GraphOK, at \in Blocks, BackwardLegs = {}
  PROVE  Forward(at)
<1>1. ASSUME NEW k \in 1 .. Len(term[at].succ)
      PROVE  Number(term[at].succ[k]) > Number(at)
  <2>1. /\ term[at].succ[k] \in Blocks /\ Number(term[at].succ[k]) \in Nat
        /\ Number(at) \in Nat /\ k \in DOMAIN term[at].succ
    BY LegsOf, GraphNumbers
  <2>2. ~Seen(term[at].succ[k])
    BY <2>1 DEF BackwardLegs
  <2> QED
    BY <2>1, <2>2 DEF Seen
<1> QED
  BY <1>1 DEF Forward

LEMMA KeepBranchKeeps == IInv /\ KeepBranch => IInv'
<1> SUFFICES ASSUME IInv, KeepBranch PROVE IInv'
  OBVIOUS
<1>1. SameGraph /\ phase = "fixSimdBranches" /\ UNCHANGED <<fixFrame, PredicatedBlocks>> /\ MoveOn(layout)
  BY DEF KeepBranch, LegsFixed, AtSimd, SameGraph, fixFrame
<1>2. Submap(SimdBranches', SimdBranches)
  BY DEF Submap, KeepBranch
<1>3. at \in Blocks /\ BackwardLegs = {} /\ GraphOK /\ LayoutOK
  BY <1>1 DEF IInv, PlaceOK, KeepBranch, LegsFixed, GraphOK
<1>4. Forward(at)
  BY <1>3, NoneBackward
<1>5. Falls(at)
  <2>1. SUFFICES ASSUME IsCond(at) PROVE Number(term[at].succ[2]) = Number(at) + 1
    BY DEF Falls
  <2>2. term[at].succ[2] \in Blocks
    BY <1>3, <2>1, LegsOf DEF IsCond
  <2>3. NextNode(at) = term[at].succ[2]
    BY <2>1 DEF KeepBranch, IsNext
  <2> QED
    BY <1>3, <2>2, <2>3, NextNodes
<1> QED
  BY <1>1, <1>2, <1>4, <1>5, LeavingBlock

\* An insertion after the current block leaves the blocks visited before as
\* they are, and the maps.
LEMMA VisitedKept ==
  ASSUME IInv, phase = "fixSimdBranches", NEW a, a = at, NEW leg, NEW new, NEW i \in Nat,
         i > Number(at), Shifted(i, new), LegThrough(leg, new)
  PROVE  /\ Number(a)' = Number(a)
         /\ \A b \in DOMAIN SimdBranches :
              Number(b)' < Number(a)' => Forward(b)' /\ Falls(b)'
<1>1. a \in Blocks /\ Number(a) \in Nat /\ GraphOK /\ i > Number(a)
  BY GraphNumbers DEF IInv, PlaceOK
<1>2. Number(a)' = Number(a)
  BY <1>1 DEF Shifted
<1>3. ASSUME NEW b \in DOMAIN SimdBranches, Number(b)' < Number(a)'
      PROVE  Forward(b)' /\ Falls(b)'
  <2>1. b \in Blocks /\ Number(b) \in Nat
    BY <1>1, GraphNumbers DEF IInv, MapsOK, Positive
  <2>2. Number(b)' = IF Number(b) < i THEN Number(b) ELSE Number(b) + 1
    BY <2>1 DEF Shifted
  <2>3. Number(b) < Number(a) /\ Number(b) + 1 # i
    BY <1>1, <1>2, <1>3, <2>1, <2>2
  <2>4. Forward(b) /\ Falls(b)
    BY <2>3 DEF IInv, FixedOK
  <2>5. term'[b] = term[b]
    BY <1>1, <2>1, <2>3 DEF LegThrough
  <2> QED
    BY <1>1, <2>1, <2>3, <2>4, <2>5, ForwardShifted, FallsShifted
<1> QED
  BY <1>2, <1>3

LEMMA MapsGrow ==
  ASSUME IInv, phase = "fixSimdBranches", NEW leg, NEW new, NEW i,
         Shifted(i, new), LegThrough(leg, new), BodyGrows(new),
         UNCHANGED <<fixFrame, SimdBranches>>, Marked', WidthMap(PredicatedBlocks)',
         Submap(PredicatedBlocks, PredicatedBlocks')
  PROVE  MapsOK'
<1>1. Blocks \subseteq Blocks' /\ Widths' = Widths /\ MapsOK /\ Marked
  BY DEF Shifted, fixFrame, Widths, IInv, Marked
<1>2. Positive(SimdBranches)' /\ Positive(JoinPoints)'
  BY <1>1 DEF MapsOK, Positive, fixFrame
<1>3. DOMAIN JIPs' \subseteq Blocks' /\ \A b \in DOMAIN JIPs' : JIPs'[b] \in Blocks'
  BY <1>1 DEF MapsOK, fixFrame
<1>4. \A j \in DOMAIN JoinPoints' : body'[j] = NoBlock
  BY <1>1 DEF MapsOK, Positive, fixFrame, BodyGrows
<1>5. \A b \in DOMAIN SimdBranches' : term'[b].kind # "ret" /\ HasWidth(b)'
  <2>1. \A b \in Blocks : term'[b].kind = term[b].kind /\ term'[b].width = term[b].width
    BY DEF LegThrough, IsRedirected
  <2>2. \A b \in DOMAIN SimdBranches : b \in Blocks /\ term[b].kind # "ret" /\ HasWidth(b)
    BY <1>1 DEF MapsOK, Positive
  <2> QED
    BY <2>1, <2>2 DEF HasWidth, Submap
<1>6. phase' \notin {"determinePredicatedBlocks", "markPredicatedBranches"}
  BY DEF Marked
<1> QED
  BY <1>2, <1>3, <1>4, <1>5, <1>6 DEF MapsOK

LEMMA InsertingBelow ==
  ASSUME IInv, AtSimd, NEW leg \in 1 .. Len(term[at].succ), NEW new, new = Fresh,
         NEW i \in 1 .. Len(layout) + 1, i > Number(at),
         layout' = InsertAt(layout, i, new), term' = Redirected(leg, new),
         body' = Append(body, NoBlock), isBackward' \in BOOLEAN,
         UNCHANGED <<fixFrame, SimdBranches, PredicatedBlocks, phase, at>>
  PROVE  IInv'
<1>1. phase = "fixSimdBranches" /\ at \in Blocks /\ UNCHANGED source /\ GraphOK
  BY DEF AtSimd, fixFrame, IInv, PlaceOK
<1>2. GraphOK' /\ Shifted(i, new) /\ LegThrough(leg, new) /\ BodyGrows(new)
  BY <1>1, Redirecting
<1>3. JIPsOK' /\ WidthsMatch' /\ Marked /\ Marked'
  BY <1>1, FixesFrame DEF IInv
<1>4. MapsOK'
  <2>1. WidthMap(PredicatedBlocks)' /\ Submap(PredicatedBlocks, PredicatedBlocks')
    BY <1>1, <1>2 DEF IInv, MapsOK, WidthMap, Widths, Shifted, Submap
  <2> QED
    BY <1>1, <1>2, <1>3, <2>1, MapsGrow
<1>5. PlaceOK'
  BY <1>1, <1>2 DEF PlaceOK, Shifted
<1>6. FixedOK'
  <2>1. PICK a : a = at
    OBVIOUS
  <2>2. i \in Nat
    BY <1>1 DEF GraphOK, LayoutOK
  <2>3. \A b \in DOMAIN SimdBranches : Number(b)' < Number(a)' => Forward(b)' /\ Falls(b)'
    BY <1>1, <1>2, <2>1, <2>2, VisitedKept
  <2>4. at' = a
    BY <2>1
  <2> QED
    BY <1>1, <2>3, <2>4 DEF FixedOK, BranchesFixed
<1> QED
  BY <1>2, <1>3, <1>4, <1>5, <1>6 DEF IInv

LEMMA InsertBackwardKeeps == IInv /\ InsertBackward => IInv'
<1> SUFFICES ASSUME IInv, InsertBackward PROVE IInv'
  OBVIOUS
<1>1. AtSimd /\ at \in Blocks /\ GraphOK
  BY DEF InsertBackward, AtSimd, IInv, PlaceOK
<1>2. PICK leg : leg = Least(BackwardLegs)
  OBVIOUS
<1>3. leg \in 1 .. Len(term[at].succ)
  <2>1. BackwardLegs \subseteq 1 .. Len(term[at].succ) /\ BackwardLegs \subseteq Nat
    BY <1>1, LegsOf DEF BackwardLegs
  <2> QED
    BY <2>1, <1>2, LeastIn DEF InsertBackward
<1>4. PICK new : new = Fresh
  OBVIOUS
<1>5. PICK i : i = Number(at) + 1
  OBVIOUS
<1>6. i \in 1 .. Len(layout) + 1 /\ i > Number(at)
  <2>1. Number(at) \in 1 .. Len(layout) /\ Len(layout) \in Nat
    BY <1>1, Numbers DEF GraphOK, Blocks
  <2> QED
    BY <2>1, <1>5
<1>7. layout' = InsertAt(layout, i, new) /\ term' = Redirected(leg, new)
  BY <1>2, <1>4, <1>5 DEF InsertBackward, InsertAfter
<1>8. /\ body' = Append(body, NoBlock) /\ isBackward' \in BOOLEAN
      /\ UNCHANGED <<fixFrame, SimdBranches, PredicatedBlocks, phase, at>>
  BY DEF InsertBackward
<1> QED
  BY <1>1, <1>3, <1>4, <1>6, <1>7, <1>8, InsertingBelow

LEMMA InsertLoopEndKeeps == IInv /\ InsertLoopEnd => IInv'
<1> SUFFICES ASSUME IInv, InsertLoopEnd PROVE IInv'
  OBVIOUS
<1>1. AtSimd /\ at \in Blocks /\ GraphOK
  BY DEF InsertLoopEnd, AtSimd, IInv, PlaceOK
<1>2. PICK leg : leg = Least(CriticalLegs)
  OBVIOUS
<1>3. leg \in 1 .. Len(term[at].succ)
  <2>1. CriticalLegs \subseteq 1 .. Len(term[at].succ) /\ CriticalLegs \subseteq Nat
    BY <1>1, LegsOf DEF CriticalLegs
  <2> QED
    BY <2>1, <1>2, LeastIn DEF InsertLoopEnd
<1>4. PICK new : new = Fresh
  OBVIOUS
<1>5. PICK i : i = Number(term[at].succ[leg])
  OBVIOUS
<1>6. i \in 1 .. Len(layout) + 1 /\ i > Number(at)
  <2>1. i \in 1 .. Len(layout) /\ Len(layout) \in Nat
    BY <1>1, <1>3, <1>5, LegsOf DEF GraphOK, LayoutOK, Blocks
  <2>2. Forward(at)
    BY <1>1, NoneBackward DEF InsertLoopEnd
  <2> QED
    BY <2>1, <2>2, <1>3, <1>5 DEF Forward
<1>7. layout' = InsertAt(layout, i, new) /\ term' = Redirected(leg, new)
  BY <1>2, <1>4, <1>5 DEF InsertLoopEnd, InsertBefore
<1>8. /\ body' = Append(body, NoBlock) /\ isBackward' \in BOOLEAN
      /\ UNCHANGED <<fixFrame, SimdBranches, PredicatedBlocks, phase, at>>
  BY DEF InsertLoopEnd, IInv, PlaceOK
<1> QED
  BY <1>1, <1>3, <1>4, <1>6, <1>7, <1>8, InsertingBelow

LEMMA InvertBranchKeeps == IInv /\ InvertBranch => IInv'
<1> SUFFICES ASSUME IInv, InvertBranch PROVE IInv'
  OBVIOUS
<1>1. /\ phase = "fixSimdBranches" /\ at \in Blocks /\ GraphOK /\ LayoutOK /\ MapsOK
      /\ IsCond(at) /\ BackwardLegs = {}
      /\ UNCHANGED <<fixFrame, layout, body, SimdBranches, PredicatedBlocks, source>>
  BY DEF InvertBranch, LegsFixed, AtSimd, IInv, PlaceOK, GraphOK, fixFrame
<1>2. term' = [term EXCEPT ![at] = Inverted(term[at])]
  BY DEF InvertBranch
<1>3. /\ GraphOK'
      /\ \A b \in Blocks \ {at} : term'[b] = term[b]
      /\ term'[at].kind = "cond" /\ term'[at].width = term[at].width
      /\ Len(term'[at].succ) = 2
      /\ term'[at].succ[1] = term[at].succ[2] /\ term'[at].succ[2] = term[at].succ[1]
  BY <1>1, <1>2, Inverting
<1>4. /\ Blocks' = Blocks /\ Widths' = Widths /\ LayoutOK' /\ MoveOn(layout')
      /\ \A b : Number(b)' = Number(b)
  BY <1>1, <1>3 DEF Blocks, Widths, GraphOK, Number, InvertBranch
<1>5. PICK a \in Blocks' : a = at
  BY <1>1, <1>4
<1>6. /\ Forward(a) /\ Len(term[a].succ) = 2 /\ term[a].succ[1] \in Blocks
      /\ term[a].succ[1] = NextNode(a)
  BY <1>1, <1>5, NoneBackward, LegsOf DEF IsCond, InvertBranch, IsNext
<1>7. Forward(a)' /\ Falls(a)'
  <2>1. Number(term[a].succ[1]) = Number(a) + 1
    BY <1>1, <1>5, <1>6, NextNodes
  <2>2. Number(term[a].succ[1]) > Number(a) /\ Number(term[a].succ[2]) > Number(a)
    BY <1>6 DEF Forward
  <2>3. PICK p, q : p = term[a].succ[1] /\ q = term[a].succ[2]
    OBVIOUS
  <2>4. Len(term'[a].succ) = 2 /\ term'[a].succ[1] = q /\ term'[a].succ[2] = p
    BY <1>3, <1>5, <2>3
  <2>5. Number(p)' > Number(a)' /\ Number(q)' > Number(a)' /\ Number(p)' = Number(a)' + 1
    BY <1>4, <2>1, <2>2, <2>3
  <2> QED
    BY <2>4, <2>5 DEF Forward, Falls
<1>8. ASSUME NEW b \in DOMAIN SimdBranches', Number(b)' <= Number(a)'
      PROVE  Forward(b)' /\ Falls(b)'
  <2>1. b \in Blocks /\ Number(b) \in Nat /\ Number(a) \in Nat /\ Number(b) <= Number(a)
    BY <1>1, <1>4, <1>5, <1>8, GraphNumbers DEF MapsOK, Positive
  <2>2. CASE b = a
    BY <2>2, <1>7
  <2>3. CASE b # a
    <3>1. Number(b) < Number(a)
      BY <2>1, <2>3, <1>1, <1>5, Numbers
    <3>2. Forward(b) /\ Falls(b)
      BY <3>1, <1>1, <1>5 DEF IInv, FixedOK
    <3>3. term'[b] = term[b]
      BY <2>1, <2>3, <1>3, <1>5
    <3> QED
      BY <3>2, <3>3, <1>4 DEF Forward, Falls, IsCond
  <2> QED
    BY <2>2, <2>3
<1>9. DOMAIN SimdBranches' \subseteq Blocks'
  BY <1>1, <1>4 DEF MapsOK, Positive
<1>10. PlaceOK' /\ FixedOK' /\ phase' \in {"fixSimdBranches", "findAndSplitJoinPoints"}
  BY <1>1, <1>4, <1>5, <1>8, <1>9, Visited
<1>11. JIPsOK' /\ WidthsMatch' /\ Marked /\ Marked'
  BY <1>1, <1>10, FixesFrame DEF IInv
<1>12. MapsOK'
  <2>1. UNCHANGED <<SimdBranches, PredicatedBlocks, JoinPoints, JIPs, body>>
    BY <1>1 DEF fixFrame
  <2>2. \A b \in DOMAIN SimdBranches : b \in Blocks /\ term[b].kind # "ret" /\ HasWidth(b)
    BY <1>1, <1>11 DEF MapsOK, Positive
  <2>3. \A b \in Blocks : term'[b].width = term[b].width /\ (term'[b].kind = "ret" <=> term[b].kind = "ret")
    BY <1>1, <1>3 DEF IsCond
  <2>4. \A b \in DOMAIN SimdBranches' : term'[b].kind # "ret" /\ HasWidth(b)'
    BY <2>1, <2>2, <2>3 DEF HasWidth
  <2>5. phase' \notin {"determinePredicatedBlocks", "markPredicatedBranches"}
    BY <1>11 DEF Marked
  <2> QED
    BY <1>1, <1>4, <2>1, <2>4, <2>5 DEF MapsOK, Positive, WidthMap
<1> QED
  BY <1>3, <1>10, <1>11, <1>12 DEF IInv

LEMMA InsertFallthroughKeeps == IInv /\ InsertFallthrough => IInv'
<1> SUFFICES ASSUME IInv, InsertFallthrough PROVE IInv'
  OBVIOUS
<1>1. /\ phase = "fixSimdBranches" /\ at \in Blocks /\ GraphOK /\ LayoutOK /\ MapsOK
      /\ IsCond(at) /\ BackwardLegs = {}
      /\ UNCHANGED <<fixFrame, SimdBranches, source>>
  BY DEF InsertFallthrough, LegsFixed, AtSimd, IInv, PlaceOK, GraphOK, fixFrame
<1>2. PICK new : new = Fresh
  OBVIOUS
<1>3. PICK i : i = Number(at) + 1
  OBVIOUS
<1>4. PICK a : a = at
  OBVIOUS
<1>5. i \in 1 .. Len(layout) + 1 /\ i > Number(at) /\ i \in Nat /\ Number(a) \in Nat
  <2>1. Number(at) \in 1 .. Len(layout) /\ Len(layout) \in Nat
    BY <1>1, Numbers DEF Blocks
  <2> QED
    BY <2>1, <1>3, <1>4
<1>6. /\ layout' = InsertAt(layout, i, new) /\ term' = Redirected(2, new)
      /\ body' = Append(body, NoBlock) /\ MoveOn(layout')
  BY <1>2, <1>3 DEF InsertFallthrough, InsertAfter
<1>7. Len(term[at].succ) = 2 /\ 2 \in 1 .. Len(term[at].succ) /\ term[at].succ[1] \in Blocks
  <2>1. Len(term[at].succ) = 2
    BY <1>1, LegsOf DEF IsCond
  <2>2. \A k \in 1 .. Len(term[at].succ) : term[at].succ[k] \in Blocks
    BY <1>1, LegsOf
  <2> QED
    BY <2>1, <2>2
<1>8. GraphOK' /\ Shifted(i, new) /\ LegThrough(2, new) /\ BodyGrows(new)
  BY <1>1, <1>2, <1>5, <1>6, <1>7, Redirecting
<1>9. LayoutOK' /\ a \in Blocks' /\ DOMAIN SimdBranches' \subseteq Blocks' /\ DOMAIN SimdBranches \subseteq Blocks
  BY <1>1, <1>4, <1>8 DEF GraphOK, Shifted, MapsOK, Positive
<1>10. /\ Number(a)' = Number(a)
       /\ \A b \in DOMAIN SimdBranches :
            Number(b)' < Number(a)' => Forward(b)' /\ Falls(b)'
  BY <1>1, <1>4, <1>5, <1>8, VisitedKept
<1>11. Forward(a)' /\ Falls(a)'
  <2>1. PICK p \in Blocks : p = term[a].succ[1]
    BY <1>4, <1>7
  <2>2. Len(term'[a].succ) = 2 /\ term'[a].succ[1] = p /\ term'[a].succ[2] = new
    BY <1>4, <1>7, <1>8, <2>1 DEF LegThrough, IsRedirected
  <2>3. Number(p) > Number(a)
    BY <1>1, <1>4, <1>7, <2>1, NoneBackward DEF Forward
  <2>4. Number(p)' > Number(a)' /\ Number(new)' = Number(a)' + 1
    <3>1. Number(p) \in Nat
      BY <1>1, GraphNumbers
    <3>2. Number(p)' = IF Number(p) < i THEN Number(p) ELSE Number(p) + 1
      BY <1>8 DEF Shifted
    <3>3. Number(new)' = i
      BY <1>8 DEF Shifted
    <3> QED
      BY <3>1, <3>2, <3>3, <2>3, <1>3, <1>4, <1>5, <1>10
  <2>5. Number(new)' > Number(a)'
    BY <2>4, <1>5, <1>10
  <2> QED
    BY <2>2, <2>4, <2>5 DEF Forward, Falls
<1>12. ASSUME NEW b \in DOMAIN SimdBranches', Number(b)' <= Number(a)'
       PROVE  Forward(b)' /\ Falls(b)'
  <2>1. b \in DOMAIN SimdBranches /\ b \in Blocks /\ Number(b) \in Nat
    BY <1>1, <1>9, GraphNumbers
  <2>2. CASE b = a
    BY <2>2, <1>11
  <2>3. CASE b # a
    <3>1. Number(b)' = IF Number(b) < i THEN Number(b) ELSE Number(b) + 1
      BY <2>1, <1>8 DEF Shifted
    <3>2. Number(b) # Number(a)
      BY <2>1, <2>3, <1>1, <1>4, Numbers
    <3>3. Number(b)' < Number(a)'
      BY <3>1, <3>2, <2>1, <1>3, <1>4, <1>5, <1>10, <1>12
    <3> QED
      BY <3>3, <2>1, <1>10
  <2> QED
    BY <2>2, <2>3
<1>13. PlaceOK' /\ FixedOK' /\ phase' \in {"fixSimdBranches", "findAndSplitJoinPoints"}
  BY <1>1, <1>4, <1>6, <1>9, <1>12, Visited
<1>14. JIPsOK' /\ WidthsMatch' /\ Marked /\ Marked'
  BY <1>1, <1>13, FixesFrame DEF IInv
<1>15. WidthMap(PredicatedBlocks)' /\ Submap(PredicatedBlocks, PredicatedBlocks')
  <2>1. PICK taken \in Blocks : taken = term[at].succ[1]
    BY <1>7
  <2>2. PICK width : width = WidthIn(PredicatedBlocks, taken)
    OBVIOUS
  <2>3. width \in Widths \cup {0}
    BY <1>1, <2>2 DEF WidthIn, MapsOK, WidthMap, Range
  <2>4. PICK mid : mid = Entered(PredicatedBlocks, taken, width)
    OBVIOUS
  <2>5. PredicatedBlocks' = Entered(mid, new, width)
    BY <1>2, <2>1, <2>2, <2>4 DEF InsertFallthrough
  <2>6. IsEntered(mid, PredicatedBlocks, taken, width) /\ IsEntered(PredicatedBlocks', mid, new, width)
    BY <2>4, <2>5, EnteredIn
  <2>7. \A b \in DOMAIN PredicatedBlocks : b \in Blocks /\ PredicatedBlocks[b] \in Widths \cup {0}
    BY <1>1 DEF MapsOK, WidthMap, Range
  <2>8. /\ DOMAIN mid \subseteq Blocks /\ \A b \in DOMAIN mid : mid[b] \in Widths \cup {0}
        /\ Submap(PredicatedBlocks, mid)
    BY <2>1, <2>2, <2>3, <2>6, <2>7 DEF IsEntered, Submap, WidthIn
  <2>9. Blocks' = Blocks \cup {new} /\ new \notin Blocks /\ Widths' = Widths
    BY <1>1, <1>8 DEF Shifted, Widths
  <2>10. /\ DOMAIN PredicatedBlocks' \subseteq Blocks'
         /\ \A b \in DOMAIN PredicatedBlocks' : PredicatedBlocks'[b] \in Widths' \cup {0}
         /\ Submap(PredicatedBlocks, PredicatedBlocks')
    BY <2>3, <2>6, <2>8, <2>9 DEF IsEntered, Submap
  <2> QED
    BY <2>10 DEF WidthMap, Range
<1>16. MapsOK'
  BY <1>1, <1>8, <1>14, <1>15, MapsGrow
<1> QED
  BY <1>8, <1>13, <1>14, <1>16 DEF IInv

-----------------------------------------------------------------------------
(* The steps before fixSimdBranches: the simd branches and their widths.   *)

LEMMA FindSimdBranchesKeeps == IInv /\ FindSimdBranches => IInv'
<1> SUFFICES ASSUME IInv, FindSimdBranches PROVE IInv'
  OBVIOUS
<1>1. SameGraph /\ GraphOK /\ UNCHANGED <<PredicatedBlocks, JoinPoints, JIPs, at, isBackward, asserts, source>>
  BY DEF FindSimdBranches, SameGraph, IInv
<1>2. GraphOK' /\ Blocks' = Blocks /\ Widths' = Widths /\ Widths \subseteq Nat
  BY <1>1, GraphKept, WidthsNat DEF GraphOK
<1>3. phase' \in {"determinePredicatedBlocks", "notSimd"}
  BY DEF FindSimdBranches
<1>4. PlaceOK' /\ FixedOK' /\ JIPsOK'
  BY <1>1, <1>2, <1>3 DEF IInv, PlaceOK, FixedOK, JIPsOK, BranchesFixed
<1>5. WidthsMatch'
  BY <1>1, WidthsMatchKept DEF IInv
<1>6. \A b \in DOMAIN SimdBranches' :
        b \in Blocks /\ SimdBranches'[b] = term[b].width /\ term[b].width > 0
  BY DEF FindSimdBranches
<1>7. Positive(SimdBranches)'
  <2>1. ASSUME NEW b \in DOMAIN SimdBranches' PROVE SimdBranches'[b] \in Widths \ {0}
    <3>1. term[b] \in Terminators(Blocks)
      BY <1>1, <1>6 DEF GraphOK
    <3>2. term[b].width \in Widths \cup {0}
      BY <3>1, TerminatorFields
    <3> QED
      BY <3>2, <1>6
  <2> QED
    BY <2>1, <1>2, <1>6 DEF Positive
<1>8. MapsOK'
  <2>1. \A b \in DOMAIN SimdBranches' : term'[b].width > 0
    BY <1>1, <1>6 DEF SameGraph
  <2>2. Positive(JoinPoints)' /\ WidthMap(PredicatedBlocks)'
    BY <1>1, <1>2 DEF IInv, MapsOK, Positive, WidthMap
  <2>3. DOMAIN JIPs' \subseteq Blocks' /\ \A b \in DOMAIN JIPs' : JIPs'[b] \in Blocks'
    BY <1>1, <1>2 DEF IInv, MapsOK
  <2>4. \A j \in DOMAIN JoinPoints' : body'[j] = NoBlock
    BY <1>1 DEF IInv, MapsOK, SameGraph
  <2> QED
    BY <1>3, <1>7, <2>1, <2>2, <2>3, <2>4 DEF MapsOK, Marked
<1> QED
  BY <1>2, <1>4, <1>5, <1>8 DEF IInv

LEMMA DeterminePredicatedBlocksKeeps == IInv /\ DeterminePredicatedBlocks => IInv'
<1> SUFFICES ASSUME IInv, DeterminePredicatedBlocks PROVE IInv'
  OBVIOUS
<1>1. /\ SameGraph /\ GraphOK /\ LayoutOK /\ phase = "determinePredicatedBlocks"
      /\ UNCHANGED <<SimdBranches, JoinPoints, JIPs, at, isBackward, asserts, source>>
      /\ phase' = "markPredicatedBranches"
  BY DEF DeterminePredicatedBlocks, SameGraph, IInv, GraphOK
<1>2. GraphOK' /\ Blocks' = Blocks /\ Widths' = Widths
  BY <1>1, GraphKept
<1>3. PlaceOK' /\ FixedOK' /\ JIPsOK' /\ WidthsMatch'
  BY <1>1, <1>2, WidthsMatchKept DEF IInv, PlaceOK, FixedOK, JIPsOK, BranchesFixed
<1> DEFINE simd == DOMAIN SimdBranches
           dep == [m \in simd |-> UNION {ControlDependent(m, n) : n \in Succs(m)}]
           by(b) == {m \in simd : b \in dep[m]}
           found == UNION {dep[m] : m \in simd}
<1>4. \A b \in DOMAIN PredicatedBlocks' :
        by(b) # {} /\ PredicatedBlocks'[b] = SimdBranches[LastOf(by(b))]
  <2>1. PredicatedBlocks' = [b \in found |-> SimdBranches[LastOf(by(b))]]
    BY DEF DeterminePredicatedBlocks
  <2> HIDE DEF dep
  <2>2. \A b \in found : by(b) # {}
    OBVIOUS
  <2> HIDE DEF by, found
  <2> QED
    BY <2>1, <2>2
<1>5. \A m \in simd : dep[m] \subseteq Blocks
  BY ControlDependentBlocks
<1> HIDE DEF dep
<1>6. ASSUME NEW b \in DOMAIN PredicatedBlocks'
      PROVE  b \in Blocks /\ PredicatedBlocks'[b] \in Widths \ {0}
  <2>1. by(b) \subseteq Blocks /\ by(b) # {} /\ by(b) \subseteq DOMAIN SimdBranches
    BY <1>4, <1>6 DEF IInv, MapsOK, Positive
  <2>2. LastOf(by(b)) \in by(b)
    BY <1>1, <2>1, LastOfIn
  <2>3. b \in Blocks
    BY <1>5, <2>1
  <2> QED
    BY <1>4, <2>1, <2>2, <2>3 DEF IInv, MapsOK, Positive
<1>7. MapsOK'
  <2>1. WidthMap(PredicatedBlocks)' /\ \A b \in DOMAIN PredicatedBlocks' : PredicatedBlocks'[b] # 0
    BY <1>2, <1>6 DEF WidthMap, Range
  <2>2. Positive(SimdBranches)' /\ Positive(JoinPoints)'
    BY <1>1, <1>2 DEF IInv, MapsOK, Positive
  <2>3. DOMAIN JIPs' \subseteq Blocks' /\ \A b \in DOMAIN JIPs' : JIPs'[b] \in Blocks'
    BY <1>1, <1>2 DEF IInv, MapsOK
  <2>4. /\ \A j \in DOMAIN JoinPoints' : body'[j] = NoBlock
        /\ \A b \in DOMAIN SimdBranches' : term'[b].width > 0
    BY <1>1 DEF IInv, MapsOK, SameGraph
  <2> QED
    BY <1>1, <2>1, <2>2, <2>3, <2>4 DEF MapsOK, Marked
<1> QED
  BY <1>2, <1>3, <1>7 DEF IInv

LEMMA MarkPredicatedBranchesKeeps == IInv /\ MarkPredicatedBranches => IInv'
<1> SUFFICES ASSUME IInv, MarkPredicatedBranches PROVE IInv'
  OBVIOUS
<1>1. /\ SameGraph /\ GraphOK /\ LayoutOK /\ MapsOK /\ phase = "markPredicatedBranches"
      /\ UNCHANGED <<PredicatedBlocks, JoinPoints, JIPs, isBackward, asserts, source>>
      /\ phase' \in {"fixSimdBranches", "rejected"}
  BY DEF MarkPredicatedBranches, SameGraph, IInv, GraphOK
<1>2. GraphOK' /\ Blocks' = Blocks /\ Widths' = Widths /\ Widths \subseteq Nat
  BY <1>1, GraphKept, WidthsNat DEF GraphOK
<1>3. /\ at' \in Blocks /\ Number(at') = 1 /\ \A b : Number(b)' = Number(b)
      /\ \A b \in Blocks : Number(b) \in Nat /\ Number(b) >= 1
  <2>1. 1 \in Blocks
    BY <1>1 DEF LayoutOK, Blocks
  <2>2. at' = layout[1]
    BY DEF MarkPredicatedBranches
  <2>3. \A b \in Blocks : Number(b) \in Nat /\ Number(b) >= 1
    BY <1>1, Numbers DEF Blocks
  <2> QED
    BY <1>1, <2>1, <2>2, <2>3, Numbers, NumbersKept
<1>4. /\ DOMAIN SimdBranches' = DOMAIN PredicatedBlocks \cup DOMAIN SimdBranches
      /\ \A b \in DOMAIN SimdBranches' :
           SimdBranches'[b] = IF b \in DOMAIN PredicatedBlocks THEN PredicatedBlocks[b] ELSE SimdBranches[b]
  BY DEF MarkPredicatedBranches, Over
<1>5. \A b \in DOMAIN PredicatedBlocks : b \in Blocks /\ PredicatedBlocks[b] \in Widths \ {0}
  BY <1>1 DEF MapsOK, WidthMap, Range
<1>6. Positive(SimdBranches)'
  BY <1>1, <1>2, <1>4, <1>5 DEF MapsOK, Positive
<1>7. PlaceOK'
  BY <1>1, <1>2, <1>3 DEF IInv, PlaceOK
<1>8. FixedOK'
  <2>1. PICK a \in Blocks : a = at'
    BY <1>3
  <2>2. Number(at)' = 1
    <3>1. Number(a)' = 1
      BY <1>3, <2>1
    <3>2. Number(at)' = Number(a)'
      BY <2>1 DEF Number
    <3> QED
      BY <3>1, <3>2
  <2>3. \A b \in DOMAIN SimdBranches' : ~(Number(b)' < Number(at)')
    <3>1. ASSUME NEW b \in DOMAIN SimdBranches' PROVE ~(Number(b)' < Number(at)')
      <4>1. b \in Blocks
        BY <1>2, <1>6 DEF Positive
      <4>2. Number(b)' \in Nat /\ Number(b)' >= 1
        BY <4>1, <1>3
      <4> QED
        BY <4>2, <2>2
    <3> QED
      BY <3>1
  <2> QED
    BY <1>1, <2>3 DEF FixedOK, BranchesFixed
<1>9. JIPsOK' /\ WidthsMatch'
  BY <1>1, WidthsMatchKept DEF IInv, JIPsOK
<1>10. MapsOK'
  <2>1. Positive(JoinPoints)' /\ WidthMap(PredicatedBlocks)'
    BY <1>1, <1>2 DEF MapsOK, Positive, WidthMap
  <2>2. DOMAIN JIPs' \subseteq Blocks' /\ \A b \in DOMAIN JIPs' : JIPs'[b] \in Blocks'
    BY <1>1, <1>2 DEF MapsOK
  <2>3. \A j \in DOMAIN JoinPoints' : body'[j] = NoBlock
    BY <1>1 DEF MapsOK, SameGraph
  <2>4. ASSUME phase' = "fixSimdBranches", NEW b \in DOMAIN SimdBranches'
        PROVE  term'[b].kind # "ret" /\ HasWidth(b)'
    <3>1. term' = term /\ PredicatedBlocks' = PredicatedBlocks
      BY <1>1 DEF SameGraph
    <3>2. CASE b \in DOMAIN PredicatedBlocks
      <4>1. term[b].kind # "ret"
        BY <2>4, <3>2 DEF MarkPredicatedBranches
      <4> QED
        BY <3>1, <3>2, <4>1, <1>5 DEF HasWidth
    <3>3. CASE b \in DOMAIN SimdBranches
      <4>1. term[b].width > 0 /\ b \in Blocks
        BY <3>3, <1>1 DEF MapsOK, Positive
      <4>2. term[b] \in Terminators(Blocks)
        BY <4>1, <1>1 DEF GraphOK
      <4>3. term[b].kind = "cond"
        BY <4>1, <4>2, TerminatorFields
      <4>4. ~(0 > 0)
        OBVIOUS
      <4> QED
        BY <3>1, <4>1, <4>3, <4>4 DEF HasWidth
    <3> QED
      BY <1>4, <2>4, <3>2, <3>3
  <2> QED
    BY <1>1, <1>6, <2>1, <2>2, <2>3, <2>4 DEF MapsOK, Marked
<1> QED
  BY <1>2, <1>7, <1>8, <1>9, <1>10 DEF IInv

-----------------------------------------------------------------------------
(* findAndSplitJoinPoints.                                                 *)

\* Every simd branch that has been fixed has a block for UIP.
LEMMA UIPs ==
  ASSUME GraphOK, MapsOK, Marked, NEW b \in DOMAIN SimdBranches
  PROVE  UIPOf(b) \in Blocks /\ 1 \in 1 .. Len(term[b].succ)
<1>1. b \in Blocks /\ term[b].kind # "ret"
  BY DEF MapsOK, Positive
<1>2. Len(term[b].succ) >= 1 /\ Len(term[b].succ) \in Nat
  BY <1>1, LegsOf
<1>3. \A k \in 1 .. Len(term[b].succ) : term[b].succ[k] \in Blocks
  BY <1>1, LegsOf
<1> QED
  BY <1>2, <1>3 DEF UIPOf

\* What the split does to the maps.
SplitMaps(jp, new, width) ==
  /\ DOMAIN JoinPoints' = DOMAIN JoinPoints \cup {jp} /\ JoinPoints'[jp] = width
  /\ \A b \in DOMAIN JoinPoints \ {jp} : JoinPoints'[b] = JoinPoints[b]
  /\ DOMAIN SimdBranches' =
       IF jp \in DOMAIN SimdBranches THEN (DOMAIN SimdBranches \ {jp}) \cup {new} ELSE DOMAIN SimdBranches
  /\ jp \in DOMAIN SimdBranches => SimdBranches'[new] = width
  /\ \A b \in DOMAIN SimdBranches \ {jp} : SimdBranches'[b] = SimdBranches[b]
  /\ DOMAIN PredicatedBlocks' =
       DOMAIN PredicatedBlocks \cup (IF jp \in DOMAIN PredicatedBlocks THEN {new} ELSE {})
  /\ jp \in DOMAIN PredicatedBlocks => PredicatedBlocks'[new] = PredicatedBlocks[jp]
  /\ \A b \in DOMAIN PredicatedBlocks : PredicatedBlocks'[b] = PredicatedBlocks[b]

LEMMA SplitMapsIs ==
  ASSUME GraphOK, MapsOK, NEW jp \in Blocks, NEW width, NEW new, new = Fresh, new \notin Blocks,
         SplitWithWidth(jp, width)
  PROVE  SplitMaps(jp, new, width)
<1>1. new \notin DOMAIN SimdBranches /\ new \notin DOMAIN PredicatedBlocks
  BY DEF MapsOK, Positive, WidthMap
<1>2. IsEntered(JoinPoints', JoinPoints, jp, width)
  <2>1. JoinPoints' = Entered(JoinPoints, jp, width)
    BY DEF SplitWithWidth
  <2> QED
    BY <2>1, EnteredIn
<1>3. jp \in DOMAIN SimdBranches =>
        /\ DOMAIN SimdBranches' = (DOMAIN SimdBranches \ {jp}) \cup {new}
        /\ SimdBranches'[new] = width
        /\ \A b \in DOMAIN SimdBranches \ {jp} : SimdBranches'[b] = SimdBranches[b]
  <2>1. PICK fewer : fewer = Without(SimdBranches, {jp})
    OBVIOUS
  <2>2. Submap(fewer, SimdBranches) /\ DOMAIN fewer = DOMAIN SimdBranches \ {jp}
    BY <2>1, WithoutSome
  <2>3. SUFFICES ASSUME jp \in DOMAIN SimdBranches
                 PROVE  /\ DOMAIN SimdBranches' = (DOMAIN SimdBranches \ {jp}) \cup {new}
                        /\ SimdBranches'[new] = width
                        /\ \A b \in DOMAIN SimdBranches \ {jp} : SimdBranches'[b] = SimdBranches[b]
    OBVIOUS
  <2>4. SimdBranches' = Entered(fewer, new, width)
    BY <2>1, <2>3 DEF SplitWithWidth
  <2>5. IsEntered(SimdBranches', fewer, new, width)
    BY <2>4, EnteredIn
  <2> QED
    BY <2>2, <2>5, <1>1 DEF IsEntered, Submap
<1>4. jp \notin DOMAIN SimdBranches => SimdBranches' = SimdBranches
  BY DEF SplitWithWidth
<1>5. jp \notin DOMAIN PredicatedBlocks => PredicatedBlocks' = PredicatedBlocks
  BY DEF SplitWithWidth
<1>6. jp \in DOMAIN PredicatedBlocks => IsEntered(PredicatedBlocks', PredicatedBlocks, new, PredicatedBlocks[jp])
  <2>1. SUFFICES ASSUME jp \in DOMAIN PredicatedBlocks
                 PROVE  IsEntered(PredicatedBlocks', PredicatedBlocks, new, PredicatedBlocks[jp])
    OBVIOUS
  <2>2. PredicatedBlocks' = Entered(PredicatedBlocks, new, PredicatedBlocks[jp])
    BY <2>1 DEF SplitWithWidth
  <2> QED
    BY <2>2, EnteredIn
<1> QED
  BY <1>1, <1>2, <1>3, <1>4, <1>5, <1>6 DEF SplitMaps, IsEntered

LEMMA SplitMapsOK ==
  ASSUME GraphOK, MapsOK, phase = "findAndSplitJoinPoints", UNCHANGED <<source, JIPs, phase>>,
         NEW jp \in Blocks, jp \notin DOMAIN JoinPoints, NEW width \in Widths \ {0},
         NEW new, Blocks' = Blocks \cup {new}, new \notin Blocks,
         SplitInto(jp, new), SplitMaps(jp, new, width)
  PROVE  MapsOK'
<1>1. Widths' = Widths /\ Marked /\ Marked'
  BY DEF Widths, Marked
<1>2. Positive(SimdBranches)'
  BY <1>1 DEF MapsOK, Positive, SplitMaps
<1>3. Positive(JoinPoints)'
  BY <1>1 DEF MapsOK, Positive, SplitMaps
<1>4. WidthMap(PredicatedBlocks)'
  <2>1. \A b \in DOMAIN PredicatedBlocks : b \in Blocks /\ PredicatedBlocks[b] \in Widths \cup {0}
    BY DEF MapsOK, WidthMap, Range
  <2>2. \A b \in DOMAIN PredicatedBlocks' : b \in Blocks' /\ PredicatedBlocks'[b] \in Widths \cup {0}
    BY <2>1 DEF SplitMaps
  <2> QED
    BY <1>1, <2>2 DEF WidthMap, Range
<1>5. DOMAIN JIPs' \subseteq Blocks' /\ \A b \in DOMAIN JIPs' : JIPs'[b] \in Blocks'
  BY DEF MapsOK
<1>6. \A j \in DOMAIN JoinPoints' : body'[j] = NoBlock
  BY DEF MapsOK, Positive, SplitMaps, SplitInto
<1>7. ASSUME NEW b \in DOMAIN SimdBranches'
      PROVE  term'[b].kind # "ret" /\ HasWidth(b)'
  <2>1. CASE b = new
    <3>1. jp \in DOMAIN SimdBranches /\ term'[b] = term[jp]
      BY <1>7, <2>1 DEF SplitMaps, SplitInto, MapsOK, Positive
    <3>2. term[jp].kind # "ret" /\ HasWidth(jp)
      BY <3>1, <1>1 DEF MapsOK
    <3> QED
      BY <2>1, <3>1, <3>2 DEF HasWidth, SplitMaps
  <2>2. CASE b # new
    <3>1. b \in DOMAIN SimdBranches /\ b # jp /\ b \in Blocks
      BY <1>7, <2>2 DEF SplitMaps, MapsOK, Positive
    <3>2. term[b].kind # "ret" /\ HasWidth(b) /\ term'[b] = term[b]
      BY <3>1, <1>1 DEF MapsOK, SplitInto
    <3> QED
      BY <3>2 DEF HasWidth, SplitMaps
  <2> QED
    BY <2>1, <2>2
<1> QED
  BY <1>1, <1>2, <1>3, <1>4, <1>5, <1>6, <1>7 DEF MapsOK, Marked

LEMMA SplitFixed ==
  ASSUME GraphOK, MapsOK, FixedOK, phase = "findAndSplitJoinPoints",
         NEW jp \in Blocks, NEW width, NEW new, Shifted(Number(jp) + 1, new),
         SplitInto(jp, new), SplitMaps(jp, new, width)
  PROVE  \A b \in DOMAIN SimdBranches' : Forward(b)' /\ Falls(b)'
<1>1. PICK i \in Nat : i = Number(jp) + 1
  BY GraphNumbers
<1>2. Shifted(i, new) /\ LayoutOK /\ Number(jp) \in Nat
  BY <1>1, GraphNumbers
<1>3. DOMAIN SimdBranches \subseteq Blocks /\ \A b \in DOMAIN SimdBranches : Forward(b) /\ Falls(b)
  BY DEF MapsOK, Positive, FixedOK
<1>4. ASSUME NEW b \in DOMAIN SimdBranches', b # new PROVE Forward(b)' /\ Falls(b)'
  <2>1. b \in DOMAIN SimdBranches /\ b # jp /\ b \in Blocks
    BY <1>3, <1>4 DEF SplitMaps
  <2>2. term'[b] = term[b]
    BY <2>1 DEF SplitInto
  <2>3. Number(b) + 1 # i
    <3>1. Number(b) # Number(jp) /\ Number(b) \in Nat
      BY <2>1, <1>2, Numbers, GraphNumbers
    <3> QED
      BY <3>1, <1>1, <1>2
  <2> QED
    BY <1>2, <1>3, <2>1, <2>2, <2>3, ForwardShifted, FallsShifted
<1>5. ASSUME new \in DOMAIN SimdBranches' PROVE Forward(new)' /\ Falls(new)'
  <2>1. jp \in DOMAIN SimdBranches /\ term'[new] = term[jp]
    BY <1>2, <1>3, <1>5 DEF SplitMaps, SplitInto, Shifted
  <2>2. Forward(jp) /\ Falls(jp)
    BY <2>1, <1>3
  <2>3. Number(new)' = i /\ Number(jp) < i
    BY <1>1, <1>2 DEF Shifted
  <2>4. ASSUME NEW k \in 1 .. Len(term[jp].succ)
        PROVE  /\ Number(term[new].succ[k])' = Number(term[jp].succ[k]) + 1
               /\ Number(term[new].succ[k])' > Number(new)'
    <3>1. PICK s \in Blocks : s = term[jp].succ[k] /\ s = term'[new].succ[k]
      BY <2>1, LegsOf
    <3>2. Number(s) > Number(jp) /\ Number(s) \in Nat
      BY <2>2, <3>1, GraphNumbers DEF Forward
    <3>3. Number(s)' = IF Number(s) < i THEN Number(s) ELSE Number(s) + 1
      BY <1>2 DEF Shifted
    <3>4. Number(s)' = Number(s) + 1 /\ Number(s)' > i
      BY <3>2, <3>3, <1>1, <1>2
    <3> QED
      BY <3>1, <3>4, <2>1, <2>3
  <2>5. Forward(new)'
    BY <2>1, <2>4 DEF Forward
  <2>6. Falls(new)'
    <3>1. SUFFICES ASSUME IsCond(jp) PROVE Number(term[new].succ[2])' = Number(new)' + 1
      BY <2>1 DEF Falls, IsCond
    <3>2. 2 \in 1 .. Len(term[jp].succ)
      <4>1. Len(term[jp].succ) = 2
        BY <3>1, LegsOf DEF IsCond
      <4> QED
        BY <4>1
    <3>3. Number(term[jp].succ[2]) = Number(jp) + 1
      BY <2>2, <3>1 DEF Falls
    <3>4. Number(term[new].succ[2])' = Number(term[jp].succ[2]) + 1
      BY <2>4, <3>2
    <3> QED
      BY <2>3, <3>3, <3>4, <1>1
  <2> QED
    BY <2>5, <2>6
<1> QED
  BY <1>4, <1>5

LEMMA SplitJoinPointKeeps == IInv /\ SplitJoinPoint => IInv'
<1> SUFFICES ASSUME IInv, SplitJoinPoint PROVE IInv'
  OBVIOUS
<1>1. /\ phase = "findAndSplitJoinPoints" /\ UnsplitJoinPoints # {}
      /\ UNCHANGED <<source, JIPs, phase, at, isBackward>>
      /\ GraphOK /\ LayoutOK /\ MapsOK /\ FixedOK /\ PlaceOK /\ WidthsMatch /\ Marked
  BY DEF SplitJoinPoint, IInv, GraphOK, Marked
<1>2. PICK jp : jp = FirstOf(UnsplitJoinPoints)
  OBVIOUS
<1>3. jp \in UnsplitJoinPoints /\ jp \in Blocks /\ jp \notin DOMAIN JoinPoints
  <2>1. UnsplitJoinPoints \subseteq Blocks
    BY <1>1, UIPs DEF UnsplitJoinPoints
  <2>2. jp \in UnsplitJoinPoints
    BY <1>1, <1>2, <2>1, FirstOfIn
  <2> QED
    BY <2>1, <2>2 DEF UnsplitJoinPoints
<1>4. PICK width \in {SimdBranches[b] : b \in {d \in DOMAIN SimdBranches : UIPOf(d) = jp}} :
        SplitWithWidth(jp, width)
  BY <1>2 DEF SplitJoinPoint
<1>5. width \in Widths \ {0}
  BY <1>1 DEF MapsOK, Positive
<1>6. PICK new : new = Fresh
  OBVIOUS
<1>7. GraphOK' /\ Shifted(Number(jp) + 1, new) /\ SplitInto(jp, new)
  <2>1. /\ layout' = InsertAfter(jp, new)
        /\ term' = Entered([term EXCEPT ![jp] = Br(new)], new, term[jp])
        /\ body' = Append([body EXCEPT ![jp] = NoBlock], body[jp])
    BY <1>4, <1>6 DEF SplitWithWidth
  <2> QED
    BY <1>1, <1>3, <1>6, <2>1, Splitting
<1>8. Blocks' = Blocks \cup {new} /\ new \notin Blocks
  BY <1>7 DEF Shifted
<1>9. SplitMaps(jp, new, width)
  BY <1>1, <1>3, <1>4, <1>6, <1>8, SplitMapsIs
<1>10. MapsOK'
  BY <1>1, <1>3, <1>5, <1>7, <1>8, <1>9, SplitMapsOK
<1>11. FixedOK'
  <2>1. \A b \in DOMAIN SimdBranches' : Forward(b)' /\ Falls(b)'
    BY <1>1, <1>3, <1>7, <1>9, SplitFixed
  <2> QED
    BY <1>1, <2>1 DEF FixedOK, BranchesFixed
<1>12. PlaceOK' /\ JIPsOK'
  BY <1>1, <1>8 DEF PlaceOK, JIPsOK
<1>13. WidthsMatch'
  <2>1. OneWidth' = OneWidth
    BY <1>1 DEF OneWidth, Widths
  <2>2. ASSUME OneWidth PROVE WidthIn(SimdBranches, jp) \in {0, width}
    BY <1>1, <1>5, <2>2 DEF WidthIn, OneWidth, MapsOK, Positive
  <2>3. asserts' = asserts \cup
          {"SimdBranches[JP] == SimdWidth" : w \in {WidthIn(SimdBranches, jp)} \ {0, width}}
    BY <1>4 DEF SplitWithWidth
  <2> QED
    BY <1>1, <2>1, <2>2, <2>3 DEF WidthsMatch
<1> QED
  BY <1>7, <1>10, <1>11, <1>12, <1>13 DEF IInv

-----------------------------------------------------------------------------
(* determineJIPs and what follows leave the graph as it is.                *)

LEMMA FormGroupsKeeps == IInv /\ FormGroups => IInv'
<1> SUFFICES ASSUME IInv, FormGroups PROVE IInv'
  OBVIOUS
<1>1. /\ phase = "findAndSplitJoinPoints" /\ UnsplitJoinPoints = {} /\ phase' = "determineJIPs"
      /\ SameGraph /\ GraphOK /\ MapsOK /\ FixedOK /\ Marked /\ Marked'
      /\ UNCHANGED <<source, SimdBranches, PredicatedBlocks, JoinPoints, JIPs, at, isBackward, asserts>>
  BY DEF FormGroups, SameGraph, IInv, Marked
<1>2. GraphOK' /\ Blocks' = Blocks
  BY <1>1, GraphKept
<1>3. MapsOK'
  <2>1. Submap(SimdBranches', SimdBranches) /\ Submap(JoinPoints', JoinPoints)
    BY <1>1 DEF Submap
  <2>2. DOMAIN JIPs' \subseteq Blocks /\ \A b \in DOMAIN JIPs' : JIPs'[b] \in Blocks
    BY <1>1 DEF MapsOK
  <2> QED
    BY <1>1, <2>1, <2>2, MapsKept
<1>4. FixedOK'
  <2>1. \A b \in DOMAIN SimdBranches' : Forward(b)' /\ Falls(b)'
    BY <1>1, NumbersKept DEF FixedOK
  <2>2. \A b \in DOMAIN SimdBranches' : UIPOf(b)' \in DOMAIN JoinPoints'
    BY <1>1 DEF UnsplitJoinPoints, UIPOf, SameGraph
  <2> QED
    BY <1>1, <2>1, <2>2 DEF FixedOK
<1>5. PlaceOK' /\ JIPsOK' /\ WidthsMatch'
  BY <1>1, <1>2, WidthsMatchKept DEF IInv, PlaceOK, JIPsOK
<1> QED
  BY <1>2, <1>3, <1>4, <1>5 DEF IInv

\* A step that leaves the graph, the branches, the joins and the JIPs.
LEMMA MapsLeft ==
  ASSUME IInv, SameGraph, phase \in {"predicateCode", "lowerSimdCF"},
         phase' \in {"lowerSimdCF", "lowered"}, WidthsMatch',
         "reached end" \in asserts => "reached end" \in asserts',
         UNCHANGED <<source, SimdBranches, PredicatedBlocks, JoinPoints, JIPs, group, at, isBackward>>
  PROVE  IInv'
<1>1. GraphOK /\ MapsOK /\ Marked /\ Marked'
  BY DEF IInv, Marked
<1>2. GraphOK' /\ Blocks' = Blocks
  BY <1>1, GraphKept
<1>3. MapsOK'
  <2>1. Submap(SimdBranches', SimdBranches) /\ Submap(JoinPoints', JoinPoints)
    BY DEF Submap
  <2>2. DOMAIN JIPs' \subseteq Blocks /\ \A b \in DOMAIN JIPs' : JIPs'[b] \in Blocks
    BY <1>1 DEF MapsOK
  <2> QED
    BY <1>1, <2>1, <2>2, MapsKept
<1>4. FixedOK'
  <2>1. \A b \in DOMAIN SimdBranches' : Forward(b)' /\ Falls(b)'
    BY NumbersKept DEF IInv, FixedOK, BranchesFixed
  <2>2. \A b \in DOMAIN SimdBranches' : UIPOf(b)' \in DOMAIN JoinPoints'
    BY DEF UIPOf, SameGraph, IInv, FixedOK, BranchesFixed
  <2> QED
    BY <2>1, <2>2 DEF FixedOK
<1>5. PlaceOK'
  BY <1>2 DEF IInv, PlaceOK
<1>6. JIPsOK'
  <2>1. \A b : Number(b)' = Number(b)
    BY NumbersKept
  <2>2. JoinsWithJIP' = JoinsWithJIP
    BY <2>1 DEF JoinsWithJIP
  <2>3. \A b \in DOMAIN SimdBranches \cup (IF "reached end" \in asserts THEN {} ELSE JoinsWithJIP) :
          b \in DOMAIN JIPs /\ JIPs[b] \in DOMAIN JoinPoints /\ Number(JIPs[b]) > Number(b)
    BY DEF IInv, JIPsOK
  <2>4. \A b : Number(JIPs[b])' = Number(JIPs[b])
    BY <2>1
  <2> QED
    BY <2>1, <2>2, <2>3, <2>4 DEF JIPsOK
<1> QED
  BY <1>2, <1>3, <1>4, <1>5, <1>6 DEF IInv

LEMMA PredicateCodeKeeps == IInv /\ PredicateCode => IInv'
<1> SUFFICES ASSUME IInv, PredicateCode PROVE IInv'
  OBVIOUS
<1>1. /\ SameGraph /\ phase = "predicateCode" /\ phase' = "lowerSimdCF"
      /\ UNCHANGED <<source, SimdBranches, PredicatedBlocks, JoinPoints, JIPs, group, at, isBackward, asserts>>
  BY DEF PredicateCode, SameGraph
<1>2. WidthsMatch'
  BY <1>1, WidthsMatchKept DEF IInv
<1> QED
  BY <1>1, <1>2, MapsLeft

\* A goto takes the width of its condition or of its block, never 0.
LEMMA GotoWidths ==
  ASSUME GraphOK, MapsOK, Marked, NEW b \in DOMAIN SimdBranches
  PROVE  GotoWidth(b) \in Widths \ {0}
<1>1. b \in Blocks /\ HasWidth(b)
  BY DEF MapsOK, Positive
<1>2. term[b] \in Terminators(Blocks)
  BY <1>1 DEF GraphOK
<1>3. term[b].width \in Widths \cup {0} /\ Widths \subseteq Nat
  BY <1>2, TerminatorFields, WidthsNat DEF GraphOK
<1>4. b \in DOMAIN PredicatedBlocks => PredicatedBlocks[b] \in Widths \cup {0}
  BY DEF MapsOK, WidthMap, Range
<1>5. CASE term[b].width > 0
  <2>1. ~(0 > 0)
    OBVIOUS
  <2> QED
    BY <1>3, <1>5, <2>1 DEF GotoWidth
<1>6. CASE ~(term[b].width > 0)
  <2>1. term[b].width = 0
    <3>1. PICK w \in Nat : w = term[b].width
      BY <1>3
    <3>2. ~(w > 0)
      BY <3>1, <1>6
    <3>3. w = 0
      BY <3>2
    <3> QED
      BY <3>1, <3>3
  <2> QED
    BY <1>1, <1>4, <1>6, <2>1 DEF GotoWidth, HasWidth, WidthIn
<1> QED
  BY <1>5, <1>6

LEMMA LowerSimdCFKeeps == IInv /\ LowerSimdCF => IInv'
<1> SUFFICES ASSUME IInv, LowerSimdCF PROVE IInv'
  OBVIOUS
<1>1. /\ SameGraph /\ phase = "lowerSimdCF" /\ phase' = "lowered"
      /\ UNCHANGED <<source, SimdBranches, PredicatedBlocks, JoinPoints, JIPs, group, at, isBackward>>
      /\ asserts' = asserts \cup {"RM variable has the width asked for" :
                      j \in {d \in Blocks : Cardinality(RMWidths(d)) > 1}}
  BY DEF LowerSimdCF, SameGraph
<1>2. GraphOK /\ MapsOK /\ Marked /\ WidthsMatch
  BY <1>1 DEF IInv, Marked
<1>3. ASSUME OneWidth, NEW d \in Blocks PROVE ~(Cardinality(RMWidths(d)) > 1)
  <2>1. RMWidths(d) \subseteq Widths \ {0}
    BY <1>2, GotoWidths DEF RMWidths, MapsOK, Positive
  <2>2. CASE RMWidths(d) = {}
    BY <2>2, FS_EmptySet
  <2>3. ASSUME NEW w \in RMWidths(d) PROVE ~(Cardinality(RMWidths(d)) > 1)
    <3>1. RMWidths(d) = {w}
      BY <1>3, <2>1 DEF OneWidth
    <3>2. Cardinality({w}) = 1
      BY FS_Singleton
    <3> QED
      BY <3>1, <3>2
  <2> QED
    BY <2>2, <2>3
<1>4. WidthsMatch'
  <2>1. OneWidth' = OneWidth
    BY <1>1, ZenonT(60) DEF OneWidth, Widths
  <2> QED
    BY <1>1, <1>2, <1>3, <2>1 DEF WidthsMatch
<1> QED
  BY <1>1, <1>4, MapsLeft

\* A goto finds a JIP, its UIP if nothing before it; what is found is a join
\* further down.
LEMMA JIPsFound ==
  ASSUME GraphOK, MapsOK, FixedOK, phase = "determineJIPs",
         NEW b \in Blocks, NEW uip,
         uip = IF b \in DOMAIN SimdBranches THEN UIPOf(b) ELSE NoBlock
  PROVE  /\ b \in DOMAIN SimdBranches => JIPCandidates(b, uip) # {}
         /\ JIPCandidates(b, uip) # {} =>
              /\ FirstOf(JIPCandidates(b, uip)) \in DOMAIN JoinPoints
              /\ FirstOf(JIPCandidates(b, uip)) \in Blocks
              /\ Number(FirstOf(JIPCandidates(b, uip))) > Number(b)
<1>1. LayoutOK /\ Marked /\ NoBlock \notin Blocks
  BY DEF GraphOK, Marked, NoBlock, Blocks
<1>2. ASSUME b \in DOMAIN SimdBranches
      PROVE  uip \in Blocks /\ uip \in DOMAIN JoinPoints /\ Number(uip) > Number(b)
  <2>1. uip = UIPOf(b) /\ UIPOf(b) \in Blocks /\ 1 \in 1 .. Len(term[b].succ)
    BY <1>1, <1>2, UIPs
  <2>2. Forward(b) /\ UIPOf(b) \in DOMAIN JoinPoints
    BY <1>2 DEF FixedOK, BranchesFixed
  <2> QED
    BY <2>1, <2>2 DEF Forward, UIPOf
<1>3. ASSUME NEW d \in JIPCandidates(b, uip)
      PROVE  d \in DOMAIN JoinPoints /\ d \in Blocks /\ Number(d) > Number(b)
  <2>1. d \in Blocks /\ Number(d) > Number(b) /\ (d = uip \/ d \in DOMAIN JoinPoints)
    BY DEF JIPCandidates
  <2> QED
    BY <2>1, <1>1, <1>2
<1>4. JIPCandidates(b, uip) # {} => FirstOf(JIPCandidates(b, uip)) \in JIPCandidates(b, uip)
  <2>1. JIPCandidates(b, uip) \subseteq Blocks
    BY <1>3
  <2> QED
    BY <2>1, <1>1, FirstOfIn
<1>5. b \in DOMAIN SimdBranches => uip \in JIPCandidates(b, uip)
  BY <1>2 DEF JIPCandidates
<1> QED
  BY <1>3, <1>4, <1>5

LEMMA DetermineJIPsKeeps == IInv /\ DetermineJIPs => IInv'
<1> SUFFICES ASSUME IInv, DetermineJIPs PROVE IInv'
  OBVIOUS
<1> DEFINE gotos == DOMAIN SimdBranches
           uip(b) == IF b \in gotos THEN UIPOf(b) ELSE NoBlock
           scanned == gotos \cup JoinsWithJIP
           stuck == {b \in scanned : JIPCandidates(b, uip(b)) = {}}
           found == [b \in scanned \ stuck |-> FirstOf(JIPCandidates(b, uip(b)))]
           unsimd == {b \in gotos \ stuck : ~IsCond(b) /\ found[b] = UIPOf(b)}
           uips == {UIPOf(b) : b \in gotos \ unsimd}
<1>1. /\ phase = "determineJIPs" /\ SameGraph /\ GraphOK /\ MapsOK /\ FixedOK /\ Marked
      /\ UNCHANGED <<source, PredicatedBlocks, group, at, isBackward>>
      /\ phase' \in {"determineJIPs", "predicateCode"}
  BY DEF DetermineJIPs, SameGraph, IInv, Marked
<1>2. /\ JIPs' = Over(found, JIPs)
      /\ asserts' = asserts \cup {"reached end" : b \in stuck}
      /\ unsimd = {} => phase' = "predicateCode" /\ UNCHANGED <<SimdBranches, JoinPoints>>
      /\ unsimd # {} => /\ SimdBranches' = Without(SimdBranches, unsimd)
                        /\ JoinPoints' = Restrict(JoinPoints, DOMAIN JoinPoints \cap uips)
                        /\ phase' = "determineJIPs"
  BY <1>1 DEF DetermineJIPs
<1>3. GraphOK' /\ Blocks' = Blocks /\ Marked' /\ \A b : Number(b)' = Number(b)
  BY <1>1, GraphKept, NumbersKept DEF Marked
<1>4. scanned \subseteq Blocks
  BY <1>1 DEF MapsOK, Positive, JoinsWithJIP
<1>5. \A b \in gotos : b \notin stuck
  BY <1>1, <1>4, JIPsFound
<1>6. \A b \in scanned \ stuck : found[b] = FirstOf(JIPCandidates(b, uip(b)))
  OBVIOUS
<1>7. ASSUME NEW b \in scanned \ stuck
      PROVE  found[b] \in DOMAIN JoinPoints /\ found[b] \in Blocks /\ Number(found[b]) > Number(b)
  <2>1. b \in Blocks /\ JIPCandidates(b, uip(b)) # {}
    BY <1>4
  <2> HIDE DEF found
  <2> QED
    BY <1>1, <1>6, <2>1, JIPsFound
<1>8. DOMAIN found = scanned \ stuck
  OBVIOUS
<1> HIDE DEF found, stuck
<1>9. /\ DOMAIN JIPs' = (scanned \ stuck) \cup DOMAIN JIPs
      /\ \A b \in scanned \ stuck : JIPs'[b] = found[b]
      /\ \A b \in DOMAIN JIPs \ (scanned \ stuck) : JIPs'[b] = JIPs[b]
  BY <1>2, <1>8 DEF Over
<1>10. DOMAIN JIPs' \subseteq Blocks /\ \A b \in DOMAIN JIPs' : JIPs'[b] \in Blocks
  <2>1. DOMAIN JIPs \subseteq Blocks /\ \A b \in DOMAIN JIPs : JIPs[b] \in Blocks
    BY <1>1 DEF MapsOK
  <2> HIDE DEF scanned
  <2> QED
    BY <1>4, <1>7, <1>9, <2>1
<1> HIDE DEF scanned, unsimd
<1>11. /\ Submap(SimdBranches', SimdBranches) /\ Submap(JoinPoints', JoinPoints)
       /\ \A b \in DOMAIN SimdBranches' : UIPOf(b) \in DOMAIN JoinPoints'
  <2>1. \A b \in gotos : UIPOf(b) \in DOMAIN JoinPoints
    BY <1>1 DEF FixedOK, BranchesFixed
  <2>2. CASE unsimd = {}
    BY <2>1, <2>2, <1>2 DEF Submap
  <2>3. CASE unsimd # {}
    <3> HIDE DEF uips
    <3>1. Submap(SimdBranches', SimdBranches) /\ DOMAIN SimdBranches' = gotos \ unsimd
      BY <2>3, <1>2, WithoutSome
    <3>2. Submap(JoinPoints', JoinPoints) /\ DOMAIN JoinPoints' = DOMAIN JoinPoints \cap uips
      BY <2>3, <1>2, OnlySome
    <3>3. \A b \in gotos \ unsimd : UIPOf(b) \in uips
      BY DEF uips
    <3> QED
      BY <3>1, <3>2, <3>3, <2>1
  <2> QED
    BY <2>2, <2>3
<1>12. MapsOK'
  BY <1>1, <1>3, <1>10, <1>11, MapsKept
<1>13. FixedOK'
  <2>1. \A b \in DOMAIN SimdBranches' : Forward(b)' /\ Falls(b)'
    BY <1>1, <1>11, NumbersKept DEF FixedOK, BranchesFixed, Submap
  <2>2. \A b \in DOMAIN SimdBranches' : UIPOf(b)' \in DOMAIN JoinPoints'
    BY <1>1, <1>11 DEF UIPOf, SameGraph
  <2> QED
    BY <1>1, <2>1, <2>2 DEF FixedOK
<1>14. PlaceOK'
  BY <1>1, <1>3 DEF IInv, PlaceOK
<1>15. JIPsOK'
  <2>1. SUFFICES ASSUME phase' = "predicateCode" PROVE JIPsOK'
    BY <1>1 DEF JIPsOK
  <2>2. UNCHANGED <<SimdBranches, JoinPoints>>
    BY <2>1, <1>2
  <2>3. JoinsWithJIP' = JoinsWithJIP
    BY <2>2, <1>1, <1>3 DEF JoinsWithJIP
  <2>4. ASSUME NEW b \in gotos \cup (IF "reached end" \in asserts' THEN {} ELSE JoinsWithJIP)
        PROVE  b \in DOMAIN JIPs' /\ JIPs'[b] \in DOMAIN JoinPoints' /\ Number(JIPs[b])' > Number(b)'
    <3>1. b \in scanned
      BY <2>4 DEF scanned
    <3>2. b \notin stuck
      BY <2>4, <1>2, <1>5
    <3>3. b \in DOMAIN JIPs' /\ JIPs'[b] = found[b]
      BY <3>1, <3>2, <1>9
    <3>4. found[b] \in DOMAIN JoinPoints /\ Number(found[b]) > Number(b)
      BY <3>1, <3>2, <1>7
    <3>5. Number(JIPs[b])' = Number(found[b])
      BY <3>3, <1>3
    <3> QED
      BY <3>3, <3>4, <3>5, <2>2, <1>3
  <2> QED
    BY <2>2, <2>3, <2>4 DEF JIPsOK
<1>16. WidthsMatch'
  <2>1. OneWidth' = OneWidth
    BY <1>1 DEF OneWidth, Widths
  <2> QED
    BY <1>2, <2>1 DEF WidthsMatch, IInv
<1> QED
  BY <1>3, <1>12, <1>13, <1>14, <1>15, <1>16 DEF IInv

-----------------------------------------------------------------------------
(* The theorems.                                                           *)

LEMMA StutterIInv == IInv /\ UNCHANGED lowerVars => IInv'
<1> SUFFICES ASSUME IInv, UNCHANGED lowerVars PROVE IInv'
  OBVIOUS
<1>1. /\ SameGraph /\ GraphOK
      /\ UNCHANGED <<source, SimdBranches, PredicatedBlocks, JoinPoints, JIPs, group,
                     phase, at, isBackward, asserts>>
  BY DEF lowerVars, passVars, SameGraph, IInv
<1>2. GraphOK' /\ Blocks' = Blocks /\ Widths' = Widths /\ WidthsMatch'
  BY <1>1, GraphKept, WidthsMatchKept DEF IInv
<1>3. /\ \A b : Number(b)' = Number(b)
      /\ \A b : (Forward(b)' <=> Forward(b)) /\ (Falls(b)' <=> Falls(b))
  BY <1>1, NumbersKept
<1>4. MapsOK'
  BY <1>1, <1>2 DEF SameGraph, IInv, MapsOK, Positive, WidthMap, Marked, HasWidth
<1>5. PlaceOK'
  BY <1>1, <1>2 DEF IInv, PlaceOK
<1>6. FixedOK'
  <2>1. Number(at)' = Number(at)
    BY <1>1, <1>3
  <2>2. \A b : UIPOf(b)' = UIPOf(b)
    BY <1>1 DEF UIPOf, SameGraph
  <2> QED
    BY <1>1, <1>3, <2>1, <2>2 DEF IInv, FixedOK, BranchesFixed
<1>7. JIPsOK'
  <2>1. JoinsWithJIP' = JoinsWithJIP
    BY <1>1, <1>3 DEF JoinsWithJIP
  <2>2. \A b : Number(JIPs[b])' = Number(JIPs[b])
    BY <1>1, <1>3
  <2> QED
    BY <1>1, <1>3, <2>1, <2>2 DEF IInv, JIPsOK
<1> QED
  BY <1>2, <1>4, <1>5, <1>6, <1>7 DEF IInv

LEMMA NextIInv == IInv /\ [Next]_lowerVars => IInv'
<1> SUFFICES ASSUME IInv, [Next]_lowerVars PROVE IInv'
  OBVIOUS
<1>1. CASE FindSimdBranches
  BY <1>1, FindSimdBranchesKeeps
<1>2. CASE DeterminePredicatedBlocks
  BY <1>2, DeterminePredicatedBlocksKeeps
<1>3. CASE MarkPredicatedBranches
  BY <1>3, MarkPredicatedBranchesKeeps
<1>4. CASE FixSimdBranches
  BY <1>4, SkipBlockKeeps, UnsimdBackwardKeeps, InsertBackwardKeeps, InsertLoopEndKeeps,
     KeepBranchKeeps, InvertBranchKeeps, InsertFallthroughKeeps DEF FixSimdBranches
<1>5. CASE SplitJoinPoint
  BY <1>5, SplitJoinPointKeeps
<1>6. CASE FormGroups
  BY <1>6, FormGroupsKeeps
<1>7. CASE DetermineJIPs
  BY <1>7, DetermineJIPsKeeps
<1>8. CASE PredicateCode
  BY <1>8, PredicateCodeKeeps
<1>9. CASE LowerSimdCF
  BY <1>9, LowerSimdCFKeeps
<1>10. CASE UNCHANGED lowerVars
  BY <1>10, StutterIInv
<1> QED
  BY <1>1, <1>2, <1>3, <1>4, <1>5, <1>6, <1>7, <1>8, <1>9, <1>10 DEF Next

THEOREM Invariance == Spec => []IInv
<1> QED
  BY InitIInv, NextIInv, PTL DEF Spec

\* The blocks of the function and what the maps hold stay well typed: every
\* insertion and split (fixSimdBranches, findAndSplitJoinPoints) leaves an
\* enumeration of the blocks, with targets that are blocks of the function.
THEOREM TypeCorrect == Spec => []TypeOK
<1>1. IInv => TypeOK
  <2> SUFFICES ASSUME IInv PROVE TypeOK
    OBVIOUS
  <2>1. GraphOK /\ MapsOK /\ PlaceOK
    BY DEF IInv
  <2>2. IsInjective(layout) /\ Range(layout) = Blocks /\ DOMAIN term = Blocks
    BY <2>1 DEF GraphOK, LayoutOK
  <2>3. \A b \in Blocks : Succs(b) \subseteq Blocks
    <3>1. ASSUME NEW b \in Blocks PROVE Succs(b) \subseteq Blocks
      <4>1. \A k \in DOMAIN term[b].succ : term[b].succ[k] \in Blocks
        BY <2>1, LegsOf
      <4> QED
        BY <4>1 DEF Succs, Range
    <3> QED
      BY <3>1
  <2>4. DOMAIN body = Blocks /\ Range(body) \subseteq {NoBlock} \cup DOMAIN source.term
    BY <2>1 DEF GraphOK, Blocks, Range
  <2>5. WidthMap(SimdBranches) /\ WidthMap(PredicatedBlocks) /\ WidthMap(JoinPoints)
    BY <2>1 DEF MapsOK, Positive, WidthMap, Range
  <2>6. DOMAIN JIPs \subseteq Blocks /\ Range(JIPs) \subseteq Blocks
    BY <2>1 DEF MapsOK, Range
  <2> QED
    BY <2>1, <2>2, <2>3, <2>4, <2>5, <2>6 DEF TypeOK, PlaceOK
<1> QED
  BY <1>1, Invariance, PTL

LEMMA IInvForward == IInv => ForwardToJoins
<1> SUFFICES ASSUME IInv, BranchesFixed, NEW b \in DOMAIN SimdBranches
             PROVE  /\ Number(UIPOf(b)) > Number(b)
                    /\ UIPOf(b) \in DOMAIN JoinPoints
                    /\ body[UIPOf(b)] = NoBlock
                    /\ IsCond(b) => term[b].succ[2] = NextNode(b)
  BY DEF ForwardToJoins
<1>1. GraphOK /\ LayoutOK /\ MapsOK /\ FixedOK /\ Marked
  BY DEF IInv, GraphOK, Marked, BranchesFixed
<1>2. b \in Blocks /\ Forward(b) /\ Falls(b) /\ UIPOf(b) \in DOMAIN JoinPoints
  BY <1>1 DEF MapsOK, Positive, FixedOK
<1>3. 1 \in 1 .. Len(term[b].succ)
  BY <1>1, UIPs
<1>4. Number(UIPOf(b)) > Number(b)
  BY <1>2, <1>3 DEF Forward, UIPOf
<1>5. body[UIPOf(b)] = NoBlock
  BY <1>1, <1>2 DEF MapsOK
<1>6. ASSUME IsCond(b) PROVE term[b].succ[2] = NextNode(b)
  <2>1. Len(term[b].succ) = 2
    BY <1>1, <1>2, <1>6, LegsOf DEF IsCond
  <2>2. \A k \in 1 .. Len(term[b].succ) : term[b].succ[k] \in Blocks
    BY <1>1, <1>2, LegsOf
  <2>3. term[b].succ[2] \in Blocks
    BY <2>1, <2>2
  <2> QED
    BY <1>1, <1>2, <1>6, <2>3, NextNodes DEF Falls
<1> QED
  BY <1>2, <1>4, <1>5, <1>6

\* What fixSimdBranches and findAndSplitJoinPoints promise, for every function:
\* all simd branches go forward, each to a join in a block of its own, and the
\* false leg of a conditional one falls through.
THEOREM ForwardToJoinsHolds == Spec => []ForwardToJoins
<1> QED
  BY IInvForward, Invariance, PTL

\* In a function whose simd branches have one width, no assertion on widths
\* fails (findAndSplitJoinPoints, getRMAddr): every join and every goto has
\* that width, so a resume mask is never asked for with two.
THEOREM WidthsMatchHolds == Spec => []WidthsMatch
<1>1. IInv => WidthsMatch
  BY DEF IInv
<1> QED
  BY <1>1, Invariance, PTL

\* lowerSimdCF reads a JIP for each goto: it always finds one.
THEOREM EveryGotoHasJIP ==
  Spec => [](phase = "lowerSimdCF" => DOMAIN SimdBranches \subseteq DOMAIN JIPs)
<1>1. IInv => (phase = "lowerSimdCF" => DOMAIN SimdBranches \subseteq DOMAIN JIPs)
  BY DEF IInv, JIPsOK
<1> QED
  BY <1>1, Invariance, PTL

-----------------------------------------------------------------------------
(***************************************************************************)
(* The lowered code. A block is never a simd branch and a join: the split  *)
(* moves a branch out of the block that becomes a join.                    *)
(***************************************************************************)
BeforeJoins == {"findSimdBranches", "determinePredicatedBlocks", "markPredicatedBranches"}

JoinsOK ==
  /\ phase \in BeforeJoins => DOMAIN JoinPoints = {}
  /\ DOMAIN JoinPoints \cap DOMAIN SimdBranches = {}

LoweredBlock(b) ==
  IF b \in DOMAIN SimdBranches THEN LoweredGoto(b)
  ELSE IF b \in DOMAIN JoinPoints THEN LoweredJoin(b)
  ELSE Unlowered(b)

LoweredOK ==
  phase = "lowered" =>
    \A b \in Blocks :
      /\ b \in DOMAIN SimdBranches => code[b].uip = UIPOf(b) /\ code[b].taken = JIPs[b]
      /\ b \in DOMAIN JoinPoints =>
           code[b].op = "join" /\ (b \in DOMAIN JIPs => code[b].taken = JIPs[b])

LEMMA NextJoinsOK == IInv /\ JoinsOK /\ [Next]_lowerVars => JoinsOK'
<1> SUFFICES ASSUME IInv, JoinsOK, [Next]_lowerVars PROVE JoinsOK'
  OBVIOUS
<1>1. CASE FindSimdBranches
  BY <1>1 DEF FindSimdBranches, JoinsOK, BeforeJoins
<1>2. CASE DeterminePredicatedBlocks
  BY <1>2 DEF DeterminePredicatedBlocks, JoinsOK, BeforeJoins
<1>3. CASE MarkPredicatedBranches
  BY <1>3 DEF MarkPredicatedBranches, JoinsOK, BeforeJoins
<1>4. CASE UNCHANGED <<SimdBranches, JoinPoints>> /\ phase' \notin BeforeJoins
  BY <1>4 DEF JoinsOK
<1>5. CASE UnsimdBackward
  <2>1. SimdBranches' = Without(SimdBranches, {at}) /\ UNCHANGED JoinPoints /\ phase' \notin BeforeJoins
    BY <1>5 DEF UnsimdBackward, AtSimd, MoveOn, fixFrame, BeforeJoins
  <2>2. DOMAIN SimdBranches' \subseteq DOMAIN SimdBranches
    BY <2>1, WithoutSome DEF Submap
  <2> QED
    BY <2>1, <2>2 DEF JoinsOK
<1>6. CASE SplitJoinPoint
  <2>1. /\ phase = "findAndSplitJoinPoints" /\ UnsplitJoinPoints # {} /\ UNCHANGED phase
        /\ GraphOK /\ LayoutOK /\ MapsOK /\ Marked
    BY <1>6 DEF SplitJoinPoint, IInv, GraphOK, Marked
  <2>2. PICK jp, width : jp = FirstOf(UnsplitJoinPoints) /\ SplitWithWidth(jp, width)
    BY <1>6 DEF SplitJoinPoint
  <2>3. jp \in Blocks /\ jp \notin DOMAIN JoinPoints
    <3>1. UnsplitJoinPoints \subseteq Blocks
      BY <2>1, UIPs DEF UnsplitJoinPoints
    <3>2. jp \in UnsplitJoinPoints
      BY <2>1, <2>2, <3>1, FirstOfIn
    <3> QED
      BY <3>1, <3>2 DEF UnsplitJoinPoints
  <2>4. PICK new : new = Fresh
    OBVIOUS
  <2>5. new \notin Blocks
    BY <2>1, <2>4 DEF Fresh, Blocks, LayoutOK
  <2>6. SplitMaps(jp, new, width)
    BY <2>1, <2>2, <2>3, <2>4, <2>5, SplitMapsIs
  <2>7. DOMAIN JoinPoints \subseteq Blocks /\ DOMAIN SimdBranches \subseteq Blocks
    BY <2>1 DEF MapsOK, Positive
  <2> QED
    BY <2>1, <2>3, <2>5, <2>6, <2>7 DEF JoinsOK, SplitMaps, BeforeJoins
<1>7. CASE DetermineJIPs
  <2>1. phase' \notin BeforeJoins
    BY <1>7 DEF DetermineJIPs, BeforeJoins
  <2>2. DOMAIN SimdBranches' \subseteq DOMAIN SimdBranches /\ DOMAIN JoinPoints' \subseteq DOMAIN JoinPoints
    <3>1. \/ UNCHANGED <<SimdBranches, JoinPoints>>
          \/ \E S, T : /\ SimdBranches' = Without(SimdBranches, S)
                       /\ JoinPoints' = Restrict(JoinPoints, DOMAIN JoinPoints \cap T)
      BY <1>7 DEF DetermineJIPs
    <3>2. ASSUME NEW S, NEW T, SimdBranches' = Without(SimdBranches, S),
                 JoinPoints' = Restrict(JoinPoints, DOMAIN JoinPoints \cap T)
          PROVE  DOMAIN SimdBranches' \subseteq DOMAIN SimdBranches /\ DOMAIN JoinPoints' \subseteq DOMAIN JoinPoints
      <4>1. Submap(SimdBranches', SimdBranches)
        BY <3>2, WithoutSome
      <4>2. Submap(JoinPoints', JoinPoints)
        BY <3>2, OnlySome
      <4> QED
        BY <4>1, <4>2 DEF Submap
    <3> QED
      BY <3>1, <3>2
  <2> QED
    BY <2>1, <2>2 DEF JoinsOK
<1>8. CASE UNCHANGED lowerVars
  BY <1>8 DEF lowerVars, passVars, JoinsOK
<1>9. ASSUME SkipBlock \/ InsertBackward \/ InsertLoopEnd \/ KeepBranch \/ InvertBranch
             \/ InsertFallthrough
      PROVE  UNCHANGED <<SimdBranches, JoinPoints>> /\ phase' \notin BeforeJoins
  <2>1. phase = "fixSimdBranches" /\ UNCHANGED <<SimdBranches, JoinPoints>>
    BY <1>9 DEF SkipBlock, InsertBackward, InsertLoopEnd, KeepBranch, InvertBranch, InsertFallthrough,
                LegsFixed, AtSimd, fixFrame
  <2>2. phase' \in {phase, "findAndSplitJoinPoints"}
    <3>1. ASSUME NEW l, MoveOn(l) PROVE phase' \in {phase, "findAndSplitJoinPoints"}
      BY <3>1 DEF MoveOn
    <3>2. phase' = phase \/ MoveOn(layout) \/ MoveOn(layout')
      BY <1>9 DEF SkipBlock, InsertBackward, InsertLoopEnd, KeepBranch, InvertBranch, InsertFallthrough
    <3> QED
      BY <3>1, <3>2
  <2> QED
    BY <2>1, <2>2 DEF BeforeJoins
<1>10. ASSUME FormGroups \/ PredicateCode \/ LowerSimdCF
       PROVE  UNCHANGED <<SimdBranches, JoinPoints>> /\ phase' \notin BeforeJoins
  BY <1>10 DEF FormGroups, PredicateCode, LowerSimdCF, BeforeJoins
<1> QED
  BY <1>1, <1>2, <1>3, <1>4, <1>5, <1>6, <1>7, <1>8, <1>9, <1>10 DEF Next, FixSimdBranches

\* lowerSimdCF is the last step.
LEMMA OnlyLowerLowers ==
  ASSUME Next, ~LowerSimdCF
  PROVE  phase' # "lowered"
<1>1. ASSUME FixSimdBranches PROVE phase' # "lowered"
  <2>1. phase = "fixSimdBranches"
    BY <1>1 DEF FixSimdBranches, SkipBlock, UnsimdBackward, InsertBackward, InsertLoopEnd,
                KeepBranch, InvertBranch, InsertFallthrough, LegsFixed, AtSimd
  <2>2. ASSUME NEW l, MoveOn(l) PROVE phase' \in {phase, "findAndSplitJoinPoints"}
    BY <2>2 DEF MoveOn
  <2>3. phase' = phase \/ MoveOn(layout) \/ MoveOn(layout')
    BY <1>1 DEF FixSimdBranches, SkipBlock, UnsimdBackward, InsertBackward, InsertLoopEnd,
                KeepBranch, InvertBranch, InsertFallthrough
  <2> QED
    BY <2>1, <2>2, <2>3
<1> QED
  BY <1>1 DEF Next, FindSimdBranches, DeterminePredicatedBlocks, MarkPredicatedBranches,
              SplitJoinPoint, FormGroups, DetermineJIPs, PredicateCode

LEMMA NextLoweredOK == IInv /\ JoinsOK /\ LoweredOK /\ [Next]_lowerVars => LoweredOK'
<1> SUFFICES ASSUME IInv, JoinsOK, LoweredOK, [Next]_lowerVars PROVE LoweredOK'
  OBVIOUS
<1>1. CASE UNCHANGED lowerVars
  BY <1>1 DEF lowerVars, passVars, LoweredOK, UIPOf, Blocks
<1>2. CASE LowerSimdCF
  <2>1. /\ UNCHANGED <<layout, term, SimdBranches, JoinPoints, JIPs>>
        /\ code' = [b \in Blocks |-> LoweredBlock(b)]
    BY <1>2 DEF LowerSimdCF, LoweredBlock
  <2>2. ASSUME NEW b \in Blocks, b \in DOMAIN SimdBranches
        PROVE  code'[b].uip = UIPOf(b) /\ code'[b].taken = JIPs[b]
    BY <2>1, <2>2 DEF LoweredBlock, LoweredGoto, Instruction
  <2>3. ASSUME NEW b \in Blocks, b \in DOMAIN JoinPoints
        PROVE  code'[b].op = "join" /\ (b \in DOMAIN JIPs => code'[b].taken = JIPs[b])
    <3>1. code'[b] = LoweredJoin(b)
      BY <2>1, <2>3 DEF LoweredBlock, JoinsOK
    <3> QED
      BY <3>1 DEF LoweredJoin, Instruction, WidthIn
  <2> QED
    BY <2>1, <2>2, <2>3 DEF LoweredOK, UIPOf, Blocks
<1>3. CASE Next /\ ~LowerSimdCF
  BY <1>3, OnlyLowerLowers DEF LoweredOK
<1> QED
  BY <1>1, <1>2, <1>3

\* In the lowered function every goto jumps forward to join instructions, to
\* its UIP as to its JIP, and so does every join that needs a JIP, unless
\* determineJIP has run off the function in the search for one.
THEOREM JumpsToLiveJoinsHolds == Spec => []JumpsToLiveJoins
<1>1. Init => JoinsOK /\ LoweredOK
  BY DEF Init, JoinsOK, LoweredOK, BeforeJoins
<1>2. IInv /\ JoinsOK /\ LoweredOK => JumpsToLiveJoins
  <2> SUFFICES ASSUME IInv, JoinsOK, LoweredOK, phase = "lowered" PROVE JumpsToLiveJoins
    BY DEF JumpsToLiveJoins
  <2>1. /\ DOMAIN SimdBranches \subseteq Blocks /\ DOMAIN JoinPoints \subseteq Blocks
        /\ JoinsWithJIP \subseteq DOMAIN JoinPoints
    BY DEF IInv, MapsOK, Positive, JoinsWithJIP
  <2>2. \A j \in DOMAIN JoinPoints : j \in Blocks /\ code[j].op = "join"
    BY <2>1 DEF LoweredOK
  <2>3. ASSUME NEW b \in DOMAIN SimdBranches
        PROVE  JumpsToJoin(b, code[b].uip) /\ JumpsToJoin(b, code[b].taken)
    <3>1. code[b].uip = UIPOf(b) /\ code[b].taken = JIPs[b]
      BY <2>1 DEF LoweredOK
    <3>2. JIPs[b] \in DOMAIN JoinPoints /\ Number(JIPs[b]) > Number(b)
      BY DEF IInv, JIPsOK
    <3>3. UIPOf(b) \in DOMAIN JoinPoints /\ Number(UIPOf(b)) > Number(b)
      BY IInvForward DEF ForwardToJoins, BranchesFixed
    <3> QED
      BY <3>1, <3>2, <3>3, <2>2 DEF JumpsToJoin
  <2>4. ASSUME "reached end" \notin asserts, NEW j \in JoinsWithJIP
        PROVE  JumpsToJoin(j, code[j].taken)
    <3>1. j \in DOMAIN JIPs /\ JIPs[j] \in DOMAIN JoinPoints /\ Number(JIPs[j]) > Number(j)
      BY <2>4 DEF IInv, JIPsOK
    <3>2. code[j].taken = JIPs[j]
      BY <2>1, <3>1 DEF LoweredOK
    <3> QED
      BY <3>1, <3>2, <2>2 DEF JumpsToJoin
  <2> QED
    BY <2>3, <2>4 DEF JumpsToLiveJoins
<1> QED
  BY <1>1, <1>2, Invariance, NextJoinsOK, NextLoweredOK, PTL DEF Spec
=============================================================================
