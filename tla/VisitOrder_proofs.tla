-------------------------- MODULE VisitOrder_proofs --------------------------
(***************************************************************************)
(* Proofs about VisitOrder, for every set of functions and every module.   *)
(***************************************************************************)
EXTENDS VisitOrder, TLAPS

LEMMA InitTypeOK == Init => TypeOK
<1> SUFFICES ASSUME Init PROVE TypeOK
  OBVIOUS
<1>1. VisitOrder \in Seq(Functions) /\ Len(VisitOrder) = 0
  BY DEF Init
<1>2. PredicatedSubroutines \in [Functions -> Widths \cup {0}] /\ CMWidth \in [Functions -> Widths \cup {0}]
  BY DEF Init
<1>3. UnvisitedCallers \in [Functions -> SUBSET Functions] /\ Callees \in [Functions -> SUBSET Functions]
  BY DEF Init
<1>4. i \in 0 .. Len(VisitOrder) /\ done \in 0 .. Len(VisitOrder)
  BY <1>1 DEF Init
<1>5. module \in Modules /\ unbuilt \subseteq Functions /\ todo \subseteq Functions /\ mismatch \in BOOLEAN
  BY DEF Init
<1>6. QED
  BY <1>1, <1>2, <1>3, <1>4, <1>5 DEF TypeOK

\* TypeOK is inductive: each step of the pass keeps its tables well typed.
THEOREM TypeCorrect == Spec => []TypeOK
<1>1. Init => TypeOK
  BY InitTypeOK
<1>2. TypeOK /\ [Next]_vars => TypeOK'
  <2> SUFFICES ASSUME TypeOK, [Next]_vars PROVE TypeOK'
    OBVIOUS
  <2> USE DEF TypeOK
  <2>1. ASSUME NEW F \in Functions, AddRoot(F) PROVE TypeOK'
    BY <2>1 DEF AddRoot, lowerVars
  <2>2. ASSUME NEW F \in Functions, AddCalled(F) PROVE TypeOK'
    BY <2>2 DEF AddCalled, lowerVars, Callers, Users
  <2>3. ASSUME NEW F \in Functions, VisitCallee(F) PROVE TypeOK'
    BY <2>3 DEF VisitCallee, lowerVars, Left
  <2>4. CASE VisitNext
    BY <2>4 DEF VisitNext, lowerVars, graphVars
  <2>5. CASE ProcessFunction
    BY <2>5 DEF ProcessFunction, graphVars, Following
  <2>6. CASE SkipFunction
    BY <2>6 DEF SkipFunction, graphVars, Following
  <2>7. CASE UNCHANGED vars
    BY <2>7 DEF vars, graphVars, lowerVars
  <2>8. QED
    BY <2>1, <2>2, <2>3, <2>4, <2>5, <2>6, <2>7 DEF Next
<1>3. QED
  BY <1>1, <1>2, PTL DEF Spec

-----------------------------------------------------------------------------
(***************************************************************************)
(* The strengthening. The functions before i have been walked. A caller of *)
(* a function is either walked or still among its unvisited callers, and   *)
(* one that is not walked is among them; a function in the order has none. *)
(***************************************************************************)
Walked == {VisitOrder[k] : k \in 1 .. i}

Phases ==
  /\ i > 0 => unbuilt = {}
  /\ todo # {} => i > 0

Edges ==
  \A F, G \in Functions :
    F \in Callees[G] => F \notin unbuilt /\ G \in Callers(F)

Unstruck ==
  /\ \A F \in Functions : F \in unbuilt => UnvisitedCallers[F] = {}
  /\ \A F \in Functions :
       F \notin unbuilt => Callers(F) \subseteq UnvisitedCallers[F] \cup Walked
  /\ \A F, G \in Functions :
       F \in Callees[G] /\ G \notin Walked => G \in UnvisitedCallers[F]
  /\ \A F \in todo : VisitOrder[i] \in UnvisitedCallers[F]

InOrder ==
  \A k \in 1 .. Len(VisitOrder) :
    VisitOrder[k] \notin unbuilt /\ UnvisitedCallers[VisitOrder[k]] = {}

IInv == TypeOK /\ Phases /\ Edges /\ Unstruck /\ InOrder /\ CallersFirst /\ VisitedOnce

LEMMA InitIInv == Init => IInv
<1> SUFFICES ASSUME Init PROVE IInv
  OBVIOUS
<1>1. TypeOK
  BY InitTypeOK
<1>2. Phases /\ Edges /\ Unstruck
  BY DEF Init, Phases, Edges, Unstruck
<1>3. InOrder /\ CallersFirst /\ VisitedOnce
  BY DEF Init, InOrder, CallersFirst, VisitedOnce
<1>4. QED
  BY <1>1, <1>2, <1>3 DEF IInv

\* A step that leaves the order and its graph alone keeps the invariant.
LEMMA OrderUntouched ==
  ASSUME IInv, TypeOK',
         UNCHANGED <<module, unbuilt, UnvisitedCallers, Callees, VisitOrder, i, todo>>
  PROVE  IInv'
BY DEF IInv, Phases, Edges, Unstruck, InOrder, CallersFirst, VisitedOnce, Walked, Callers, Users

\* A root has no callers, so it may stand anywhere in the order.
LEMMA AddRootIInv ==
  ASSUME IInv, TypeOK', NEW F \in Functions, AddRoot(F)
  PROVE  IInv'
<1> USE DEF IInv, TypeOK
<1> DEFINE n == Len(VisitOrder)
<1>1. /\ F \in unbuilt /\ unbuilt' = unbuilt \ {F}
      /\ i = 0 /\ todo = {}
      /\ UNCHANGED <<module, UnvisitedCallers, Callees, i, todo>>
      /\ VisitOrder' = Append(VisitOrder, F)
  BY DEF AddRoot, Phases
<1>2. /\ Len(VisitOrder') = n + 1
      /\ VisitOrder'[n + 1] = F
      /\ \A k \in 1 .. n : VisitOrder'[k] = VisitOrder[k]
  BY <1>1
<1>3. Callers(F) = {}
  BY DEF AddRoot, UseEmpty, Callers
<1>4. \A G \in Functions : Callers(G)' = Callers(G)
  BY <1>1 DEF Callers, Users
<1>5. Walked = {} /\ Walked' = {}
  BY <1>1 DEF Walked
<1>6. Phases' /\ Edges'
  BY <1>1, <1>4 DEF Phases, Edges
<1>7. Unstruck'
  BY <1>1, <1>3, <1>4, <1>5 DEF Unstruck
<1>8. InOrder'
  BY <1>1, <1>2 DEF InOrder, Unstruck
<1>9. \A k \in 1 .. n : VisitOrder[k] # F
  BY <1>1 DEF InOrder
<1>10. VisitedOnce'
  BY <1>2, <1>9, SMTT(30) DEF VisitedOnce
<1>11. CallersFirst'
  <2> SUFFICES ASSUME NEW k \in 1 .. n + 1, NEW G \in Callers(VisitOrder'[k])
               PROVE  \E j \in 1 .. k - 1 : VisitOrder'[j] = G
    BY <1>1, <1>2 DEF CallersFirst, Callers, Users
  <2>1. k \in 1 .. n
    BY <1>2, <1>3
  <2>2. PICK j \in 1 .. k - 1 : VisitOrder[j] = G
    BY <1>2, <2>1 DEF CallersFirst
  <2>3. n \in Nat /\ j \in 1 .. n
    BY <2>1
  <2>4. VisitOrder'[j] = G
    BY <1>2, <2>2, <2>3
  <2>5. QED
    BY <2>4
<1>12. QED
  BY <1>6, <1>7, <1>8, <1>10, <1>11

\* A function that has callers enters the graph with all of them unvisited.
LEMMA AddCalledIInv ==
  ASSUME IInv, TypeOK', NEW F \in Functions, AddCalled(F)
  PROVE  IInv'
<1> USE DEF IInv, TypeOK
<1>1. /\ F \in unbuilt /\ unbuilt' = unbuilt \ {F}
      /\ i = 0 /\ todo = {}
      /\ UNCHANGED <<module, VisitOrder, i, todo>>
      /\ UnvisitedCallers' = [UnvisitedCallers EXCEPT ![F] = Callers(F)]
      /\ Callees' = [G \in Functions |->
                       IF G \in Callers(F) THEN Callees[G] \cup {F} ELSE Callees[G]]
  BY DEF AddCalled, Phases
<1>2. \A G \in Functions : Callers(G)' = Callers(G)
  BY <1>1 DEF Callers, Users
<1>3. Walked = {} /\ Walked' = {}
  BY <1>1 DEF Walked
<1>4. Phases'
  BY <1>1 DEF Phases
<1>5. Edges'
  BY <1>1, <1>2 DEF Edges
<1>6. Unstruck'
  <2>1. \A G \in Functions : G \in unbuilt' => UnvisitedCallers'[G] = {}
    BY <1>1 DEF Unstruck
  <2>2. \A G \in Functions :
          G \notin unbuilt' => Callers(G)' \subseteq UnvisitedCallers'[G] \cup Walked'
    BY <1>1, <1>2, <1>3 DEF Unstruck
  <2>3. \A H, G \in Functions :
          H \in Callees'[G] /\ G \notin Walked' => G \in UnvisitedCallers'[H]
    BY <1>1, <1>3 DEF Unstruck, Edges
  <2>4. QED
    BY <1>1, <2>1, <2>2, <2>3 DEF Unstruck
<1>7. InOrder'
  BY <1>1 DEF InOrder
<1>8. VisitedOnce'
  BY <1>1 DEF VisitedOnce
<1>9. CallersFirst'
  BY <1>1 DEF CallersFirst, Callers, Users
<1>10. QED
  BY <1>4, <1>5, <1>6, <1>7, <1>8, <1>9

\* The next function of the order is not walked yet, so that all its callees
\* still count it among their unvisited callers.
LEMMA VisitNextIInv ==
  ASSUME IInv, TypeOK', VisitNext
  PROVE  IInv'
<1> USE DEF IInv, TypeOK
<1>1. /\ unbuilt = {} /\ todo = {} /\ i < Len(VisitOrder) /\ i' = i + 1
      /\ todo' = Callees[VisitOrder[i + 1]]
      /\ UNCHANGED <<module, unbuilt, UnvisitedCallers, Callees, VisitOrder>>
  BY DEF VisitNext, graphVars
<1>2. \A G \in Functions : Callers(G)' = Callers(G)
  BY <1>1 DEF Callers, Users
<1>3. VisitOrder[i + 1] \in Functions \ Walked
  BY <1>1 DEF Walked, VisitedOnce
<1>4. Walked \subseteq Walked' /\ VisitOrder' = VisitOrder
  BY <1>1 DEF Walked
<1>5. Phases' /\ Edges'
  BY <1>1, <1>2 DEF Phases, Edges
<1>6. Unstruck'
  <2>1. \A F \in todo' : VisitOrder'[i'] \in UnvisitedCallers'[F]
    BY <1>1, <1>3 DEF Unstruck
  <2>2. QED
    BY <1>1, <1>2, <1>4, <2>1 DEF Unstruck
<1>7. InOrder' /\ VisitedOnce'
  BY <1>1 DEF InOrder, VisitedOnce
<1>8. CallersFirst'
  BY <1>1 DEF CallersFirst, Callers, Users
<1>9. QED
  BY <1>5, <1>6, <1>7, <1>8

\* A callee enters the order when its last caller is struck out: all its
\* callers are walked, and it was not in the order before.
LEMMA VisitCalleeIInv ==
  ASSUME IInv, TypeOK', NEW F \in Functions, VisitCallee(F)
  PROVE  IInv'
<1> USE DEF IInv, TypeOK
<1> DEFINE n == Len(VisitOrder)
           current == VisitOrder[i]
           left == UnvisitedCallers[F] \ {current}
<1>1. /\ F \in todo /\ todo' = todo \ {F}
      /\ UNCHANGED <<module, unbuilt, Callees, i>>
      /\ UnvisitedCallers' = [UnvisitedCallers EXCEPT ![F] = left]
      /\ VisitOrder' = IF left = {} THEN Append(VisitOrder, F) ELSE VisitOrder
  BY DEF VisitCallee, Left
<1>2. i \in 1 .. n /\ unbuilt = {} /\ current \in Walked
  BY <1>1 DEF Phases, Walked
<1>3. current \in UnvisitedCallers[F]
  BY <1>1 DEF Unstruck
<1>4. \A k \in 1 .. n : VisitOrder[k] # F
  BY <1>3 DEF InOrder
<1>5. /\ Len(VisitOrder') = IF left = {} THEN n + 1 ELSE n
      /\ left = {} => VisitOrder'[n + 1] = F
      /\ \A k \in 1 .. n : VisitOrder'[k] = VisitOrder[k]
  BY <1>1
<1>6. \A G \in Functions : Callers(G)' = Callers(G)
  BY <1>1 DEF Callers, Users
<1>7. Walked' = Walked /\ VisitOrder'[i] = current
  BY <1>1, <1>2, <1>5 DEF Walked
<1>8. Phases' /\ Edges'
  BY <1>1, <1>2, <1>6 DEF Phases, Edges
<1>9. Unstruck'
  <2>1. \A G \in Functions :
          Callers(G)' \subseteq UnvisitedCallers'[G] \cup Walked'
    BY <1>1, <1>2, <1>6, <1>7 DEF Unstruck
  <2>2. \A H, G \in Functions :
          H \in Callees'[G] /\ G \notin Walked' => G \in UnvisitedCallers'[H]
    BY <1>1, <1>2, <1>7 DEF Unstruck
  <2>3. \A G \in todo' : VisitOrder'[i'] \in UnvisitedCallers'[G]
    BY <1>1, <1>7 DEF Unstruck
  <2>4. QED
    BY <1>1, <1>2, <2>1, <2>2, <2>3 DEF Unstruck
<1>10. InOrder'
  BY <1>1, <1>2, <1>4, <1>5 DEF InOrder
<1>11. VisitedOnce'
  BY <1>4, <1>5, SMTT(30) DEF VisitedOnce
<1>12. CallersFirst'
  <2> HIDE DEF IInv, TypeOK
  <2>. module' = module
    BY <1>1
  <2> SUFFICES ASSUME NEW k \in 1 .. Len(VisitOrder'), NEW G \in Callers(VisitOrder'[k])
               PROVE  \E j \in 1 .. k - 1 : VisitOrder'[j] = G
    BY DEF CallersFirst, Callers, Users
  <2> USE DEF IInv, TypeOK
  <2>1. CASE k \in 1 .. n
    <3>1. PICK j \in 1 .. k - 1 : VisitOrder[j] = G
      BY <1>5, <2>1 DEF CallersFirst
    <3>2. n \in Nat /\ j \in 1 .. n
      BY <2>1
    <3>3. VisitOrder'[j] = G
      BY <1>5, <3>1, <3>2
    <3>4. QED
      BY <3>3
  <2>2. CASE k = n + 1
    <3>1. left = {} /\ VisitOrder'[k] = F
      BY <1>5, <2>2
    <3>2. G \in Walked
      BY <1>2, <3>1 DEF Unstruck
    <3>3. PICK j \in 1 .. i : VisitOrder[j] = G
      BY <3>2 DEF Walked
    <3>4. n \in Nat /\ j \in 1 .. n
      BY <1>2
    <3>5. VisitOrder'[j] = G
      BY <1>5, <3>3, <3>4
    <3>6. QED
      BY <2>2, <3>4, <3>5
  <2>3. QED
    BY <1>5, <2>1, <2>2
<1>13. QED
  BY <1>8, <1>9, <1>10, <1>11, <1>12

LEMMA NextIInv ==
  ASSUME IInv, TypeOK', [Next]_vars
  PROVE  IInv'
<1>1. CASE VisitNext
  BY <1>1, VisitNextIInv
<1>2. CASE ProcessFunction
  BY <1>2, OrderUntouched DEF ProcessFunction, graphVars
<1>3. CASE SkipFunction
  BY <1>3, OrderUntouched DEF SkipFunction, graphVars
<1>4. CASE UNCHANGED vars
  BY <1>4, OrderUntouched DEF vars, graphVars
<1>5. QED
  BY <1>1, <1>2, <1>3, <1>4, AddRootIInv, AddCalledIInv, VisitCalleeIInv DEF Next

LEMMA Invariance == Spec => []IInv
<1>1. TypeOK /\ TypeOK' /\ IInv /\ [Next]_vars => IInv'
  BY NextIInv
<1>2. QED
  BY <1>1, InitIInv, TypeCorrect, PTL DEF Spec

\* Every caller of a function stands before it in the order of visits.
THEOREM CallersFirstHolds == Spec => []CallersFirst
<1>1. IInv => CallersFirst
  BY DEF IInv
<1>2. QED
  BY <1>1, Invariance, PTL

\* No function is visited, and so lowered, twice.
THEOREM VisitedOnceHolds == Spec => []VisitedOnce
<1>1. IInv => VisitedOnce
  BY DEF IInv
<1>2. QED
  BY <1>1, Invariance, PTL

-----------------------------------------------------------------------------
\* Processing a function predicates no call of a function processed before it.
LEMMA ProcessedNotCalled ==
  ASSUME IInv, done < Len(VisitOrder), NEW G \in Processed
  PROVE  PredicatedWith(VisitOrder[done + 1], G) = {}
<1> USE DEF IInv, TypeOK
<1> DEFINE F == VisitOrder[done + 1]
<1>1. PICK k \in 1 .. done : G = VisitOrder[k]
  BY DEF Processed
<1>2. ~ \E c \in module.calls : c.caller = F /\ c.callee = G /\ G # F
  <2> SUFFICES ASSUME NEW c \in module.calls, c.caller = F, c.callee = G, G # F
               PROVE  FALSE
    OBVIOUS
  <2>1. <<F, G>> \in module.uses /\ F \in Functions
    BY VisitAssumption
  <2>2. F \in Callers(G)
    BY <2>1 DEF Callers, Users
  <2>3. PICK j \in 1 .. k - 1 : VisitOrder[j] = F
    <3>1. k \in 1 .. Len(VisitOrder)
      BY <1>1
    <3>2. QED
      BY <1>1, <2>2, <3>1 DEF CallersFirst
  <2>4. j = done + 1
    BY <1>1, <2>3 DEF VisitedOnce
  <2>5. QED
    BY <1>1, <2>3, <2>4
<1>3. QED
  BY <1>2 DEF PredicatedWith

\* Once a function has been lowered no caller changes its call mask width.
THEOREM MaskWidthFixedHolds == Spec => MaskWidthFixed
<1>1. IInv /\ [Next]_vars =>
        [\A F \in Processed : PredicatedSubroutines'[F] = PredicatedSubroutines[F]]_vars
  <2> SUFFICES ASSUME IInv, Next
               PROVE  \A F \in Processed :
                        PredicatedSubroutines'[F] = PredicatedSubroutines[F]
    OBVIOUS
  <2>1. CASE ProcessFunction
    <3> SUFFICES ASSUME NEW G \in Processed
                 PROVE  PredicatedSubroutines'[G] = PredicatedSubroutines[G]
      OBVIOUS
    <3>1. G \in Functions
      BY DEF IInv, TypeOK, Processed
    <3>2. PredicatedWith(VisitOrder[done + 1], G) = {}
      BY <2>1, ProcessedNotCalled DEF ProcessFunction
    <3>3. PredicatedSubroutines'[G] \in EntryAfter(G, {})
      BY <2>1, <3>1, <3>2 DEF ProcessFunction
    <3>4. QED
      BY <3>3 DEF EntryAfter
  <2>2. CASE ~ProcessFunction
    BY <2>2 DEF Next, AddRoot, AddCalled, VisitCallee, VisitNext, SkipFunction, lowerVars
  <2>3. QED
    BY <2>1, <2>2
<1>2. QED
  BY <1>1, Invariance, PTL DEF Spec, MaskWidthFixed
-----------------------------------------------------------------------------
(***************************************************************************)
(* The widths. A lowered function was lowered with the width its entry     *)
(* still has, and as long as no mismatch was reported the entry of a       *)
(* callee is the width of every call of it in a lowered function, whether  *)
(* or not the callee has been lowered itself.                              *)
(***************************************************************************)
Lowered == Processed \ module.noPred
Masked == Functions \ (module.noPred \cup module.simt)

EntryKept == \A F \in Lowered : CMWidth[F] = PredicatedSubroutines[F]

CallWidth(c) == WidthOf(c, CMWidth[c.caller])

EntryAgrees ==
  ~mismatch =>
    \A c \in module.calls :
      c.caller \in Lowered /\ c.callee \in Masked /\ c.caller # c.callee /\ CallWidth(c) # 0
      => PredicatedSubroutines[c.callee] = CallWidth(c)

WInv == EntryKept /\ EntryAgrees

\* Steps of calculateVisitOrder only append to the order.
LEMMA OrderingKeepsWInv ==
  ASSUME IInv, WInv, Next, ~ProcessFunction, ~SkipFunction
  PROVE  WInv'
<1> USE DEF IInv, TypeOK
<1>1. UNCHANGED <<module, lowerVars>>
  BY DEF Next, AddRoot, AddCalled, VisitCallee, VisitNext
<1>2. \/ VisitOrder' = VisitOrder
      \/ \E F \in Functions : VisitOrder' = Append(VisitOrder, F)
  BY DEF Next, AddRoot, AddCalled, VisitCallee, VisitNext
<1>3. \A k \in 1 .. done : VisitOrder'[k] = VisitOrder[k]
  BY <1>2, SMTT(30)
<1>4. Processed' = Processed
  BY <1>1, <1>3 DEF Processed, lowerVars
<1>5. QED
  BY <1>1, <1>4 DEF WInv, EntryKept, EntryAgrees, Lowered, Masked, CallWidth, lowerVars

\* A function the pass does not predicate is passed over.
LEMMA SkippingKeepsWInv ==
  ASSUME IInv, WInv, SkipFunction
  PROVE  WInv'
<1> USE DEF IInv, TypeOK
<1>1. Processed' = Processed \cup {VisitOrder[done + 1]}
  BY DEF SkipFunction, Following, Processed
<1>2. Lowered' = Lowered
  BY <1>1 DEF SkipFunction, Lowered
<1>3. QED
  BY <1>2 DEF SkipFunction, WInv, EntryKept, EntryAgrees, Masked, CallWidth

\* The first predicated call of a callee decides its width and the others
\* agree with it; what is set stays.
LEMMA ProcessingKeepsWInv ==
  ASSUME IInv, WInv, ProcessFunction
  PROVE  WInv'
<1> USE DEF IInv, TypeOK
<1> DEFINE F == VisitOrder[done + 1]
<1>1. /\ F \in Functions /\ F \notin module.noPred
      /\ module' = module
      /\ CMWidth' = [CMWidth EXCEPT ![F] = PredicatedSubroutines[F]]
      /\ \A G \in Functions : PredicatedSubroutines'[G] \in EntryAfter(G, PredicatedWith(F, G))
  <2>1. F \in Functions
    BY DEF ProcessFunction
  <2>2. QED
    BY <2>1 DEF ProcessFunction
<1>2. ~mismatch' => ~mismatch /\ \A G \in Functions : ~Disagree(G, PredicatedWith(F, G))
  <2>1. mismatch' = (mismatch \/ \E G \in Functions : Disagree(G, PredicatedWith(F, G)))
    BY DEF ProcessFunction
  <2>2. QED
    BY ONLY <2>1, Zenon
<1>3. Processed' = Processed \cup {F}
  BY DEF ProcessFunction, Following, Processed
<1>4. Lowered' = Lowered \cup {F} /\ Masked' = Masked /\ Lowered \subseteq Functions
  <2>1. Processed \subseteq Functions
    BY DEF Processed
  <2>2. QED
    BY <1>1, <1>3, <2>1 DEF Lowered, Masked
<1>5. F \notin Processed
  BY DEF VisitedOnce, Processed, ProcessFunction
<1>6. \A G \in Functions : PredicatedSubroutines[G] # 0 =>
        PredicatedSubroutines'[G] = PredicatedSubroutines[G]
  BY <1>1 DEF EntryAfter
<1>7. PredicatedSubroutines'[F] = PredicatedSubroutines[F]
  <2>1. PredicatedWith(F, F) = {}
    BY DEF PredicatedWith
  <2>2. QED
    BY <1>1, <2>1 DEF EntryAfter
<1>8. \A G \in Processed : PredicatedSubroutines'[G] = PredicatedSubroutines[G]
  <2> SUFFICES ASSUME NEW G \in Processed
               PROVE  PredicatedSubroutines'[G] = PredicatedSubroutines[G]
    OBVIOUS
  <2>1. G \in Functions
    BY DEF Processed
  <2>2. PredicatedWith(F, G) = {}
    BY ProcessedNotCalled DEF ProcessFunction
  <2>3. QED
    BY <1>1, <2>1, <2>2 DEF EntryAfter
<1>9. EntryKept'
  BY <1>1, <1>4, <1>5, <1>7, <1>8 DEF WInv, EntryKept, Lowered
<1>10. EntryAgrees'
  <2> SUFFICES ASSUME ~mismatch', NEW c \in module.calls, c.caller \in Lowered',
                      c.callee \in Masked, c.caller # c.callee, CallWidth(c)' # 0
               PROVE  PredicatedSubroutines'[c.callee] = CallWidth(c)'
    BY <1>1, <1>4 DEF EntryAgrees
  <2> DEFINE G == c.callee
             widths == PredicatedWith(F, G)
  <2>1. G \in Functions
    BY DEF Masked
  <2>2. CASE c.caller \in Lowered
    <3>1. CallWidth(c)' = CallWidth(c)
      <4>1. c.caller \in Functions /\ c.caller # F
        BY <1>4, <1>5, <2>2 DEF Lowered
      <4>2. CMWidth'[c.caller] = CMWidth[c.caller]
        BY <1>1, <4>1
      <4>3. QED
        BY <4>2 DEF CallWidth, WidthOf
    <3>2. PredicatedSubroutines[G] = CallWidth(c)
      BY <1>2, <2>2, <3>1 DEF WInv, EntryAgrees
    <3>3. QED
      BY <1>6, <2>1, <3>1, <3>2
  <2>3. CASE c.caller = F
    <3>1. CallWidth(c)' = WidthOf(c, PredicatedSubroutines[F])
      BY <1>1, <2>3 DEF CallWidth, WidthOf
    <3>2. CallWidth(c)' \in widths
      BY <2>3, <3>1 DEF PredicatedWith, Masked
    <3>3. ~Disagree(G, widths)
      BY <1>2, <2>1
    <3>4. PredicatedSubroutines'[G] \in widths \cup ({PredicatedSubroutines[G]} \ {0})
      BY <1>1, <2>1, <3>2 DEF EntryAfter
    <3>5. QED
      BY <3>2, <3>3, <3>4 DEF Disagree
  <2>4. QED
    BY <1>4, <2>2, <2>3
<1>11. QED
  BY <1>9, <1>10 DEF WInv

\* A subroutine has been lowered for the width of each call of it in a
\* lowered function, unless predicateCall reported a mismatch.
THEOREM CallMaskAgreesHolds == Spec => []CallMaskAgrees
<1>1. Init => WInv
  BY DEF Init, WInv, EntryKept, EntryAgrees, Lowered, Processed
<1>2. IInv /\ WInv /\ [Next]_vars => WInv'
  <2> SUFFICES ASSUME IInv, WInv, [Next]_vars PROVE WInv'
    OBVIOUS
  <2>1. CASE UNCHANGED vars
    BY <2>1 DEF vars, lowerVars, WInv, EntryKept, EntryAgrees, Lowered, Masked,
                CallWidth, Processed
  <2>2. QED
    BY <2>1, OrderingKeepsWInv, SkippingKeepsWInv, ProcessingKeepsWInv
<1>3. TypeOK /\ WInv => CallMaskAgrees
  BY DEF WInv, EntryKept, EntryAgrees, CallMaskAgrees, Lowered, Masked, CallWidth,
         TypeOK, Processed
<1>4. QED
  BY <1>1, <1>2, <1>3, Invariance, TypeCorrect, PTL DEF Spec
=============================================================================
