----------------------------- MODULE VisitOrder -----------------------------
(***************************************************************************)
(* CMSimdCFLoweringImpl::run for a module with SIMD control flow: the      *)
(* order in which functions are lowered, and the call mask widths that     *)
(* the lowering of callers leaves for their callees.                       *)
(*                                                                         *)
(* Of a function only its calls are kept. Diagnostics of recursion, which  *)
(* change nothing else, are left out.                                      *)
(***************************************************************************)
EXTENDS Naturals, Sequences, FiniteSets

CONSTANTS
  Functions,  \* the functions defined in the module
  Widths,     \* the SIMD widths
  Modules     \* the modules to lower

(***************************************************************************)
(* uses are the pairs of a function and one an instruction of it names;    *)
(* calls those that are calls, with the width of the predicated block the  *)
(* call is in, or 0. escaped are the functions used by something that is   *)
(* not an instruction, noPred those with CMGenxNoSIMDPred and simt those   *)
(* with CMGenxSIMT.                                                        *)
(***************************************************************************)
Calls == [caller : Functions, callee : Functions, width : Widths \cup {0}]

ModuleType ==
  [uses : SUBSET (Functions \X Functions), calls : SUBSET Calls,
   escaped : SUBSET Functions, noPred : SUBSET Functions, simt : SUBSET Functions]

ASSUME VisitAssumption ==
  /\ IsFiniteSet(Functions)
  /\ Widths \subseteq Nat \ {0}
  /\ Modules \subseteq ModuleType
  /\ \A m \in Modules : \A c \in m.calls : <<c.caller, c.callee>> \in m.uses

VARIABLES
  module,            \* the module being lowered
  unbuilt,           \* the functions not yet in the call graph
  UnvisitedCallers, Callees,    \* the call graph
  VisitOrder,
  i, todo,           \* the place in VisitOrder and the callees left of its function
  done,              \* how many functions of VisitOrder have been processed
  PredicatedSubroutines,
  CMWidth,           \* the call mask width a function was processed with
  mismatch           \* "mismatching SIMD width of called subroutine" was emitted

graphVars == <<unbuilt, UnvisitedCallers, Callees>>
lowerVars == <<done, PredicatedSubroutines, CMWidth, mismatch>>
vars == <<module, graphVars, VisitOrder, i, todo, lowerVars>>

Users(F) == {G \in Functions : <<G, F>> \in module.uses}
Callers(F) == Users(F) \ {F}
UseEmpty(F) == Users(F) = {} /\ F \notin module.escaped

Init ==
  /\ module \in Modules
  /\ unbuilt = Functions
  /\ UnvisitedCallers = [F \in Functions |-> {}]
  /\ Callees = [F \in Functions |-> {}]
  /\ VisitOrder = <<>>
  /\ i = 0
  /\ todo = {}
  /\ done = 0
  /\ PredicatedSubroutines = [F \in Functions |-> 0]
  /\ CMWidth = [F \in Functions |-> 0]
  /\ mismatch = FALSE

-----------------------------------------------------------------------------
(* calculateVisitOrder.                                                    *)

\* Functions come in module order, which is any order.
AddRoot(F) ==
  /\ F \in unbuilt
  /\ UseEmpty(F)
  /\ unbuilt' = unbuilt \ {F}
  /\ VisitOrder' = Append(VisitOrder, F)
  /\ UNCHANGED <<module, UnvisitedCallers, Callees, i, todo, lowerVars>>

AddCalled(F) ==
  /\ F \in unbuilt
  /\ ~UseEmpty(F)
  /\ unbuilt' = unbuilt \ {F}
  /\ UnvisitedCallers' = [UnvisitedCallers EXCEPT ![F] = Callers(F)]
  /\ Callees' = [G \in Functions |->
                   IF G \in Callers(F) THEN Callees[G] \cup {F} ELSE Callees[G]]
  /\ UNCHANGED <<module, VisitOrder, i, todo, lowerVars>>

VisitNext ==
  /\ unbuilt = {}
  /\ todo = {}
  /\ i < Len(VisitOrder)
  /\ i' = i + 1
  /\ todo' = Callees[VisitOrder[i + 1]]
  /\ UNCHANGED <<module, graphVars, VisitOrder, lowerVars>>

\* Mutants: the caller is not struck out, or the first one visited will do.
NoneStruck(F, G) == UnvisitedCallers[F]
FirstCallerWill(F, G) == {}

\* What is left of the callers of F once G is struck out.
Left(F, G) == UnvisitedCallers[F] \ {G}

\* Callees is a set of pointers, visited in the order of their addresses.
VisitCallee(F) ==
  LET left == Left(F, VisitOrder[i]) IN
  /\ F \in todo
  /\ todo' = todo \ {F}
  /\ UnvisitedCallers' = [UnvisitedCallers EXCEPT ![F] = left]
  /\ VisitOrder' = IF left = {} THEN Append(VisitOrder, F) ELSE VisitOrder
  /\ UNCHANGED <<module, unbuilt, Callees, i, lowerVars>>

-----------------------------------------------------------------------------
(* Processing the functions in that order.                                 *)

\* Mutant: every second function is passed over.
EverySecond(k) == k + 2

Following(k) == k + 1

Ordered == unbuilt = {} /\ todo = {} /\ i = Len(VisitOrder)

\* The width a call is predicated with. In a subroutine that has a call mask
\* every block is predicated.
WidthOf(c, cmWidth) == IF c.width > 0 THEN c.width ELSE cmWidth

\* The widths processing F predicates its calls of G with. A recursive call
\* and a call of a function with an attribute against it are not predicated.
PredicatedWith(F, G) ==
  IF G = F \/ G \in module.noPred \cup module.simt THEN {}
  ELSE {WidthOf(c, PredicatedSubroutines[F]) :
          c \in {d \in module.calls : d.caller = F /\ d.callee = G}} \ {0}

\* Mutant: a mismatch goes unnoticed.
Unnoticed(G, widths) == FALSE

\* The first predicated call decides the width of G.
EntryAfter(G, widths) ==
  IF PredicatedSubroutines[G] # 0 \/ widths = {} THEN {PredicatedSubroutines[G]}
  ELSE widths

Disagree(G, widths) ==
  \E v, w \in widths \cup ({PredicatedSubroutines[G]} \ {0}) : widths # {} /\ v # w

ProcessFunction ==
  LET F == VisitOrder[done + 1] IN
  /\ Ordered
  /\ done < Len(VisitOrder)
  /\ F \notin module.noPred
  /\ done' = Following(done)
  /\ CMWidth' = [CMWidth EXCEPT ![F] = PredicatedSubroutines[F]]
  /\ PredicatedSubroutines' \in [Functions -> Widths \cup {0}]
  /\ \A G \in Functions : PredicatedSubroutines'[G] \in EntryAfter(G, PredicatedWith(F, G))
  /\ mismatch' = (mismatch \/ \E G \in Functions : Disagree(G, PredicatedWith(F, G)))
  /\ UNCHANGED <<module, graphVars, VisitOrder, i, todo>>

SkipFunction ==
  /\ Ordered
  /\ done < Len(VisitOrder)
  /\ VisitOrder[done + 1] \in module.noPred
  /\ done' = Following(done)
  /\ UNCHANGED <<module, graphVars, VisitOrder, i, todo, PredicatedSubroutines,
                 CMWidth, mismatch>>

Next ==
  \/ \E F \in Functions : AddRoot(F) \/ AddCalled(F) \/ VisitCallee(F)
  \/ VisitNext
  \/ ProcessFunction
  \/ SkipFunction

Spec == Init /\ [][Next]_vars
FairSpec == Spec /\ WF_vars(Next)

-----------------------------------------------------------------------------
(* Properties.                                                             *)

TypeOK ==
  /\ module \in Modules
  /\ unbuilt \subseteq Functions
  /\ UnvisitedCallers \in [Functions -> SUBSET Functions]
  /\ Callees \in [Functions -> SUBSET Functions]
  /\ VisitOrder \in Seq(Functions)
  /\ i \in 0 .. Len(VisitOrder)
  /\ todo \subseteq Functions
  /\ done \in 0 .. Len(VisitOrder)
  /\ PredicatedSubroutines \in [Functions -> Widths \cup {0}]
  /\ CMWidth \in [Functions -> Widths \cup {0}]
  /\ mismatch \in BOOLEAN

\* "a function is not visited until all its callers have been"
\* (GenXSimdCFLowering.cpp:568-569), its own recursive calls aside.
CallersFirst ==
  \A k \in 1 .. Len(VisitOrder) : \A G \in Callers(VisitOrder[k]) :
    \E j \in 1 .. k - 1 : VisitOrder[j] = G

\* No function is lowered twice: the second time its gotos and joins would be
\* taken for source.
VisitedOnce ==
  \A j, k \in 1 .. Len(VisitOrder) : VisitOrder[j] = VisitOrder[k] => j = k

Processed == {VisitOrder[k] : k \in 1 .. done}

\* Once a function has been lowered no caller changes its call mask width.
MaskWidthFixed ==
  [][\A F \in Processed : PredicatedSubroutines'[F] = PredicatedSubroutines[F]]_vars

\* Unless a mismatch was reported, a subroutine has been lowered for the
\* width each of its lowered callers calls it with.
CallMaskAgrees ==
  ~mismatch =>
    \A c \in module.calls :
      LET width == WidthOf(c, CMWidth[c.caller]) IN
      /\ c.caller \in Processed \ module.noPred
      /\ c.callee \in Processed \ (module.noPred \cup module.simt)
      /\ c.caller # c.callee
      /\ width # 0
      => CMWidth[c.callee] = width

\* Every function is visited, when none escapes and every set of functions
\* has one that no other of the set calls and that is not called by itself
\* only: mutual recursion and a function that only calls itself are left out.
Layered ==
  /\ \A S \in SUBSET Functions \ {{}} : \E F \in S : Callers(F) \cap S = {}
  /\ \A F \in Functions : Users(F) # {F}

EveryFunctionLowered ==
  (module.escaped = {} /\ Layered) => <>(Processed = Functions)
=============================================================================
