-------------------------- MODULE MCSimdCFExecution --------------------------
(***************************************************************************)
(* Functions to lower and run. A subroutine with a call mask and a kernel  *)
(* are made of each: cmWidth is Width or 0. A third channel, beyond the    *)
(* lanes of the branches, is there to see that goto and join extend their  *)
(* operands.                                                               *)
(***************************************************************************)
EXTENDS SimdCFExecution, SourcePrograms

Either(T) == {Function(t, w) : t \in T, w \in {0, Width}}

\* Two levels of structured code, scalar and simd conditions anywhere.
MCStructured == Structured(<<{0, Width}, {0, Width}>>)

\* Every reducible graph of four blocks, the simd branches next to a leg.
MCReducible == {t \in SmallGraphs(4, {Width}) : Adjacent(t) /\ Reducible(t)}

\* No scalar condition under a simd one.
MCSimdInside == Structured(<<{Width}, {0, Width}>>)

\* Subroutines of all, as kernels only those whose predication is right: the
\* control flow of a kernel is that of the subroutine with every channel on.
MCSources ==
  Either(MCSimdInside) \cup {Function(t, Width) : t \in MCStructured \cup MCReducible}

\* What the run scalar_in_simd shows violated holds where no scalar condition is
\* under a simd one.
InSimdCode == source.term \in MCSimdInside

\* In such code, instructions are predicated wherever a channel can be disabled
\* (ControlDependent finds every block a simd branch decides about).
PredicatedInSimdCode ==
  InSimdCode => /\ phase = "lowered" => PredicatedWhereLanesWait
                /\ PredicatedWhenDiverged

\* Structured code is lowered to what its lanes need: scalar branches go past
\* no join with a lane waiting, and every join that can be reached with no lane
\* to enable has a JIP: nothing of the source runs for no lane.
LanesInStructuredCode ==
  source.term \in MCStructured => /\ phase = "lowered" => Orderly
                                  /\ SomeLaneEnabled

\* while (scalar) { if (simd) continue; }
MCLoopContinue ==
  {Function(<<Br(2), Cond(0, 3, 6), Cond(Width, 4, 5), Br(2), Br(2), Ret>>, 0)}

\* if (simd) { if (scalar) { } }
MCScalarInSimd == {Function(<<Br(2)>> \o Placed(If(Width, If(0, Simple)), 1, 7) \o <<Ret>>, 0)}
=============================================================================
