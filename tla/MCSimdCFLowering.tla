-------------------------- MODULE MCSimdCFLowering --------------------------
EXTENDS SimdCFLowering, SourcePrograms

\* if (simd) { if (uniform) { } } else { }, its ends shared: the JIP of a join
\* outlives the join it leads to.
IfInIfElse == <<Cond(2, 2, 4), Cond(0, 3, 4), Br(5), Br(5), Ret>>

\* if (uniform) { do { } while (simd); if (uniform) do { } while (simd); }
LoopInIf == <<Cond(0, 2, 5), Cond(2, 2, 3), Cond(0, 4, 5), Cond(2, 4, 5), Ret>>
MCLoopInIf == {Function(LoopInIf, 0)}

\* Every graph of four blocks with simd branches of two widths, as a kernel
\* and as a subroutine called with a mask of width 2.
MCGraphs ==
  {Function(t, w) : t \in SmallGraphs(4, {2, 4}) \cup {IfInIfElse, LoopInIf}, w \in {0, 2}}

\* if (simd 2) { if (simd 4) { } }
MCNested == {Function(<<Br(2)>> \o Placed(If(2, If(4, Simple)), 1, 7) \o <<Ret>>, 0)}
=============================================================================
