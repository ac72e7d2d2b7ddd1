--------------------------- MODULE SourcePrograms ---------------------------
(***************************************************************************)
(* The source functions the runs lower: functions on the blocks 1 .. n     *)
(* (block 1 the entry, which nothing branches to; the last block the       *)
(* return), given as a sequence of terminators in layout order.            *)
(*                                                                         *)
(* SmallGraphs enumerates control flow graphs. Structured composes the     *)
(* code a frontend lays out for if, while, do-while and sequences of them. *)
(***************************************************************************)
EXTENDS SimdCFLowering, FiniteSetsExt

Function(terms, cmWidth) == [term |-> terms, cmWidth |-> cmWidth]

-----------------------------------------------------------------------------
(* Control flow graphs.                                                    *)

ReachedFrom(t, S, without) ==
  LET R[i \in 0 .. Len(t)] ==
        IF i = 0 THEN S
        ELSE LET r == R[i - 1]
             IN  r \cup (UNION {Range(t[b].succ) : b \in r} \ without)
  IN  R[Len(t)]

Dominates(t, d, b) == b = d \/ b \notin ReachedFrom(t, {1} \ {d}, {d})

ReturnBlocks(t) == {b \in DOMAIN t : t[b].kind = "ret"}

\* Everything is reachable, and a return from everywhere.
Connected(t) ==
  /\ ReachedFrom(t, {1}, {}) = DOMAIN t
  /\ \A b \in DOMAIN t : ReachedFrom(t, {b}, {}) \cap ReturnBlocks(t) # {}

\* One leg of every simd branch is the next block.
Adjacent(t) == \A b \in DOMAIN t : t[b].width > 0 => b + 1 \in Range(t[b].succ)

BackEdges(t) == {e \in (DOMAIN t) \X (DOMAIN t) : e[2] \in Range(t[e[1]].succ) /\ e[2] <= e[1]}

\* A branch backward in layout is the back edge of a natural loop.
Reducible(t) == \A e \in BackEdges(t) : Dominates(t, e[2], e[1])

TermsAt(b, n, widths) ==
  LET targets == 2 .. n
      legs == {p \in targets \X targets : p[1] # p[2]}
  IN  {Ret} \cup {Br(s) : s \in targets}
        \cup {Cond(0, p[1], p[2]) : p \in {q \in legs : q[1] < q[2]}}
        \cup {Cond(w, p[1], p[2]) : w \in widths, p \in legs}

SmallGraphs(n, widths) ==
  LET Upto[b \in 0 .. n - 1] ==
        IF b = 0 THEN {<<>>}
        ELSE {Append(t, i) : t \in Upto[b - 1], i \in TermsAt(b, n, widths)}
  IN  {t \in {Append(u, Ret) : u \in Upto[n - 1]} :
         Connected(t) /\ \E b \in DOMAIN t : t[b].width > 0}

-----------------------------------------------------------------------------
(***************************************************************************)
(* Structured code. A fragment is a sequence of terminators whose targets  *)
(* count from its first block; the block after its last one is where it    *)
(* goes when it is done.                                                   *)
(***************************************************************************)
Retarget(t, From(_)) == [t EXCEPT !.succ = [i \in DOMAIN t.succ |-> From(t.succ[i])]]
Exit(s) == Len(s) + 1

\* The fragment s placed after n blocks, leaving to block out.
Placed(s, n, out) ==
  [b \in DOMAIN s |->
     Retarget(s[b], LAMBDA d : IF d = Exit(s) THEN out ELSE d + n)]

Simple == <<Br(2)>>
Then(s, u) == s \o Placed(u, Len(s), Len(s) + Exit(u))
If(w, s) ==
  LET end == Len(s) + 2
  IN  <<Cond(w, 2, end)>> \o Placed(s, 1, end) \o <<Br(end + 1)>>
IfElse(w, s, u) ==
  LET other == Len(s) + 2
      end == other + Len(u)
  IN  <<Cond(w, 2, other)>> \o Placed(s, 1, end) \o Placed(u, Len(s) + 1, end)
        \o <<Br(end + 1)>>
While(w, s) ==
  LET end == Len(s) + 2
  IN  <<Cond(w, 2, end)>> \o Placed(s, 1, 1) \o <<Br(end + 1)>>
DoWhile(w, s) ==
  LET end == Len(s) + 2
  IN  s \o <<Cond(w, 1, end), Br(end + 1)>>

Nested(S, widths) ==
  S \cup {Then(s, u) : s \in S, u \in S}
    \cup UNION {{If(w, s), While(w, s), DoWhile(w, s)} : w \in widths, s \in S}
    \cup {IfElse(w, s, u) : w \in widths, s \in S, u \in S}

\* levels gives the widths of the conditions at each depth, innermost first.
Structured(levels) ==
  LET N[d \in 0 .. Len(levels)] ==
        IF d = 0 THEN {Simple} ELSE Nested(N[d - 1], levels[d])
  IN  {t \in {<<Br(2)>> \o Placed(s, 1, Exit(s) + 1) \o <<Ret>> : s \in N[Len(levels)]} :
         \E b \in DOMAIN t : t[b].width > 0}
=============================================================================
