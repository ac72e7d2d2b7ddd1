----------------------------- MODULE Predication -----------------------------
(***************************************************************************)
(* What CMSimdCFLower does inside the blocks: predicateCode, which makes   *)
(* the instructions of a block work on the channels that are enabled, then *)
(* lowerUnmaskOps, then the blocks as they run. Each run goes through the  *)
(* blocks along a path, with some channels enabled in each.                *)
(*                                                                         *)
(* An instruction is a record whose id is its value; args are ids. pred is *)
(* its predicate operand: a value, a constant, or NoPred when it has none. *)
(* A variable (an alloca, a global or a surface) and an argument of the    *)
(* function are ids too. Element types, addresses and region strides are   *)
(* left out: an element is known by the value it comes from.               *)
(***************************************************************************)
EXTENDS Integers, Sequences, SequencesExt, Functions, FiniteSetsExt

CONSTANTS
  Width,            \* the width of the simd branches around the code
  Channels,         \* the channels of EM, more than Width of them
  Variables,        \* variable -> number of elements
  Allocas,          \* the variables that are allocas
  MaskVariables,    \* of them, those that hold the masks of unmask regions
  Arguments,        \* argument -> number of elements
  Scalars,          \* the arguments that are no vectors, not even of one element
  GivenPred,        \* an argument that is a vector of Width i1
  SourceFunctions   \* records [code, outer, PredicatedBlocks, cmWidth, path]

VARIABLES
  source,             \* the function as it was on entry
  code,               \* its instructions, block after block
  order,              \* predicateCode: the <<block, width>> still to predicate
  todo,               \* predicateBlock: the instructions of the block to come
  AlreadyPredicated,  \* the calls that were given the execution mask
  OriginalPred,       \* call -> the predicate it had before
  ends,               \* lowerUnmaskOps: the unmask_end calls seen (MaskEnds)
  begins,             \* and the calls taken for their unmask_begin (MaskBegins)
  diags, asserts,     \* diagnostics emitted, assertions that failed
  phase,
  given,              \* run: the value of GivenPred
  trace,              \* run: the blocks executed, each with its enabled lanes
  EM, mem, vals       \* run: execution mask, variables, values

passVars == <<source, code, order, todo, AlreadyPredicated, OriginalPred,
              ends, begins, diags, asserts>>
runVars == <<given, trace, EM, mem, vals>>
vars == <<passVars, phase, runVars>>

Lanes == 1 .. Width
Lane(i) == ((i - 1) % Width) + 1       \* the lane element i of a vector is of

\* Predicate operands that are not values.
NoPred == 0
AllOnes == -1                          \* a constant vector of ones
ScalarOne == -2                        \* the scalar constant one of a raw send

\* The values that are there before any instruction.
Given == DOMAIN Variables \cup DOMAIN Arguments \cup {GivenPred}

-----------------------------------------------------------------------------
(***************************************************************************)
(* The kinds of instruction predicateInst tells apart. A wrregion takes    *)
(* its old value, then its new value; a store the value, then the pointer. *)
(***************************************************************************)
OldValue == 1
NewValue == 2

\* Regions, masks and calls whose predicate is the one of their wrregion;
\* what does not access memory; calls, whose masks are a matter of VisitOrder.
Ignored == {"load", "rdregion", "wrregion", "bitcast", "unmask_begin", "unmask_end",
            "gather_scaled2", "call", "em", "and", "select", "replicate"}
ScatterGathers == {"gather", "gather_masked", "scatter"}
Sends == {"raw_send", "raw_send_noresult"}
\* The ones whose users have to be predicated as well.
MaskedGathers == {"gather_masked"}
Kinds ==
  Ignored \cup ScatterGathers \cup Sends
    \cup {"access", "predicate", "store", "savemask", "unmask", "remask"}

-----------------------------------------------------------------------------
(* The code as a list of instructions.                                     *)

Instruction ==
  [id : Nat \ {0}, op : Kinds, bb : Nat, width : Nat, args : Seq(Int), pred : Int,
   exec : Nat, at : Nat, from : Nat, md : BOOLEAN, uniform : BOOLEAN]

\* The values an instruction takes.
Operands(i) == Range(i.args) \cup ({i.pred} \ {NoPred, AllOnes, ScalarOne})

Ids(c) == {c[k].id : k \in DOMAIN c}
Place(c, id) == CHOOSE k \in DOMAIN c : c[k].id = id
InstrIn(c, id) == IF id \in Ids(c) THEN c[Place(c, id)] ELSE [id |-> id, op |-> "argument"]
Instr(id) == InstrIn(code, id)

\* A value has one definition, and the operands of an instruction come before it.
IsSSA(c) ==
  /\ IsInjective([k \in DOMAIN c |-> c[k].id])
  /\ \A k \in DOMAIN c : Operands(c[k]) \subseteq {c[n].id : n \in 1 .. k - 1} \cup Given

\* The id of the n-th instruction the pass makes at i. It comes by an
\* instruction once, and those of the source have ids below IdStep.
IdStep == 1000
Id(i, n) == IdStep * i.id + n

\* The code with the instructions new before the one with the id, and without it.
Insert(c, id, new) ==
  SubSeq(c, 1, Place(c, id) - 1) \o new \o SubSeq(c, Place(c, id), Len(c))
Erase(c, id) == RemoveAt(c, Place(c, id))

\* Mutant: other uses are not looked for.
NeverUsed(c, id) == TRUE
Unused(c, id) == \A k \in DOMAIN c : id \notin Operands(c[k])
Renamed(x, old, new) == IF x = old THEN new ELSE x
ReplaceUses(c, old, new) ==
  [k \in DOMAIN c |->
     [c[k] EXCEPT !.args = [n \in DOMAIN @ |-> Renamed(@[n], old, new)],
                  !.pred = Renamed(@, old, new)]]
SetArg(c, id, n, value) ==
  [k \in DOMAIN c |-> IF c[k].id = id THEN [c[k] EXCEPT !.args[n] = value] ELSE c[k]]
SetPred(c, id, value) ==
  [k \in DOMAIN c |-> IF c[k].id = id THEN [c[k] EXCEPT !.pred = value] ELSE c[k]]

\* The elements of s at the places K.
Selected(s, K) ==
  LET S[n \in 0 .. Len(s)] ==
        IF n = 0 THEN <<>> ELSE IF n \in K THEN Append(S[n - 1], s[n]) ELSE S[n - 1]
  IN  S[Len(s)]

\* The map m with x leading to v.
Assign(m, x, v) == [y \in DOMAIN m \cup {x} |-> IF y = x THEN v ELSE m[y]]

\* The code with the instructions new instead of the one with the id, and their
\* value in its place.
Replaced(c, id, new, value) == Erase(ReplaceUses(Insert(c, id, new), id, value), id)

\* An instruction the pass makes for i, of block i.bb.
New(i, id, op, width, args) ==
  [id |-> id, op |-> op, bb |-> i.bb, width |-> width, args |-> args,
   pred |-> NoPred, exec |-> width, at |-> 0, from |-> id, md |-> FALSE,
   uniform |-> FALSE]

\* loadExecutionMask: the first w channels of EM.
LoadEM(i, id, w) == New(i, id, "em", w, <<>>)

\* The places of the instructions of a block.
InBlock(c, b) == {k \in DOMAIN c : c[k].bb = b}

-----------------------------------------------------------------------------
(***************************************************************************)
(* The functions the pass is given. Their masks are constants or arguments *)
(* (comparisons are left out). Between an unmask_begin and its unmask_end  *)
(* the mask is in a variable of its own, which nothing else writes; the    *)
(* regions they make are in a block and may be nested.                     *)
(***************************************************************************)
Of(c, op) == {k \in DOMAIN c : c[k].op = op}
Writes == {"store", "scatter", "raw_send_noresult"}

Regions(c) ==
  {r \in [begin : Of(c, "unmask_begin"), store : Of(c, "store"),
          load : Of(c, "load"), end : Of(c, "unmask_end")] :
     /\ r.begin < r.store /\ r.store < r.load /\ r.load < r.end
     /\ \A k \in {r.store, r.load, r.end} : c[k].bb = c[r.begin].bb
     /\ c[r.store].args[1] = c[r.begin].id
     /\ c[r.load].args[1] = c[r.store].args[2]
     /\ c[r.end].args[1] = c[r.load].id}

RegionsApart(c) ==
  \A r, q \in Regions(c) : r # q =>
    /\ r.begin # q.begin
    /\ c[r.load].args[1] # c[q.load].args[1]
    /\ c[r.begin].bb = c[q.begin].bb /\ r.begin < q.begin =>
         r.end < q.begin \/ q.end < r.end

MasksPaired(c) ==
  /\ \A e \in Of(c, "unmask_end") : \E r \in Regions(c) :
       r.end = e /\ c[r.load].args[1] \in MaskVariables
  /\ \A k \in DOMAIN c : c[k].op \in Writes /\ c[k].args[2] \in MaskVariables =>
       c[k].width = 1 /\ \E r \in Regions(c) : r.store = k
  /\ RegionsApart(c)

Shaped(i) ==
  /\ i.op \in ScatterGathers \cup {"wrregion"} => i.pred \notin {NoPred, ScalarOne}
  /\ i.op \in Sends => i.pred # NoPred
  /\ i.op \in {"load", "store", "unmask_begin", "unmask_end"} => i.pred = NoPred
  /\ i.op = "unmask_begin" => Len(i.args) = 0
  /\ i.op \in {"load", "bitcast", "unmask_end"} => Len(i.args) = 1
  /\ i.op \in {"wrregion"} \cup Writes => Len(i.args) = 2
  /\ i.op \in MaskedGathers \cup {"gather_scaled2", "call"} => i.exec # 0

Formed(i) ==
  /\ i.id \in (1 .. IdStep - 1) \ Given
  /\ i.op \in Ignored \cup ScatterGathers \cup Sends \cup {"access", "predicate", "store"}
  /\ i.pred \in {NoPred, AllOnes, ScalarOne, GivenPred}
  /\ Shaped(i)

\* A path enters a block after the one around it.
PathFormed(f) ==
  \A n \in DOMAIN f.path :
    /\ f.path[n] \in DOMAIN f.outer
    /\ f.outer[f.path[n]] = 0 \/ \E m \in 1 .. n - 1 : f.path[m] = f.outer[f.path[n]]

ASSUME FunctionsAssumption ==
  /\ Width \in Nat \ {0}
  /\ Given \subseteq 1 .. IdStep - 1
  /\ MaskVariables \subseteq Allocas /\ Allocas \subseteq DOMAIN Variables
  /\ \A f \in SourceFunctions :
       /\ f.code \in Seq(Instruction)
       /\ IsSSA(f.code)
       /\ \A k \in DOMAIN f.code : Formed(f.code[k])
       /\ \A k, n \in DOMAIN f.code :
            f.code[k].op = "unmask_end" => f.code[k].id \notin Operands(f.code[n])
       /\ MasksPaired(f.code)
       /\ f.cmWidth \in Nat
       /\ f.PredicatedBlocks \in Seq(Nat) /\ IsInjective(f.PredicatedBlocks)
       /\ f.outer \in Seq(Nat) /\ f.path \in Seq(Nat)
       /\ PathFormed(f)

-----------------------------------------------------------------------------
Init ==
  /\ source \in SourceFunctions
  /\ code = source.code
  /\ order = LET blocks == [k \in DOMAIN source.PredicatedBlocks |->
                              <<source.PredicatedBlocks[k], Width>>]
                 others == Selected([b \in DOMAIN source.outer |-> b],
                                    DOMAIN source.outer \ Range(source.PredicatedBlocks))
             IN  IF source.cmWidth = 0 THEN blocks
                 ELSE [k \in DOMAIN others |-> <<others[k], source.cmWidth>>] \o blocks
  /\ todo = {}
  /\ AlreadyPredicated = {} /\ OriginalPred = <<>>
  /\ ends = {} /\ begins = {}
  /\ diags = {} /\ asserts = {}
  /\ phase = "predicateCode"
  /\ given = <<>> /\ trace = <<>> /\ EM = Channels
  /\ mem = <<>> /\ vals = <<>>

-----------------------------------------------------------------------------
(* predicateBlock and predicateInst.                                       *)

\* The block and its width are the head of order until its code is done.
StartBlock ==
  /\ phase = "predicateCode"
  /\ order # <<>>
  /\ phase' = "predicateBlock"
  /\ todo' = {code[k].id : k \in InBlock(code, Head(order)[1])}
  /\ UNCHANGED <<source, code, order, AlreadyPredicated, OriginalPred, ends,
                 begins, diags, asserts, runVars>>

EndBlock ==
  /\ phase = "predicateBlock"
  /\ todo = {}
  /\ phase' = "predicateCode"
  /\ order' = Tail(order)
  /\ UNCHANGED <<source, code, todo, AlreadyPredicated, OriginalPred, ends,
                 begins, diags, asserts, runVars>>

SimdWidth == Head(order)[2]
\* The first of them: what is put into the block comes before it.
Inst == code[Min({k \in DOMAIN code : code[k].id \in todo})]
At(ops) == phase = "predicateBlock" /\ todo # {} /\ Inst.op \in ops
Advance == todo' = todo \ {Inst.id} /\ UNCHANGED <<source, order, ends, begins, phase, runVars>>

Report(what) ==
  /\ Advance
  /\ diags' = diags \cup {<<Inst.id, what>>}
  /\ UNCHANGED <<code, AlreadyPredicated, OriginalPred, asserts>>

Leave ==
  /\ Advance
  /\ UNCHANGED <<code, AlreadyPredicated, OriginalPred, diags, asserts>>

Ignore == At(Ignored) /\ Leave

\* A memory access without a predicate operand, unless it is ISPC uniform.
Illegal ==
  /\ At({"access"})
  /\ IF Inst.md THEN Leave ELSE Report("illegal instruction inside SIMD control flow")

\* The call i, in c, gets the mask as its predicate operand, and'ed with
\* the one it has.
GiveMask(c, i) ==
  LET em == LoadEM(i, Id(Inst, 1), SimdWidth)
      both == New(i, Id(Inst, 2), "and", SimdWidth, <<i.pred, em.id>>)
  IN  /\ code' = IF i.pred = AllOnes
                 THEN SetPred(Insert(c, i.id, <<em>>), i.id, em.id)
                 ELSE SetPred(Insert(c, i.id, <<em, both>>), i.id, both.id)
      /\ OriginalPred' = IF i.pred = AllOnes THEN OriginalPred
                         ELSE Assign(OriginalPred, i.id, i.pred)
      /\ AlreadyPredicated' = AlreadyPredicated \cup {i.id}
      /\ Advance
      /\ UNCHANGED <<diags, asserts>>

PredicateScatterGather ==
  \/ At(ScatterGathers) /\ Inst.md /\ Leave
  \/ /\ \/ At(ScatterGathers) /\ ~Inst.md
        \/ At(Sends) /\ Inst.pred # ScalarOne
     /\ IF Inst.exec # SimdWidth
        THEN Report("mismatching SIMD width of scatter/gather inside SIMD control flow")
        ELSE GiveMask(code, Inst)

\* predicateSend: a scalar predicate is splat, in a new call.
PredicateSend ==
  LET new == [Inst EXCEPT !.id = Id(Inst, 0), !.pred = AllOnes, !.exec = SimdWidth] IN
  /\ At(Sends)
  /\ Inst.pred = ScalarOne
  /\ GiveMask(Replaced(code, Inst.id, <<new>>, new.id), new)

\* simdcf.predicate becomes a select between its operands.
RewritePredication ==
  LET em == LoadEM(Inst, Id(Inst, 1), SimdWidth)
      select == New(Inst, Id(Inst, 2), "select", SimdWidth, <<em.id>> \o Inst.args)
  IN
  /\ At({"predicate"})
  /\ IF Inst.width # SimdWidth
     THEN Report("mismatching SIMD width inside SIMD control flow")
     ELSE /\ code' = Replaced(code, Inst.id, <<em, select>>, select.id)
          /\ Advance
          /\ UNCHANGED <<AlreadyPredicated, OriginalPred, diags, asserts>>

-----------------------------------------------------------------------------
(* predicateStore.                                                         *)

\* An alloca that is only used in one block needs no predication.
SingleBlock(v, c) ==
  /\ v \in Allocas
  /\ Cardinality({c[k].bb : k \in {n \in DOMAIN c : v \in Range(c[n].args)}}) = 1

Exempt(store) == store.width = 1 \/ store.md \/ SingleBlock(store.args[2], code)

\* Of a value that is no vector it is 0.
WidthOf(id) ==
  IF id \in Scalars THEN 0
  ELSE IF id \in DOMAIN Arguments THEN Arguments[id] ELSE Instr(id).width

\* The operand of a user that holds the value walked back from.
Slot(user) == IF Instr(user).op = "wrregion" THEN NewValue ELSE 1

\* The user of the new value of the wrregion wr: wr, or a bitcast between.
UserOfNewValue(wr) ==
  LET n == Instr(wr).args[NewValue] IN IF Instr(n).op = "bitcast" THEN n ELSE wr

(***************************************************************************)
(* The walk back from the stored value, over bitcasts and wrregions, to    *)
(* the wrregion to predicate: v is the value, user the last user seen, wr  *)
(* the wrregion found (and update the user to change). It ends when there  *)
(* is nothing to walk over ("stop"), at a masked gather ("gather"), when   *)
(* the store is not to be predicated ("leave") or in the assertion on      *)
(* widths ("assert").                                                      *)
(***************************************************************************)
WalkOver(w) ==
  LET i == Instr(w.v)
      width == IF i.op = "wrregion" THEN WidthOf(i.args[NewValue]) ELSE 0
  IN  CASE w.out # "walk" -> w
        [] w.out = "walk" /\ i.op = "bitcast" ->
             [w EXCEPT !.v = i.args[1], !.user = i.id]
        [] w.out = "walk" /\ i.op \in MaskedGathers -> [w EXCEPT !.out = "gather"]
        [] w.out = "walk" /\ i.op \notin MaskedGathers \cup {"bitcast", "wrregion"} ->
             [w EXCEPT !.out = IF i.id \in AlreadyPredicated THEN "leave" ELSE "stop"]
        [] w.out = "walk" /\ i.op = "wrregion" /\ width = SimdWidth ->
             [w EXCEPT !.wr = i.id, !.v = i.args[NewValue],
                       !.update = IF w.wr = 0 THEN w.user ELSE UserOfNewValue(w.wr),
                       !.out = IF i.pred = AllOnes THEN "walk" ELSE "stop"]
        [] w.out = "walk" /\ i.op = "wrregion" /\ width # SimdWidth ->
             [w EXCEPT !.out = IF width = 1 THEN "leave"
                               ELSE IF width < SimdWidth THEN "stop" ELSE "assert"]

Walk(store) ==
  LET W[n \in 0 .. Len(code) + 1] ==
        IF n = 0 THEN [v |-> store.args[1], user |-> store.id, wr |-> 0, update |-> 0,
                       out |-> "walk"]
        ELSE WalkOver(W[n - 1])
  IN  W[Len(code) + 1]

\* predicateWrRegion: a copy of wr with the mask, and'ed with its predicate,
\* takes its place in the user it was found from.
PredicateWrRegion(wr, update) ==
  LET i == Instr(wr)
      em == LoadEM(i, Id(Inst, 1), SimdWidth)
      both == New(i, Id(Inst, 2), "and", SimdWidth, <<em.id, i.pred>>)
      mask == IF i.pred = AllOnes THEN <<em>> ELSE <<em, both>>
      new == [i EXCEPT !.id = Id(Inst, 0), !.pred = Last(mask).id]
      changed == SetArg(Insert(code, wr, mask \o <<new>>), update, Slot(update), new.id)
  IN  /\ code' = IF Unused(changed, wr) THEN Erase(changed, wr) ELSE changed
      /\ OriginalPred' = IF i.pred = AllOnes THEN OriginalPred
                         ELSE Assign(OriginalPred, wr, i.pred)

\* deduceNumChannels: how many elements a lane has in the stored value.
NumChannels(store) ==
  LET i == Instr(store.args[1])
  IN  IF i.op \in MaskedGathers \cup {"gather_scaled2", "call"}
      THEN i.width \div i.exec ELSE 1

\* Mutant: the predicate a masked gather had is forgotten.
NoExistingPred(walk) == NoPred
\* The predicate the masked gather walked back to had, which the store needs too.
ExistingPred(walk) ==
  IF walk.out = "gather" /\ walk.v \in DOMAIN OriginalPred THEN OriginalPred[walk.v] ELSE NoPred

\* The store becomes a load, a select and the store.
SelectedStore(store, existing) ==
  LET n == NumChannels(store)
      load == New(store, Id(store, 0), "load", store.width, <<store.args[2]>>)
      em == LoadEM(store, Id(store, 1), SimdWidth)
      both == New(store, Id(store, 2), "and", SimdWidth, <<existing, em.id>>)
      mask == IF existing = NoPred THEN <<em>> ELSE <<em, both>>
      replicated == IF n = 1 THEN mask
                    ELSE Append(mask, New(store, Id(store, 3), "replicate", SimdWidth * n,
                                          <<Last(mask).id>>))
      select == New(store, Id(store, 4), "select", store.width,
                    <<Last(replicated).id, store.args[1], load.id>>)
  IN  SetArg(Insert(code, store.id, <<load>> \o replicated \o <<select>>),
             store.id, 1, select.id)

PredicateStore ==
  LET walk == Walk(Inst) IN
  /\ At({"store"})
  /\ \/ (Exempt(Inst) \/ walk.out = "leave") /\ Leave
     \/ /\ ~Exempt(Inst) /\ walk.out = "assert"
        /\ asserts' = asserts \cup {<<Inst.id, "unexpected data size inside SIMD control flow">>}
        /\ phase' = "stuck"
        /\ UNCHANGED <<source, code, order, todo, AlreadyPredicated, OriginalPred,
                       ends, begins, diags, runVars>>
     \/ /\ ~Exempt(Inst) /\ walk.out \in {"stop", "gather"}
        /\ asserts' = IF walk.out = "gather" /\ walk.v \notin AlreadyPredicated
                      THEN asserts \cup {<<Inst.id, "gather not predicated">>} ELSE asserts
        /\ \/ /\ walk.wr # 0
              /\ PredicateWrRegion(walk.wr, walk.update)
              /\ UNCHANGED diags
           \/ /\ walk.wr = 0 /\ Inst.width = SimdWidth * NumChannels(Inst)
              /\ code' = SelectedStore(Inst, ExistingPred(walk))
              /\ UNCHANGED <<OriginalPred, diags>>
           \/ /\ walk.wr = 0 /\ Inst.width # SimdWidth * NumChannels(Inst)
              /\ diags' = diags \cup
                   {<<Inst.id, "mismatching SIMD width inside SIMD control flow">>}
              /\ UNCHANGED <<code, OriginalPred>>
        /\ Advance
        /\ UNCHANGED AlreadyPredicated

-----------------------------------------------------------------------------
(* lowerUnmaskOps.                                                         *)

PredicateCodeDone ==
  /\ phase = "predicateCode"
  /\ order = <<>>
  /\ phase' = "lowerUnmaskOps"
  /\ UNCHANGED <<passVars, runVars>>

EndsLeft == {k \in DOMAIN code : code[k].op = "unmask_end" /\ code[k].id \notin ends}

\* The calls put before an unmask_begin and before an unmask_end. The stores
\* of the new EM are part of unmask and remask.
MaskSaved(begin, end) ==
  LET savemask == New(begin, Id(end, 0), "savemask", 1, <<>>)
  IN  <<savemask, New(begin, Id(end, 1), "unmask", 0, <<savemask.id>>)>>
\* Mutant: the mask is not restored.
NoRemask(end) == <<>>
Remask(end) == <<New(end, Id(end, 2), "remask", 0, end.args)>>

\* The next unmask_end and a store to the variable it has its mask from; the
\* use list of a variable is in no order the program gives it.
LowerUnmaskEnd ==
  LET end == code[Min(EndsLeft)]
      load == Instr(end.args[1])
      stores == {k \in DOMAIN code : code[k].op = "store" /\ code[k].args[2] = load.args[1]}
  IN
  /\ phase = "lowerUnmaskOps"
  /\ EndsLeft # {}
  /\ \E k \in stores :
       LET begin == Instr(code[k].args[1])
           saved == MaskSaved(begin, end)
       IN  /\ code' = Insert(ReplaceUses(Insert(code, begin.id, saved), begin.id, saved[1].id),
                             end.id, Remask(end))
           /\ asserts' = IF begin.op = "unmask_begin" THEN asserts
                         ELSE asserts \cup {<<end.id, "not an unmask_begin">>}
           /\ begins' = begins \cup {begin.id}
  /\ ends' = ends \cup {end.id}
  /\ UNCHANGED <<source, order, todo, AlreadyPredicated, OriginalPred, diags,
                 phase, runVars>>

\* The calls are erased and the pass is done with the function.
EraseUnmaskOps ==
  /\ phase = "lowerUnmaskOps"
  /\ EndsLeft = {}
  /\ code' = Selected(code, {k \in DOMAIN code : code[k].id \notin ends \cup begins})
  /\ phase' = "lowered"
  /\ UNCHANGED <<source, order, todo, AlreadyPredicated, OriginalPred, ends,
                 begins, diags, asserts, runVars>>

-----------------------------------------------------------------------------
(***************************************************************************)
(* The code as it runs. An element is <<where it comes from, index>>; s    *)
(* has the EM, mem and vals before the instruction.                        *)
(***************************************************************************)
DataOf(id, n) == [k \in 1 .. n |-> <<id, k>>]
Undefined == <<0, 0>>

On(i, s, k) ==
  i.pred \in {NoPred, AllOnes, ScalarOne} \/ s.vals[i.pred][((k - 1) % i.exec) + 1]

Result(i, s) ==
  LET arg(n) == s.vals[i.args[n]]
      fetched == DataOf(i.from, i.width)
  IN  CASE i.op = "load" -> s.mem[i.args[1]]
        [] i.op = "bitcast" -> arg(1)
        [] i.op = "rdregion" -> SubSeq(arg(1), i.at + 1, i.at + i.width)
        [] i.op = "wrregion" ->
             [k \in 1 .. i.width |->
                IF k - i.at \in DOMAIN arg(NewValue) /\ On(i, s, k - i.at)
                THEN arg(NewValue)[k - i.at] ELSE arg(OldValue)[k]]
        [] i.op \in {"gather", "raw_send"} ->
             [k \in 1 .. i.width |-> IF On(i, s, k) THEN fetched[k] ELSE arg(1)[k]]
        [] i.op = "gather_masked" ->
             [k \in 1 .. i.width |-> IF On(i, s, k) THEN fetched[k] ELSE Undefined]
        [] i.op \in {"gather_scaled2", "call", "access"} -> fetched
        [] i.op = "predicate" ->
             [k \in 1 .. i.width |-> IF Lane(k) \in s.EM THEN arg(1)[k] ELSE arg(2)[k]]
        [] i.op = "select" ->
             [k \in 1 .. i.width |-> IF arg(1)[k] THEN arg(2)[k] ELSE arg(3)[k]]
        [] i.op = "em" -> [k \in 1 .. i.width |-> k \in s.EM]
        [] i.op = "and" -> [k \in 1 .. i.width |-> arg(1)[k] /\ arg(2)[k]]
        [] i.op = "replicate" -> [k \in 1 .. i.width |-> arg(1)[((k - 1) % Len(arg(1))) + 1]]
        [] i.op = "savemask" -> <<s.EM>>
        [] OTHER -> <<>>

Effect(s, i) ==
  [EM   |-> CASE i.op = "unmask" -> Channels
              [] i.op = "remask" -> s.vals[i.args[1]][1]
              [] OTHER -> s.EM,
   mem  |-> CASE i.op = "store" -> [s.mem EXCEPT ![i.args[2]] = s.vals[i.args[1]]]
              [] i.op \in {"scatter", "raw_send_noresult"} ->
                   [s.mem EXCEPT ![i.args[2]] =
                      [k \in DOMAIN @ |-> IF On(i, s, k) THEN s.vals[i.args[1]][k] ELSE @[k]]]
              [] OTHER -> s.mem,
   vals |-> Assign(s.vals, i.id, Result(i, s))]

\* The effect of the instructions of c at the places K, one after the other.
RunCode(c, K, s) ==
  LET R[n \in 0 .. Len(c)] ==
        IF n = 0 THEN s ELSE IF n \in K THEN Effect(R[n - 1], c[n]) ELSE R[n - 1]
  IN  R[Len(c)]

\* The variables and the values before any code has run.
FirstMem == [v \in DOMAIN Variables |-> DataOf(v, Variables[v])]
FirstVals(mask) == Assign([a \in DOMAIN Arguments |-> DataOf(a, Arguments[a])], GivenPred, mask)

Enter ==
  /\ phase = "lowered"
  /\ diags = {}
  /\ phase' = "run"
  /\ given' \in [Lanes -> BOOLEAN]
  /\ mem' = FirstMem
  /\ vals' = FirstVals(given')
  /\ UNCHANGED <<passVars, trace, EM>>

\* The channels enabled where a block is entered: all of a kernel's, the call
\* mask of a subroutine, inside a simd branch those of the last time around
\* it that take it; never none of the lanes.
EnabledIn(b) ==
  LET outer == source.outer[b]
      latest == Max({n \in DOMAIN trace : trace[n].block = outer})
      before == IF outer = 0 THEN Channels ELSE trace[latest].enabled
      some == {m \in SUBSET before : m \cap Lanes # {} /\ before \ Lanes \subseteq m}
  IN  IF outer # 0 THEN some
      ELSE IF trace # <<>> THEN {trace[1].enabled}
      ELSE IF source.cmWidth = 0 THEN {Channels} ELSE some

RunBlock ==
  /\ phase = "run"
  /\ Len(trace) < Len(source.path)
  /\ LET b == source.path[Len(trace) + 1] IN
     \E enabled \in EnabledIn(b) :
       LET after == RunCode(code, InBlock(code, b),
                            [EM |-> enabled, mem |-> mem, vals |-> vals])
       IN  /\ EM' = after.EM /\ mem' = after.mem /\ vals' = after.vals
           /\ trace' = Append(trace, [block |-> b, enabled |-> enabled])
  /\ UNCHANGED <<passVars, phase, given>>

Finished ==
  /\ \/ phase = "stuck"
     \/ phase = "lowered" /\ diags # {}
     \/ phase = "run" /\ Len(trace) = Len(source.path)
  /\ UNCHANGED vars

Next ==
  \/ StartBlock \/ EndBlock \/ Ignore \/ Illegal \/ PredicateScatterGather
  \/ PredicateSend \/ RewritePredication \/ PredicateStore
  \/ PredicateCodeDone \/ LowerUnmaskEnd \/ EraseUnmaskOps
  \/ Enter \/ RunBlock \/ Finished

Spec == Init /\ [][Next]_vars

-----------------------------------------------------------------------------
(***************************************************************************)
(* What the source means: each lane runs the blocks it is enabled in and   *)
(* no others, on the elements that are its own. Scalar and uniform code,   *)
(* and code between unmask_begin and unmask_end, is run for every lane     *)
(* when a block is executed at all.                                        *)
(***************************************************************************)
Unmasked(c) ==
  UNION UNION {{b .. e : e \in {n \in b .. Len(c) :
                          /\ c[n].op = "unmask_end" /\ c[n].bb = c[b].bb
                          /\ \A j \in b .. n - 1 : c[j].op # "unmask_end"}} :
           b \in {n \in DOMAIN c : c[n].op = "unmask_begin"}}

RunsFor(c, b, lane, enabled) ==
  LET everyLane == Unmasked(c) \cup {k \in DOMAIN c : c[k].uniform}
  IN  InBlock(c, b) \cap (IF lane \in enabled THEN DOMAIN c ELSE everyLane)

\* The effect of an instruction, except that what is undefined is not written.
LaneEffect(s, i) ==
  LET t == Effect(s, i)
      kept(v) == [k \in DOMAIN t.mem[v] |->
                    IF t.mem[v][k] = Undefined THEN s.mem[v][k] ELSE t.mem[v][k]]
  IN  IF i.op \in Writes
      THEN [t EXCEPT !.mem[i.args[2]] = kept(i.args[2])] ELSE t

RunLane(c, K, s) ==
  LET R[n \in 0 .. Len(c)] ==
        IF n = 0 THEN s ELSE IF n \in K THEN LaneEffect(R[n - 1], c[n]) ELSE R[n - 1]
  IN  R[Len(c)]

Alone(lane) ==
  LET c == source.code
      A[n \in 0 .. Len(trace)] ==
        IF n = 0
        THEN [EM |-> Channels, mem |-> FirstMem, vals |-> FirstVals(given)]
        ELSE RunLane(c, RunsFor(c, trace[n].block, lane, trace[n].enabled),
                     [A[n - 1] EXCEPT !.EM = trace[n].enabled])
  IN  A[Len(trace)]

\* The vector variables that are seen outside of the block that writes them.
Shared ==
  LET user(v, k) == v \in Range(source.code[k].args)
  IN  {v \in DOMAIN Variables :
         /\ Variables[v] > 1
         /\ \/ v \notin Allocas
            \/ \E k, n \in DOMAIN source.code :
                 user(v, k) /\ user(v, n) /\ source.code[k].bb # source.code[n].bb}

\* Masked gathers are only stored, as they are, where stores are predicated.
GathersStored ==
  LET c == source.code
      G[n \in 0 .. Len(c)] ==
        IF n = 0 THEN {}
        ELSE IF c[n].op = "gather_masked" \/ (c[n].op = "bitcast" /\ c[n].args[1] \in G[n - 1])
        THEN G[n - 1] \cup {c[n].id} ELSE G[n - 1]
  IN  \A k \in DOMAIN c :
        Operands(c[k]) \cap G[Len(c)] # {} =>
          \/ c[k].op = "bitcast"
          \/ /\ c[k].op = "store" /\ ~c[k].md /\ c[k].args[2] \in Shared
             /\ source.cmWidth # 0 \/ c[k].bb \in Range(source.PredicatedBlocks)

\* Predicated code does to the variables what every lane on its own does to the
\* elements it has: disabled channels keep theirs, whatever walk back found the
\* wrregion or call to give the mask to. So do the channels that the own predicate
\* of a masked gather disables, wherever its value is stored as it is: the
\* predicate survives being replaced. A wrregion of the gather, or a store that is
\* not predicated, may leave them undefined.
LanesOnTheirOwn ==
  phase = "run" /\ Len(trace) = Len(source.path) =>
    \A lane \in Lanes :
      LET alone == Alone(lane).mem
      IN  \A v \in Shared : \A k \in 1 .. Variables[v] :
            Lane(k) = lane =>
              \/ mem[v][k] = alone[v][k]
              \/ mem[v][k] = Undefined /\ ~(GathersStored /\ asserts = {})

\* A block leaves the execution mask as it found it: what unmask_begin opens is
\* closed with the mask that was saved.
EMComesBack ==
  [][Len(trace') > Len(trace) => EM' = trace'[Len(trace')].enabled]_vars

\* The code stays code: values have one definition and operands have one, the
\* instructions ahead are there, masks are masks of channels.
TypeOK ==
  /\ IsSSA(code)
  /\ todo \subseteq Ids(code)
  /\ EM \subseteq Channels
  /\ DOMAIN mem \in {{}, DOMAIN Variables}
=============================================================================
