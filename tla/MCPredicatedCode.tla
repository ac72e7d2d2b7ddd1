--------------------------- MODULE MCPredicatedCode --------------------------
(***************************************************************************)
(* Functions of four blocks: the entry, a simd if, one nested in it, and   *)
(* the block after both, where the variables are read. The statements in   *)
(* them are the ones a frontend makes for CM code, each next to its store. *)
(***************************************************************************)
EXTENDS Predication, TLC

MCVariables == (1 :> Width) @@ (2 :> 2 * Width) @@ (3 :> Width) @@ (4 :> Width)
                 @@ (51 :> 1) @@ (52 :> 1) @@ (53 :> 1)
MCAllocas == {1, 2, 3, 51, 52, 53}
MCArguments ==
  (7 :> Width) @@ (8 :> 2 * Width) @@ (9 :> 1) @@ (10 :> Width) @@ (11 :> 1)

\* The variables: a vector, a matrix of two rows, a temporary, a surface,
\* and the saved masks of the blocks. The arguments: a row, a matrix, a vector of one element,
\* another row, a scalar.
rowVar == 1
matVar == 2
tempVar == 3
surface == 4
slot == 50    \* Placed makes it the one of the block
row == 7
matrix == 8
single == 9
other == 10
scalar == 11

\* Value n of a statement; Placed gives it its id in the function.
V(n) == 100 + n
I(n, op, width, args) ==
  [id |-> V(n), op |-> op, bb |-> 0, width |-> width, args |-> args, pred |-> NoPred,
   exec |-> width, at |-> 0, from |-> V(n), md |-> FALSE, uniform |-> FALSE]
P(i, p) == [i EXCEPT !.pred = p]

Placed(s, n, b) ==
  LET new(id) == IF id > 100 THEN id + n ELSE IF id = slot THEN slot + b ELSE id
  IN  [k \in DOMAIN s |-> [s[k] EXCEPT !.id = new(@), !.from = new(@), !.bb = b,
                                       !.args = [j \in DOMAIN @ |-> new(@[j])]]]

Preds == {AllOnes, GivenPred}

\* Calls whose result is a row, and those whose result is two of them.
Rows ==
  {P(I(1, "gather_masked", Width, <<>>), p) : p \in Preds}
    \cup {I(1, "gather_scaled2", Width, <<>>), I(1, "call", Width, <<>>),
          I(1, "predicate", Width, <<row, other>>)}
\* Calls with an old value, the one of what their result is written to.
Merging(old) ==
  {P(I(4, "gather", Width, <<old>>), p) : p \in Preds}
    \cup {P(I(4, "raw_send", Width, <<old>>), p) : p \in {ScalarOne, GivenPred}}
Matrices ==
  {[i EXCEPT !.exec = Width] :
     i \in {P(I(1, "gather_masked", 2 * Width, <<>>), p) : p \in Preds}
             \cup {I(1, "gather_scaled2", 2 * Width, <<>>), I(1, "call", 2 * Width, <<>>)}}

Store(n, width, value, variable) == I(n, "store", width, <<value, variable>>)

\* The row given is written to row at of the matrix m.
Region(n, value, at, p) ==
  <<I(n, "load", 2 * Width, <<matVar>>),
    [P(I(n + 1, "wrregion", 2 * Width, <<V(n), value>>), p)
       EXCEPT !.at = at, !.exec = IF value \in {single, scalar} THEN 1 ELSE Width],
    Store(n + 2, 2 * Width, V(n + 1), matVar)>>

\* As Region, with a wrregion of columns in the one of rows and bitcasts
\* around the inner one.
Chain(value, p) ==
  <<I(2, "load", 2 * Width, <<matVar>>), [I(3, "rdregion", Width, <<V(2)>>) EXCEPT !.at = Width],
    I(4, "bitcast", Width, <<value>>),
    P(I(5, "wrregion", Width, <<V(3), V(4)>>), p),
    I(6, "bitcast", Width, <<V(5)>>),
    P([I(7, "wrregion", 2 * Width, <<V(2), V(6)>>) EXCEPT !.at = Width, !.exec = Width], AllOnes),
    Store(8, 2 * Width, V(7), matVar)>>

Uniform(s) == [k \in DOMAIN s |-> [s[k] EXCEPT !.uniform = TRUE]]
IspcUniform(s) == [k \in DOMAIN s |-> [s[k] EXCEPT !.uniform = TRUE, !.md = TRUE]]

RowStores ==
  {<<Store(1, Width, row, rowVar)>>}
    \cup {<<i, Store(2, Width, V(1), rowVar)>> : i \in Rows}
    \cup {<<i, I(2, "bitcast", Width, <<V(1)>>), Store(3, Width, V(2), rowVar)>> : i \in Rows}
    \cup {<<I(1, "load", Width, <<rowVar>>), i, Store(5, Width, V(4), rowVar)>> :
            i \in Merging(V(1))}
MatrixStores ==
  {<<i, Store(2, 2 * Width, V(1), matVar)>> : i \in Matrices}
RegionStores ==
  {Region(1, row, at, p) : at \in {0, Width}, p \in Preds}
    \cup {<<i>> \o Region(2, V(1), Width, p) : i \in Rows, p \in Preds}
    \cup {Chain(row, p) : p \in Preds}
    \cup {Region(1, row, Width, AllOnes)
            \o <<[I(5, "rdregion", Width, <<V(2)>>) EXCEPT !.at = Width],
                 Store(6, Width, V(5), rowVar)>>}
    \cup {<<i>> \o Chain(V(1), AllOnes) : i \in Rows}
    \cup {<<I(1, "load", 2 * Width, <<matVar>>),
              [I(2, "rdregion", Width, <<V(1)>>) EXCEPT !.at = Width], i>>
             \o Region(5, V(4), Width, AllOnes) : i \in Merging(V(2))}
Effects ==
  {<<P(I(1, "scatter", Width, <<row, surface>>), p)>> : p \in Preds}
    \cup {<<P(I(1, "raw_send_noresult", Width, <<row, surface>>), p)>> :
            p \in {ScalarOne, GivenPred}}
Temporary ==
  {<<Store(1, Width, row, tempVar), I(2, "load", Width, <<tempVar>>),
     Store(3, Width, V(2), rowVar)>>}
UniformCode ==
  {Uniform(Region(1, single, 1, AllOnes)),
   IspcUniform(<<Store(1, Width, other, rowVar)>>),
   IspcUniform(<<I(1, "access", Width, <<>>), Store(2, Width, V(1), rowVar)>>),
   IspcUniform(<<P(I(1, "scatter", Width, <<other, surface>>), AllOnes)>>)}
     \cup {<<Uniform(<<I(1, "predicate", Width, <<row, other>>)>>)[1],
             IspcUniform(<<Store(2, Width, V(1), rowVar)>>)[1]>>}

\* A scalar written to an element: it is too narrow, and the store is predicated,
\* or the wrregion of columns its row is written with.
Narrow ==
  {<<I(1, "load", Width, <<rowVar>>),
     [P(I(2, "wrregion", Width, <<V(1), scalar>>), AllOnes) EXCEPT !.at = 1, !.exec = 1],
     Store(3, Width, V(2), rowVar)>>,
   <<I(1, "load", 2 * Width, <<matVar>>), [I(2, "rdregion", Width, <<V(1)>>) EXCEPT !.at = Width],
     [P(I(3, "wrregion", Width, <<V(2), scalar>>), AllOnes) EXCEPT !.at = 1, !.exec = 1],
     [P(I(4, "wrregion", 2 * Width, <<V(1), V(3)>>), AllOnes) EXCEPT !.at = Width, !.exec = Width],
     Store(5, 2 * Width, V(4), matVar)>>}

\* Reported: no predicate operand, or a width that is not the simd width.
Reported ==
  {<<I(1, "access", Width, <<>>)>>, Region(1, scalar, 1, AllOnes),
   <<P(I(1, "gather", 2 * Width, <<matrix>>), AllOnes)>>,
   <<I(1, "predicate", 2 * Width, <<matrix, matrix>>)>>,
   <<Store(1, 2 * Width, matrix, matVar)>>}

\* A wrregion of more than the simd width, which stops the pass.
Wide ==
  {<<I(1, "load", 2 * Width, <<matVar>>),
     P(I(2, "wrregion", 2 * Width, <<V(1), matrix>>), AllOnes),
     Store(3, 2 * Width, V(2), matVar)>>}

Unmask(s) ==
  <<I(20, "unmask_begin", 1, <<>>), Store(21, 1, V(20), slot)>> \o s \o
    <<I(22, "load", 1, <<slot>>), I(23, "unmask_end", 0, <<V(22)>>)>>
Unmaskeds ==
  {Unmask(s) : s \in {<<Store(1, Width, other, rowVar)>>,
                      <<I(1, "load", Width, <<rowVar>>),
                        P(I(4, "gather", Width, <<V(1)>>), GivenPred),
                        Store(5, Width, V(4), rowVar)>>,
                      <<P(I(1, "scatter", Width, <<other, surface>>), AllOnes)>>,
                      Region(1, other, 0, GivenPred)}}

Statements ==
  {<<>>} \cup RowStores \cup MatrixStores \cup RegionStores \cup Narrow \cup Effects
    \cup Temporary
    \cup UniformCode \cup Unmaskeds

\* Some of them, to be next to others.
Small ==
  {<<Store(1, Width, other, rowVar)>>, Region(1, other, Width, GivenPred),
   <<P(I(1, "gather_masked", Width, <<>>), GivenPred), Store(2, Width, V(1), rowVar)>>,
   Unmask(<<Store(1, Width, other, rowVar)>>)}

Readers == <<I(1, "load", Width, <<rowVar>>), I(2, "load", 2 * Width, <<matVar>>)>>

Function(blocks, cmWidth, path) ==
  [code |-> blocks[1] \o blocks[2] \o blocks[3] \o Placed(Readers, 300, 4),
   PredicatedBlocks |-> <<2, 3>>, outer |-> <<0, 1, 2, 0>>,
   cmWidth |-> cmWidth, path |-> path]

Once == <<1, 2, 3, 4>>
Twice == <<1, 2, 3, 2, 3, 4>>

\* A statement in the if and one in the if in it.
Nested(S2, S3, path) ==
  {Function(<<<<>>, Placed(s2, 100, 2), Placed(s3, 200, 3)>>, 0, path) : s2 \in S2, s3 \in S3}

\* A subroutine with a call mask: statements in its entry and in the if.
Called(S1, S2) ==
  {Function(<<Placed(s1, 0, 1), Placed(s2, 100, 2), <<>>>>, Width, Once) : s1 \in S1, s2 \in S2}

\* A masked gather, stored in its block and in the one inside.
StoredTwice ==
  {LET gather == [P(I(1, "gather_masked", 2 * Width, <<>>), p) EXCEPT !.exec = Width]
       store == Store(2, 2 * Width, V(1), matVar)
   IN  Function(<<<<>>, Placed(<<gather, store>>, 100, 2),
                  <<[Placed(<<store>>, 200, 3)[1] EXCEPT !.args[1] = V(1) + 100]>>>>, 0, Twice) :
     p \in Preds}

MCFunctions ==
  Nested(Statements, Statements, Once)
    \cup Nested(Statements, Small, Twice)
    \cup Called(Small, Statements)
    \cup StoredTwice
    \cup Nested(Reported \cup Wide, {<<>>}, Once)
=============================================================================
