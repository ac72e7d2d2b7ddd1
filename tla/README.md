# Verification of vc-intrinsics in TLA+

The repository defines the GenX intrinsics (the LLVM IR interface of the VC
backend) and the passes around them. Three parts of it carry logic of their own,
and this project models them:

* **SIMD control flow.** A frontend branches on `llvm.genx.simdcf.any(<N x i1>)`;
  `GenXSimdCFLowering.cpp` turns such branches into `goto`s and `join`s over an
  explicit execution mask and predicates the code between them.
* **The intrinsics.** `Intrinsics.py` generates tables from
  `Intrinsic_definitions.py`; `GenXIntrinsics.cpp` reads them, finds intrinsics by
  name and caches what it found in metadata.
* **SPIR-V.** Two adaptors describe kernels in a way the SPIR-V translator
  understands, and back.

Paths below are relative to `GenXIntrinsics/`.

## Inventory

| Component | State | Operations | Talks to |
|---|---|---|---|
| goto/join semantics (`include/.../Intrinsic_definitions.py:376-634`) | EM, one RM per join | goto, join, savemask, unmask, remask | produced by the lowering, consumed by the backend |
| `CMSimdCFLower` (`lib/.../GenXSimdCFLowering.cpp:628-2112`) | `SimdBranches`, `PredicatedBlocks`, `JoinPoints`, `JIPs`, `RMAddrs`, `AlreadyPredicated`, `OriginalPred`, `PredicatedSubroutines` (`GenXSimdCFLowering.h:28-57`) | the ten steps of `processFunction` | shares `PredicatedSubroutines` between the functions of a module |
| `CMSimdCFLoweringImpl` (`GenXSimdCFLowering.cpp:331-626`) | call graph, `VisitOrder`, volatile globals | `run`, `calculateVisitOrder`, `initializeVolatileGlobals` | calls `processFunction` once per function |
| Table generator (`include/.../Intrinsics.py`, `Intrinsic_definitions.py`) | `ID_array`, the offset of the long table, the numbers of attribute lists | one function per table | its output is compiled into `GenXIntrinsics.cpp` |
| Declarations and lookup (`lib/.../GenXIntrinsics.cpp`) | an id cached in metadata of declarations | encode/decode types, names, `lookupGenXIntrinsicID`, `getGenXIntrinsicID`, `getGenXDeclaration` | used by every pass; the cache travels with the module |
| Attribute restoration (`lib/.../GenXRestoreIntrAttr.cpp`) | none | overwrites the attributes of declarations | after the reader |
| SPIR-V writer adaptor | metadata `genx.kernels`, attributes, types of arguments | metadata to attributes, arguments to SPIR-V types, conversions of uses | declares `address_convert` |
| SPIR-V reader adaptor | the same, back | types to descriptions, attributes to metadata | looks for `address_convert` |
| `GenXSingleElementVectorUtil` | maps of rewritten types, functions, globals | rewrite `<1 x T>` to `T` and back | used by both adaptors |
| `GenXMetadata.h`, `llvmVCWrapper`, plugin, `docs/conf.py` | none | constants, forwarding, registration | - |

What is hard here is not concurrency of threads: the passes are sequential.
It is

1. a second program, the lowered one, whose lanes interleave in a way the author
   of the source never sees;
2. maps that outlive the change they describe (blocks are split while maps are
   keyed by block; instructions are copied and erased while others refer to them;
   `OriginalPred` and `AlreadyPredicated` are read by a later store);
3. decisions by proxy (a join "at the end of its group" needs no JIP; control
   dependence of direct simd branches only; the mask of an `unmask_end` is that
   of the first store found);
4. an order later steps silently rely on (of functions; of the walk back from a
   store);
5. two writings of one format in two languages (the type codes in `Intrinsics.py`
   and in `GenXIntrinsics.cpp`, operand numbers, overload lists), with nothing but
   their numbers in common;
6. data that outlives the program that wrote it: a number cached by another
   version of the library, attributes the translator dropped, a module that is
   read twice.

`PROJECT.json` lists each hazard at its line.

## The modules

| Module | Models | State |
|---|---|---|
| `ArchSimdCF` | the Architectural model: what goto and join promise | a PcIP per channel |
| `SimdCFMachine` | the LLVM IR model: EM and resume masks, on any program | `code`, `ip`, `EM`, `RM`, `callMask` |
| `SourceCF` | what a function with simd branches means: each lane at its own block | `pc` per lane |
| `SimdCFLowering` | `processFunction`, from a source graph to gotos and joins | the maps of `CMSimdCFLower`, the graph, the layout |
| `SimdCFExecution` | `SimdCFLowering`, then `SimdCFMachine` running its output | both |
| `Predication` | `predicateCode` and `lowerUnmaskOps` on the instructions of blocks, then the blocks running | the code, `AlreadyPredicated`, `OriginalPred`, EM, variables, values |
| `VisitOrder` | `calculateVisitOrder`, the loop of `run`, `predicateCall` | call graph, work list, `PredicatedSubroutines` |
| `IntrinsicDefinitions` | the table of intrinsics, entry by entry | none |
| `IntrinsicSignatures` | the type codes: how the generator writes and the library reads them | none |
| `IntrinsicTables` | the generator, table by table, and the readers of its tables | the tables and their counters |
| `IntrinsicUsers` | operand numbers and type lists that C++ code assumes | none |
| `IntrinsicNames` | names, lookup by bisection, declarations, the cached number, their attributes | declarations, the running library |
| `KernelArguments` | the writer, what SPIR-V keeps, the reader | the module |
| `SPIRVRoundTrip` | `KernelArguments` with the declarations of `IntrinsicNames` | both |
| `*_proofs` | the theorems, a module for each component (`SPIRVRoundTrip_proofs` for `IntrinsicNames` and `KernelArguments` too) | |
| `Recursion` | theorems about numbers and recursive functions that the proofs use | |
| `SourcePrograms`, `MC*` | the instances | |

They compose as follows. `SimdCFMachine` implements `ArchSimdCF` (a waiting
channel's PcIP is the join whose mask holds it). `SimdCFExecution` extends
`SimdCFLowering` and instantiates `SimdCFMachine` on the variable `code` the pass
leaves. `SimdCFExecution` implements `SourceCF`: an enabled lane is where
execution is, a waiting lane is at the join that holds it, and blocks the pass
made (joins, `.backward`, `.loopend`, `.fallthrough`) belong to the source block
they lead to. `Predication` opens what `SimdCFLowering` records as one number per
block, the width its instructions are predicated with: it takes the blocks with
their widths and any way the channels can be enabled in them. `IntrinsicTables`
extends the codes of `IntrinsicSignatures`; `IntrinsicUsers` extends
`IntrinsicTables` with the real table. `SPIRVRoundTrip` extends `KernelArguments`
and `IntrinsicNames`: the writer's declaration of `address_convert` is a step of
both, and the reader knows a conversion by the lookup, which may be that of
another version of the library.

### Correspondence with the code

* A **block** of `SimdCFLowering` is a number. `layout` is the order of the
  function's block list; `term` its terminators; `body` says which source block's
  instructions it holds, none for a block the pass made. `NoBlock` is a null
  pointer and the virtual exit of the postdominator tree.
* A **map keyed by block** (`SimdBranches`, ...) is a function whose domain is the
  set of keys. Where the C++ `operator[]` inserts a key, so does the model
  (`InsertFallthrough`). `SimdBranches` is a `MapVector`; the one place where its
  order can matter, which width a join gets when its branches disagree, is a
  nondeterministic choice (`SplitJoinPoint`).
* The **steps** are the calls of `processFunction` in order, kept in `phase`. The
  loop of `fixSimdBranches` and that of `findAndSplitJoinPoints` take one step per
  change of the graph, `determineJIPs` one step per round.
* **Diagnostics** and **assertions** are collected in `diags` and `asserts`.
  A return in a predicated block stops the pass (`rejected`), as the default
  handler of an LLVM error does; other diagnostics are recorded, and a function
  that has one is not run.
* In `SimdCFMachine` a **mask** is a set of channels. `lanes` is the SIMD width of
  an instruction, a subset of the channels: the extension of a narrow operand by
  ones and the truncation of EM are explicit.
* In `VisitOrder` a function is its calls, each with the width of the predicated
  block it is in. `std::set<CGNode *>` iterates in address order, so callees are
  visited in any order; functions come in any order too.
* In `Predication` an **instruction** is a record whose id is its value. The data
  in an element is named by the instruction and the index it came from, so two
  elements are equal exactly when they have the same origin. Operands of a call
  that do not matter to predication are left out. One pass over `Walk` is one
  iteration of the loop of `predicateStore`. `Enter` and `RunBlock` run the
  predicated blocks along a path with nested sets of channels; `Alone` runs the
  *source* for one lane; there, elements that a masked gather leaves undefined are not
  written, which the store has to bring about with the gather's own predicate. Between `unmask_begin` and `unmask_end`, code is run for
  every lane.
* In `IntrinsicSignatures` a **string of the generator** is a sequence of numbers;
  a word of `IIT_Table` is a record of digits or an offset. `Decode...` read the
  same numbers with the enumeration of `GenXIntrinsics.cpp`.
* In `IntrinsicNames` a **name** is a sequence of characters that are numbers in
  the order of the real ones; it is what bisection, prefixes and dots need.
  `ChangeLibrary` is an upgrade between two tools, `LoseAttributes` the SPIR-V
  translator.
* In `KernelArguments` a **type** is an address space, an image, a buffer or a
  vector with what tells two of them apart; descriptions are sequences of words.
  The order of the steps is that of `run` of each adaptor, kept in `phase`.

## The runs

| Run | What it asks | Bound, and why it is enough |
|---|---|---|
| `machine` | `TypeOK`, `MaskPartition`, `ImplementsArch` | every program of three blocks, three channels of which two are of the instruction's width, every call mask. One goto and one join, or two of a kind, in any arrangement, with a channel outside the width |
| `lowering` | `TypeOK`, `ForwardToJoins`, `JumpsToLiveJoins`, `WidthsMatch` | every control flow graph of four blocks (irreducible ones included) with scalar branches and simd branches of widths 2 and 4, as a kernel and as a subroutine with a call mask; two graphs of five blocks, in one of which a join keeps the JIP of a join that is gone and in the other the scan for a JIP runs off the function. All seven outcomes of `fixSimdBranches` occur, and functions with more than one round of `determineJIPs` |
| `execution` | `ImplementsSource`, `Returns`; for structured code `LanesInStructuredCode`: it is lowered to code that is `Orderly`, and runs none with no lane enabled; for code without scalar conditions inside simd ones `PredicatedInSimdCode`. The conditions on the code that `SimdCFExecution_proofs` starts from are thus found to hold | two levels of structured code (sequence, if, if-else, while, do-while; every condition scalar or simd) and every reducible graph of four blocks whose simd branches have a leg next to them, as subroutines with every call mask; the code without scalar conditions inside simd ones also as kernels, whose blocks are not all predicated; two lanes and a third channel (85 thousand states) |
| `predicated_code` | `TypeOK`, `LanesOnTheirOwn`, `EMComesBack` | two lanes, a third channel; every pair of statements (stores, regions with and without a predicate, gathers of each kind, scatters, sends, predicates, uniform code, unmask regions) with one in a simd branch inside that of the other, loops that pass twice, subroutines with a call mask, values stored twice, and each diagnostic (393 thousand states). A lane holds one or two elements; that is enough for every branch of the walk. A wrregion of a vector of one element leaves the store alone, one of a scalar (no vector, width 0 in the code) is too narrow and has the store or the wrregion around it predicated; a vector of more than one element that is too narrow takes the same branch and needs a width of 4 |
| `visit_order` | `CallersFirst`, `VisitedOnce`, `CallMaskAgrees`, `MaskWidthFixed`, `EveryFunctionLowered`, `TypeOK` | modules of three functions: f calling g and h, g calling h, each not at all, from an unpredicated block or from one of either width; cycles, a self call, an escaping function, the two attributes. Three functions are the fewest with a diamond-like order (f calls g and h, g calls h) |
| `intrinsic_tables` | `EntriesIntact`, `AttributesOwn`, `SignatureRoundTrip`, `OverloadTablesAgree`, `VoidCallsSurvive`, `SupportedAsDeclared`, `OverloadListsMatch`, `OperandNumbersAgree`, `TypeOK` | the table of the repository as a whole, each of its intrinsics alone, and pairs of made-up ones that use what the generator allows and the table does not; LLVM 16 and 23, one on each side of the change of packing. Generator and reader are deterministic: the real table is the case that ships |
| `spirv_round_trip` | `KernelsRestored`, `SurfacesRestored`, `PointersRestored`, `AttributesRestored`, `AdaptorsIdempotent`, `TypesRestored`, `NamesFound`, `CacheIsLookup`, `CacheCoherent`, `StaleNumberHarmless`, `AttributesOfTheIntrinsic` | every kind of argument with every kind of description, kernels and plain functions; two versions of the library in which one name begins another; the cache on and off; two declarations at a time, enough for one intrinsic under two types, or two whose names share a beginning (490 thousand states) |
| `nested_widths`, `reached_end`, `scalar_in_simd`, `loop_continue`, `raw_sends` | a claim of a comment each | one small function, or the four send intrinsics; see Findings |

The bounds are named constants: `MaxSimdWidth`, `Width`, `Channels`, `MaxConds`
(conditional branches of a source function, for the fairness below), `MaxBlocks`
(blocks of a lowered function; the number of resume masks) and `MaxDeclarations`
(declarations of a module). `CHECK_DEADLOCK FALSE` appears where the system stops:
the pass when a function is lowered, a program when it returns, the generator when
its tables are written, a module that has come through. `SimdCFExecution` and
`Predication` have an explicit `Finished` step instead, so that their runs check
for deadlock.

### Fairness

Only two specifications are fair, those with a liveness property. `VisitOrder!FairSpec` assumes that the pass
keeps running (`WF(Next)`): it is a loop in one thread. `ExecFairSpec` assumes
that the lowered function keeps running (`WF(Run)`) and `LoopsEnd`: conditions
are data, and a condition that is evaluated again and again is at times true and
at times false for all the lanes that evaluate it. This is an assumption about
the source program, that its loops end, and not about the pass; without it
`while (c)` never returns whatever the pass does. With it `Returns` says that the
*lowering* adds no way not to return: no lane left at a join that is not reached
again, no loop going on with no lane in it.

## What is proved

TLAPS checks, for all constants that satisfy the named assumptions
(`MachineAssumption`: gotos name blocks, `NoBlock` is none;
`ExecAssumption`: one width, whose lanes are channels, and a number of blocks;
`VisitAssumption`: finitely many functions, calls are uses;
`TablesAssumption`: tables the generator gets through: types it knows by name,
references to overloaded types that come earlier, at most 32 of those, a result of
one to five values, `void` on its own;
`EffectsAssumption`: attributes are known by name, and a declaration without a result
has an effect, `lsc_prefetch2d_typed_bti` apart (see Findings);
`PlatformsAssumption`: platform expressions are pairs of strings;
`NamesAssumption`: libraries are finite and not empty;
`CharactersAssumption`: identifiers have no dot, lists of types begin with one;
`TypesAssumption`: no name goes on after that of an overloaded intrinsic with a
component that begins like its types, which holds of the 394 overloaded intrinsics
of `Intrinsic_definitions.py`;
`SourceAssumption`: source functions are finite graphs with a width per condition;
`ModulesAssumption`: modules are as a front end makes them;
`AddressConvertAssumption`: every library has `address_convert`;
`FunctionsAssumption`: see `Predication_proofs` below):

* `SimdCFMachine_proofs`: `TypeCorrect`, `MaskPartitionHolds` and `MachineIsArch`.
  The inductive invariant is `TypeOK /\ MaskPartition` as it stands. A goto moves
  channels from EM to one mask and a join moves a whole mask to EM and empties it;
  disjointness of the masks is what makes a channel's `WaitsAt` unique and thereby
  the refinement's PcIP well defined. A goto of the masks maps to an Architectural
  goto with `leaving` the enabled channels that its condition drops, a join to a
  join (those that wait at it are exactly its RM), anything else to `Scalar`.
* `VisitOrder_proofs`: `TypeCorrect`, `CallersFirstHolds`, `VisitedOnceHolds`,
  `MaskWidthFixedHolds`, `CallMaskAgreesHolds`, for any call graph. `CallersFirst`
  is not inductive; the invariant `IInv` adds what relates the call graph to the
  walk over it. Every caller of a function in the graph is walked or still among
  its unvisited callers; a caller not yet walked is still among them, and so is
  the function being walked for those left in `todo`; a function in the order has
  none. So a function is appended when its last caller is struck out, and only
  then. `MaskWidthFixed` follows from `CallersFirst` and `VisitedOnce`: processing
  F writes entries of callees of F only, and they come after F. `CallMaskAgrees`
  needs a second invariant, `WInv`: the entry of a callee, lowered already or not,
  is the width of all its calls in the functions lowered so far.
* `SimdCFLowering_proofs`: `TypeCorrect`, `ForwardToJoinsHolds`, `WidthsMatchHolds`,
  `JumpsToLiveJoinsHolds`, `EveryGotoHasJIP`, for any source function. The invariant
  is `IInv == GraphOK /\ MapsOK /\ PlaceOK /\ FixedOK /\ JIPsOK /\ WidthsMatch`. Blocks
  are inserted and split while maps are keyed by them, so `GraphOK` and `MapsOK` say
  that layout, targets and maps speak of the same blocks; `FixedOK` that a branch
  that has been visited goes forward and falls through, which an insertion keeps
  because it moves the numbers after it in order, and a split because the new block
  comes next to the old one; `JIPsOK` that what the rounds of `determineJIPs` have
  found are joins further down. A goto's scan for a JIP ends at its UIP at the
  latest: `EveryGotoHasJIP`. A join's may not (`reached_end`).
* `SimdCFExecution_proofs`: `LoweredIsSource`, `LanesPartitioned`, and for code that
  is `Orderly` `SomeLaneEnabledHolds`, `PredicatedWhenDivergedHolds` and
  `LoweredImplementsSource`, for any source function, conditions and call mask.
  + The first is about the pass. `LInv` adds to `IInv` that each block is or leads to
    one block of the source, with a `rank` that goes down on the way, and has its
    branch, legs swapped where it has been inverted; joins fall through; a JIP is the
    first of the joins `determineJIP` looks for. What the run of the lowered code may
    rely on, `Static`, follows and does not change any more.
  + Of the machine, `MasksOK` (the channels of the call are enabled or in one resume
    mask) needs nothing else. What the lanes need does: `WaitsAhead`, that a lane
    waits at a join further down, at which some goto before it can leave lanes
    (`MayWait`), so that no scalar branch from here goes past it, and `LeadsToUIP`, that with no lane enabled execution is on a
    way of joins and blocks of the pass to a UIP at which a lane waits. A scalar
    branch that goes past a join with a lane breaks the first (`loop_continue`), a
    join without a JIP followed by code the second. `Orderly` says that the lowered
    code has neither, in terms of its layout, branches and JIPs alone; TLC checks it
    for structured code, and `WaitsAhead` and `LeadsToUIP` are then inductive.
  + Each step is then one of `SourceCF` or none: a goto, a scalar branch or a return
    at a block of the source moves the enabled lanes, all at that block, as the
    source branch moves them; a block of the pass leaves each lane's `Home`; a join
    moves the lanes that wait there, whose `Home` is that of the join. A goto and the
    source differ on which leg is taken, since branches are inverted and operands
    extended to the channels outside: `GotoIsSource` settles the cases.
* `Predication_proofs`: `TypeCorrect` and `EMIsRestored`, for any functions, widths and
  paths.
  + `FunctionsAssumption` says what the pass is given: a source in SSA form; masks that
    are constants or an argument; ids below `IdStep`, so that those the pass makes are
    new; each `unmask_end` with an `unmask_begin` before it in the block, and a variable
    for the mask that nothing else writes; regions of a block nested or apart (two that
    overlap in part would leave the mask of the other in EM); a path that enters a
    block after the one around it.
  + `TypeCorrect`: instructions are put in, replaced, erased and given new operands, one
    lemma for each about the operator that does it (`Insert`, `Replaced`, `Erase`,
    `SetArg`, `SetPred`), one for each kind of instruction that combines them.
    Operands stay defined before their use: a new mask stands right before what it
    is for, an instruction is erased when nothing uses it any more. The loop of
    `predicateStore` is a recursive function: `WalkStates` and `WalkIs` say that from a
    store it is always at a value defined before, and that the wrregion to predicate
    and the user to change are in the code, in that order.
  + `EMIsRestored`: `Alters` says of each step of `predicateCode` that it keeps what
    makes a mask or takes one (`Masking`), in its order, so at the end of it the regions
    of the code are those of the source (`PassInv`). `lowerUnmaskOps` takes
    them one at a time: each is as written or lowered, with its savemask, unmask and
    remask in place, and no other instruction writes EM (`LowerOK`). Without
    `unmask_begin` and `unmask_end` that is `MasksSaved`, about the finished code. Along a
    block that runs, EM is the block's own mask where no region is open and every channel
    where one is, and the variable of an open region holds the mask from before it
    (`RanTo`, by induction over the places); at the end of the block none is open.
* `IntrinsicTables_proofs`: `TypeCorrect`, `EntriesStayIntact`, `SignaturesRoundTrip`,
  `OverloadTablesDoAgree`, `AttributesAreOwn`, `VoidCallsDoSurvive`, `SupportIsDeclared`
  over the generator, `PackingInverts` and `OverloadBits` about its formulas.
  + The long table grows after a word with an offset into it has been
    written, so `EntriesIntact` needs that the offset counter is the length of the
    table and that words point below it; a list of attributes is shared by number, so
    `AttributesOwn` needs that numbers are places of the list of lists. The invariant
    is the conjunction `IInv == TypeOK /\ TableTypes /\ AttributeTypes /\ EntriesIntact
    /\ AttributesOwn`.
  + `SignaturesRoundTrip`: `EntriesIntact` says where the codes of an intrinsic are,
    in the nibbles of its word or in the long table. The reader is a function of the
    place and of how many types are still to come. The codes of one type, with all
    that is within it, are read as that type wherever they stand, whatever follows
    (one lemma per kind of type); types one after the other then by induction over
    the joined sequence. The number of an overloaded type counts those before it,
    which is what the references of later types rely on.
  + `OverloadTablesDoAgree`: the invariant `OverloadsSet` says which bits and entries
    of the three tables have been written; `Laid` relates the places the generator
    counts (results, then parameters, vectors as one) to those of the decoded
    signature.
  + `VoidCallsDoSurvive` follows from `AttributesOwn`: the attributes read are those
    declared, and the lists that have an effect keep it through
    `getAttributeListModRef`.
  + For the platforms the invariant is `SupportRows`: the matrix has the rows
    of the intrinsics that have been passed; that a row says what the last expression
    naming a platform says is an induction over the expressions (`RowAsDeclared`).
* `SPIRVRoundTrip_proofs`, first part (names): `EveryNameIsFound`, `CachedNumbers`,
  `CacheTransparent`, `OwnAttributes`, `StaleNumbersHarmless`. The invariant says of each declaration
  (`Good`) where its number and its attributes come from: the number from the lookup of
  a library that ran, the attributes from the number the library that set them was
  given. `OwnAttributes` then follows from `CacheTransparent` and
  `StaleNumbersHarmless`. `EveryNameIsFound` is about the lookup itself. The order of strings is
  total, so the places of the identifiers are all taken and the table is in order
  (`RankTakesAll`, `TableOrdered`); the search keeps the range of the names that
  agree with the one looked up as far as it has come (`NarrowedRange`); a name comes
  before all that it begins, so it is the first of its range, and no name goes on
  with its types, so the next range is empty and `LastLow` is the intrinsic
  (`SearchFinds`, by induction on what is left of the name).
* `SPIRVRoundTrip_proofs`, second part (the adaptors): `KernelsComeBack`, `SurfacesComeBack`,
  `PointersComeBack`, `AttributesComeBack`, `AdaptorsAreIdempotent`, for any modules.
  None of these is inductive: each relates the end of the way to its beginning.
  The invariant `Stages` says for every phase, and within it for every function
  passed or not, which value of the pipeline each function has as an operator of
  the module given; `Attributed` does so for attributes and globals. A step then
  only moves a function from one value to the next, and what is left are lemmas
  about the operators (`ArgDesc` words found in any order, types after two
  conversions).
* `SPIRVRoundTrip_proofs`, third part (the whole way): every step of the whole way is a step of
  `IntrinsicNames` or leaves it alone (`ImplementsNames`), and a step of the
  adaptors or leaves them alone (`ImplementsAdaptors`); the invariants of the parts
  thereby hold of the whole (`CacheTransparentOnTheWay`, `KernelsComeBackOnTheWay`).
  `TypesComeBack` needs both: an argument with a type of SPIR-V is converted, the
  conversion is declared when it is written (`ConversionsDeclared`), SPIR-V takes
  the number of the declaration away with its metadata, and so the reader knows it
  by the lookup, which `EveryNameIsFound` answers for every library; what it has
  read is converted back (`ConversionsRead`).
* `Recursion`: `RecursionExists`, that a recursive definition whose argument comes
  nearer to its end defines a function, and with it the folds (`FoldExists`);
  `NumberInduction` and `LeastNumber`. The induction theorems of the library have
  an operator as a parameter and cannot be cited; these have sets and functions.

Only model-checked:

* `Returns` and `EveryFunctionLowered`, liveness under fairness, which the prover
  has no rules for;
* what depends on the postdominators and the groups of joins, both transitive
  closures over a graph: that the pass leaves code that is `Orderly` and, for code
  without scalar conditions inside simd ones, `PredicatedWhereLanesWait`. The run
  `execution` checks both for structured code; the theorems take them as hypotheses
  about the code. They cannot do without: not every function is lowered to such
  code (see Findings). For the unstructured reducible graphs of that run
  `ImplementsSource` itself is what is checked;
* `LanesOnTheirOwn`: it compares, element by element, the lowered code with a run of
  the source for each lane, through every way a walk back can go and every loop of a
  path, where values of an earlier pass are still there;
* `OverloadListsMatch` and `OperandNumbersAgree`, which are about the real table and
  have no other value of a constant to be proved for.

## Findings

Shown by a run that TLC finds violated:

* **`nested_widths`** `if (simd 2) { if (simd 4) { } }` gets no diagnostic and asks
  for one resume mask with two widths. The check of step 2 compares the branches a
  *block* depends on; `markPredicatedBranches` then overwrites the inner branch's
  width with the outer one, while its goto keeps its condition's width. The
  assertion of `getRMAddr` is what would stop it.
* **`scalar_in_simd`** `if (simd) { if (scalar) { } }`: the inner block is control
  dependent on the scalar branch only, which becomes simd after the blocks to
  predicate have been determined. It is not predicated and runs with channels
  disabled. Control flow itself is right (the run `execution` has such functions).
* **`loop_continue`** `while (scalar) { if (simd) continue; ... }`: the jump back is
  un-simded without a look at the lanes waiting below it; the loop condition may
  then leave the loop past their join.
* **`reached_end`** `if (scalar) { do { } while (simd); if (scalar) do { } while (simd); }`
  with one block after both ifs: the join after the first loop is not the last of
  its group, so it gets a JIP, but the other join is entered only from below it.
  `determineJIP` scans past the last block: the assertion "reached end" fails, and
  without assertions a null block is used. Neither unstructured code nor more than
  one width is needed; the smallest such graph has five blocks.
* **`raw_sends`** `predicateSend` declares `raw_sends` and `raw_sends_noresult` with
  the types of operands 4 and 5; the overloaded ones are 5 and 6 (operand 4 is the
  `i32` descriptor). `raw_send` is right. `OverloadListsMatch` asks about every other
  list (`SplitSends`).

`scalar_in_simd`, `loop_continue` and the join without a JIP below are the reason why the run
`execution` lays code out as a frontend does (each construct with a block of its own
at its end), has graphs that are reducible with simd branches next to a leg, asks for
`Orderly` code only where the source is structured, and asks about predication only of
code without scalar conditions inside simd ones: outside of that the pass does not keep
what it says. The theorems draw the line at the code that comes out.

Met while modelling, part of the models where their state is, with no run of their
own:

* *JIPs.* `if (simd) do { } while (scalar); else { }` with the loop left straight to
  the end: a join that is the last of its group gets no JIP, yet is reached with no
  lane to enable (comment 977-981 calls the groups sufficient). A join whose need for
  a JIP ends in a later round of `determineJIPs`, because the joins after it in its
  group are gone, keeps the JIP of the first round, to a block that is no join any
  more (`IfInIfElse` of `MCSimdCFLowering`). `JumpsToLiveJoins` is about the joins that
  need one: those and all gotos are right, whatever the rounds remove.
* *Predication.* A wrregion wider than the simd branch ends in `assert(false)`, an
  endless loop without assertions, where comment 7.a.iii promises an error
  (`GenXSimdCFLowering.cpp:1506`; phase `stuck`). A gather whose old value is not what
  its target holds writes that value to disabled channels. A masked gather outside
  of simd control flow whose value is stored inside fails the assertion at 1454.
  `lsc_load_*` have no old value, but their result is stored unpredicated once they
  are (`AlreadyPredicated`), so the `lsc` cases of `deduceNumChannels` are not reached.
  Comment 105-107 says that stores of blocks outside simd branches are not
  predicated in a subroutine; `predicateCode` predicates them. One variable for the
  masks of two unmask regions fails the assertion at 1946.
* *Table.* `lsc_prefetch2d_typed_bti` returns nothing and only reads memory, so its
  calls may be deleted (`Intrinsic_definitions.py:2681-2684`; `ReadOnlyPrefetch` in
  `VoidCallsSurvive`). `add3c` uses a type `intvector` that encodes as nothing (1890). The default
  types `any:int` of comment 29-30 would encode a further type that is read as a
  parameter. A list that is only `~P` supports nothing (comment 39). More than 32
  overloaded types overflow a byte. Two memory attributes replace each other, and
  `ArgMemOnly` is no attribute since LLVM 16. `3d_load`, `3d_sample` and
  `4bit_downconvert` sort before the marker that comment 52-53 says is first.
  `getLSCCategory` omits 14 intrinsics. Doc comments and entries differ in arity
  (`add3c`, `typed_atomic_fcmpwr`).
* *Names.* A number cached by another version of the library is believed when the
  name that number has now begins the name of the declaration: among the real
  names, 66 pairs share a beginning up to a dot and 19 without one.
* *Adaptors.* An access word without a type word is lost
  (`GenXSPIRVWriterAdaptor.cpp:397-398`, `434-435`). `image2d_media_block_t` is known as
  the first word only, comment 356-360 allows any. A surface comes back as a
  pointer, not as the `i32` a comment of the reader speaks of; an `svmptr_t` that is
  an `i64` stays a pointer; one passed by value in address space 0 loses its word; a
  global pointer without one gains it. An argument whose only user is a cast in the
  kernel comes back with the type it is cast to
  (`GenXSPIRVReaderAdaptor.cpp:357-358`). `OCLRuntime` is lost in modules without
  `genx.kernels`. If a conversion is deleted as unused on the way, a kernel keeps the
  SPIR-V type. `ArgOffset` is always 0 after reading.

## What is not modelled

* PHI nodes (`fixPHIInput`), debug locations, names of values. Switches: any
  terminator that is not a branch is `Ret` for `markPredicatedBranches`.
* Infinite loops and unreachable blocks in source functions: every block of
  `SourcePrograms` is reachable and reaches a return.
* Two branches on one call of `simdcf.any`: each branch has its own condition.
* Indirect calls; recursion diagnostics.
* Volatile globals (`initializeVolatileGlobals`, `isGlobalInterseptVol`): they ask
  for the dominance of single instructions of a whole module.
* In `Predication`: element types, strides and indirect regions, addresses, `vload`
  and `vstore` apart from load and store; lifetime markers.
* The single element vector utility: a rewriting of the type of every value,
  instruction by instruction, with no order or state a model would add to a reading
  of the code. `AdaptorsCommon` (element types of pointers) likewise.
* Building LLVM types from descriptors and the mangling of types into names;
  collisions in `setName`.
* LLVM before 17 in the adaptors (typed pointers, opaque structures, names of
  types), the target triple, `legalizeParamAttributes`, `FixAttributes`, users in
  annotations, the attribute `VCFunction` of the declaration of `address_convert`.
* `Intrinsics.py:216-326` (GenISA functions nothing calls) and the text around the
  tables; metadata names, the wrappers of LLVM, the plugin, the build of the docs.

## What could follow

That structured code is lowered to `Orderly` code, as a theorem: it needs the
postdominator and the groups of joins of a construct, by induction over the nesting.
`LanesOnTheirOwn` as a theorem; `initializeVolatileGlobals` on a model of
instructions in a dominator tree; `SimdCFLowering` for two functions in a row, with
the maps that are not cleared (`JIPs`, `JoinToGoto`); a width of 4 in `predicated_code`.
