---------------------------- MODULE KernelArguments ----------------------------
(***************************************************************************)
(* GenXSPIRVWriterAdaptor and GenXSPIRVReaderAdaptor: a module of the      *)
(* front end is made fit for the SPIR-V translator, and after the way back *)
(* its kernels are described again as the back end expects them.           *)
(*                                                                         *)
(* A function is a record: its name and calling convention, its attributes *)
(* (pairs of a name and a value), the subgroup size of its metadata, if it *)
(* is called, and its arguments. An argument has a type, byval or not, the *)
(* attributes the adaptors give it (NoKind, NoDesc, when it has none), and *)
(* what its only user, if it has one, casts it to. Types of SPIR-V are     *)
(* target extension types: LLVM 17 and later.                              *)
(***************************************************************************)
EXTENDS Integers, Sequences, FiniteSets

CONSTANT Modules  \* the modules of the front end: functions, kernels, globals

VARIABLES
  phase,        \* what runs, or has run
  passed,       \* functions its loop has passed
  functions,
  genx_kernels, \* the old-style metadata: records, or NoMetadata
  globals,      \* the attributes of global variables
  Given         \* the module as it was

adaptors == <<phase, passed, functions, genx_kernels, globals, Given>>

NoMetadata == <<>>
NoKind == -1
NoDesc == <<"no attribute">>
None == <<"none">>

-----------------------------------------------------------------------------
(* AdaptorsCommon.h.                                                       *)

General == 0
Sampler == 1
Surface == 2

\* The words of a description with a meaning: a type, an access.
SPIRVType ==
  [buffer_t |-> "Buffer", image1d_t |-> "Image1d", image1d_array_t |-> "Image1dArray",
   image1d_buffer_t |-> "Image1dBuffer", image2d_t |-> "Image2d",
   image2d_array_t |-> "Image2dArray", image2d_media_block_t |-> "Image2d",
   image3d_t |-> "Image3d", svmptr_t |-> "Pointer", sampler_t |-> "Sampler"]

AccessType == [read_only |-> 0, write_only |-> 1, read_write |-> 2]

SPIRVArgDesc(Ty, Acc) == [Ty |-> Ty, Acc |-> Acc]
ReadWrite(Ty) == SPIRVArgDesc(Ty, 2)

SPIRVGlobalAS == 1
SPIRVGenericAS == 4
getOpaqueTypeAddressSpace(Ty) ==
  CASE Ty = "Sampler" -> 2
    [] Ty \in {"None", "Other", "Pointer"} -> 0
    [] OTHER -> SPIRVGlobalAS

\* The number of a dimension, and if the image is an array.
Dimensions ==
  [Image1d |-> <<0, 0>>, Image1dArray |-> <<0, 1>>, Image1dBuffer |-> <<5, 0>>,
   Image2d |-> <<1, 0>>, Image2dArray |-> <<1, 1>>, Image3d |-> <<2, 0>>]

Pointer(AS) == <<"ptr", AS>>
IsPointer(type) == type[1] = "ptr"
IsTargetExt(type) == type[1] \in {"Sampler", "Buffer", "Image"}

\* A sequence of n elements.
IsList(s, n) == n \in Nat /\ s = [k \in 1..n |-> s[k]]

-----------------------------------------------------------------------------
(* The writer: descriptions to types.                                      *)

\* Mutant: the last word that is a type.
LastWords(Desc) ==
  LET last(map) == LET at == {k \in 1..Len(Desc) : Desc[k] \in DOMAIN map}
                   IN  IF at = {} THEN {}
                       ELSE {map[Desc[CHOOSE k \in at : \A j \in at : k >= j]]}
  IN  IF last(SPIRVType) = {} THEN ReadWrite("Other")
      ELSE SPIRVArgDesc(CHOOSE t \in last(SPIRVType) : TRUE,
                        IF last(AccessType) = {} THEN 2
                        ELSE CHOOSE x \in last(AccessType) : TRUE)

\* The first word that is a type and the first that is an access.
parseArgDesc(Desc) ==
  LET first(map) == LET at == {k \in 1..Len(Desc) : Desc[k] \in DOMAIN map}
                    IN  IF at = {} THEN {}
                        ELSE {map[Desc[CHOOSE k \in at : \A j \in at : k <= j]]}
      Ty    == first(SPIRVType)
      AccTy == first(AccessType)
  IN  IF Ty = {} THEN ReadWrite("Other")
      ELSE SPIRVArgDesc(CHOOSE t \in Ty : TRUE,
                        IF AccTy = {} THEN 2 ELSE CHOOSE a \in AccTy : TRUE)

\* Mutant: an implicit argument is like a general one.
ImplicitAsGeneral(Kind, Desc) ==
  LET d == parseArgDesc(Desc)
  IN  CASE Kind = Sampler -> ReadWrite("Sampler")
        [] Kind = Surface -> IF d.Ty = "Other" THEN ReadWrite("Buffer") ELSE d
        [] OTHER          -> IF d.Ty = "Pointer" THEN d ELSE ReadWrite("Other")

\* analyzeGeneralArg, analyzeSurfaceArg, analyzeSamplerArg. A description that
\* does not fit a sampler or a surface is llvm_unreachable.
analyzeArgumentAttributes(Kind, Desc) ==
  LET d == parseArgDesc(Desc)
  IN  CASE Kind = General -> IF d.Ty = "Pointer" THEN d ELSE ReadWrite("Other")
        [] Kind = Sampler -> ReadWrite("Sampler")
        [] Kind = Surface -> IF d.Ty = "Other" THEN ReadWrite("Buffer") ELSE d
        [] OTHER          -> ReadWrite("None")

\* analyzeKernelArg of the writer.
WriterDesc(arg) ==
  IF arg.kind = NoKind THEN ReadWrite("None")
  ELSE analyzeArgumentAttributes(arg.kind, IF arg.desc = NoDesc THEN <<>> ELSE arg.desc)

\* Mutant: byval is not asked for.
TypeOfEveryPointer(d, arg) ==
  CASE d.Ty = "Sampler"           -> <<"Sampler">>
    [] d.Ty = "Buffer"            -> <<"Buffer", d.Acc>>
    [] d.Ty \in DOMAIN Dimensions -> <<"Image", Dimensions[d.Ty], d.Acc>>
    [] d.Ty = "Pointer"           -> Pointer(SPIRVGlobalAS)
    [] OTHER                      -> arg.type

getArgTargetTypeFromDesc(d, arg) ==
  CASE d.Ty = "Sampler"              -> <<"Sampler">>
    [] d.Ty = "Buffer"               -> <<"Buffer", d.Acc>>
    [] d.Ty \in DOMAIN Dimensions    -> <<"Image", Dimensions[d.Ty], d.Acc>>
    [] d.Ty = "Pointer" /\ ~arg.byval -> Pointer(SPIRVGlobalAS)
    [] OTHER                         -> arg.type

\* rewriteArgumentUses: the only user of the new argument, and its type.
conversion(OldTy, NewTy) ==
  IF IsPointer(OldTy) /\ IsPointer(NewTy)
    THEN IF OldTy[2] = SPIRVGenericAS \/ NewTy[2] = SPIRVGenericAS
           THEN <<"addrspacecast", OldTy>> ELSE None  \* through i64
  ELSE IF OldTy = <<"i64">> /\ IsPointer(NewTy) THEN None
  ELSE <<"address_convert", OldTy>>

\* transformKernelSignature and rewriteArgumentUses, for one argument.
WriteArgument(arg) ==
  LET d == WriterDesc(arg)
      type == getArgTargetTypeFromDesc(d, arg)
      block == /\ d.Ty = "Image2d"
               /\ arg.desc # <<>> /\ arg.desc[1] = "image2d_media_block_t"
      typed == [arg EXCEPT !.type = type,
                           !.user = IF type = arg.type THEN arg.user
                                                       ELSE conversion(arg.type, type)]
  IN  IF d.Ty = "None" THEN arg
      ELSE [typed EXCEPT !.kind = NoKind, !.desc = NoDesc,
                         !.block = block \/ arg.block]

\* rewriteKernelArguments: kernels that are called are left alone.
WriteKernel(F) ==
  IF F.cc = "SPIR_KERNEL" /\ ~F.used
    THEN [F EXCEPT !.args = [k \in 1..Len(F.args) |-> WriteArgument(F.args[k])]]
    ELSE F

-----------------------------------------------------------------------------
(* The writer: metadata to attributes.                                     *)

\* The value of an attribute that has none is 0.
cmToVC == [CMStackCall |-> "VCStackCall", CMCallable |-> "VCCallable",
           CMEntry |-> "VCFCEntry", CMGenxSIMT |-> "VCSIMTCall",
           CMFloatControl |-> "VCFloatControl"]

Has(F, name) == \E a \in F.attributes : a[1] = name
ValueOf(F, name) == (CHOOSE a \in F.attributes : a[1] = name)[2]

\* KernelMDOp: the place of an operand of the metadata of a kernel.
SLMSizeOp == 3
ArgIOKindsOp == 5
ArgTypeDescsOp == 6
NBarrierCntOp == 7

\* A kernel as its metadata says; a field is there when the node has it.
DescribeArgument(arg, MD, k) ==
  [arg EXCEPT
     !.kind   = IF k <= Len(MD.kinds) THEN MD.kinds[k] ELSE @,
     !.iokind = IF MD.operands > ArgIOKindsOp /\ k <= Len(MD.iokinds)
                  THEN MD.iokinds[k] ELSE @,
     !.desc   = IF MD.operands > ArgTypeDescsOp /\ k <= Len(MD.descs)
                  THEN MD.descs[k] ELSE @]

ApplyMetadata(F, MD) ==
  [F EXCEPT
     !.cc = "SPIR_KERNEL",
     !.name = MD.name,
     !.attributes = @ \cup {<<"VCSLMSize", MD.slm>>}
       \cup IF MD.operands > NBarrierCntOp THEN {<<"VCNamedBarrierCount", MD.barriers>>}
                                           ELSE {},
     !.args = [k \in 1..Len(@) |-> DescribeArgument(@[k], MD, k)]]

\* GetOldStyleKernelMD.
KernelMDs(kernels, k) == {j \in 1..Len(kernels) : kernels[j].function = k}

\* runOnFunction of the writer, for function number k.
WriterRunOnFunction(F, kernels, k) ==
  LET common == [F EXCEPT !.attributes = @ \cup {<<"VCFunction", 0>>}
                   \cup {<<cmToVC[a[1]], a[2]>> : a \in {b \in @ : b[1] \in DOMAIN cmToVC}}]
      sized == IF Has(F, "OCLRuntime")
                 THEN [common EXCEPT !.simd = ValueOf(F, "OCLRuntime")] ELSE common
  IN  IF kernels = NoMetadata THEN common
      ELSE IF KernelMDs(kernels, k) = {} THEN sized
      ELSE ApplyMetadata(sized, kernels[CHOOSE j \in KernelMDs(kernels, k) : TRUE])

-----------------------------------------------------------------------------
(* The reader: types to descriptions.                                      *)

\* evaluateImageTypeFromSPVIR.
ImageType(dim) == CHOOSE Ty \in DOMAIN Dimensions : Dimensions[Ty] = dim

\* analyzeKernelArg of the reader: analyzeTargetExtTypeArg, and pointers.
ReaderDesc(arg) ==
  IF arg.kind # NoKind THEN ReadWrite("None")
  ELSE CASE arg.type[1] = "Sampler" -> ReadWrite("Sampler")
         [] arg.type[1] = "Buffer"  -> SPIRVArgDesc("Buffer", arg.type[2])
         [] arg.type[1] = "Image"   -> SPIRVArgDesc(ImageType(arg.type[2]), arg.type[3])
         [] IsPointer(arg.type) /\ arg.type[2] \in {1, 2} -> ReadWrite("Pointer")
         [] OTHER                   -> ReadWrite("Other")

mapSPIRVTypeToArgKind(Ty) ==
  CASE Ty = "Sampler" -> Sampler
    [] Ty \in {"Pointer", "Other"} -> General
    [] OTHER -> Surface

\* The word of an access, of a type.
Access(Acc) == CHOOSE word \in DOMAIN AccessType : AccessType[word] = Acc
TypeWord(Ty, block) ==
  IF Ty = "Image2d" THEN IF block THEN "image2d_media_block_t" ELSE "image2d_t"
  ELSE CHOOSE word \in DOMAIN SPIRVType : SPIRVType[word] = Ty

mapSPIRVDescToArgDesc(d, IsMediaBlock) ==
  CASE d.Ty = "Other" -> <<>>
    [] d.Ty \in {"Sampler", "Pointer"} -> <<TypeWord(d.Ty, FALSE)>>
    [] OTHER -> <<TypeWord(d.Ty, IsMediaBlock), Access(d.Acc)>>

\* Mutant: the reader knows one cast alone.
OriginalOfCast(arg, converts) ==
  IF arg.user[1] = "addrspacecast" THEN arg.user ELSE None

\* getOriginalValue: the user that casts, when "converts" knows the call.
Original(arg, converts) ==
  IF arg.user[1] \in {"addrspacecast", "bitcast", "inttoptr"}
                       \cup (IF converts THEN {"address_convert"} ELSE {})
    THEN arg.user ELSE None

\* The type of the argument in the restored kernel.
RestoredType(arg, converts) ==
  LET original == Original(arg, converts)
  IN  CASE original = None -> arg.type
        [] original[1] = "address_convert" ->
             IF IsTargetExt(arg.type)
               THEN Pointer(getOpaqueTypeAddressSpace(ReaderDesc(arg).Ty))
             ELSE IF arg.byval THEN original[2] ELSE arg.type
        [] OTHER -> original[2]

ReadArgument(arg, converts) ==
  LET d == ReaderDesc(arg)
      restored == [arg EXCEPT
        !.type = RestoredType(arg, converts),
        !.user = IF Original(arg, converts) = None THEN arg.user ELSE None]
  IN  IF d.Ty = "None" THEN restored
      ELSE [restored EXCEPT !.kind = mapSPIRVTypeToArgKind(d.Ty),
                            !.desc = mapSPIRVDescToArgDesc(d, arg.block)]

\* rewriteKernelArguments of the reader: a kernel with attributes on all its
\* arguments is not touched.
ReadKernel(F, converts) ==
  IF /\ F.cc = "SPIR_KERNEL" /\ Has(F, "VCFunction")
     /\ \E k \in 1..Len(F.args) : ReaderDesc(F.args[k]).Ty # "None"
    THEN [F EXCEPT !.args = [k \in 1..Len(F.args) |-> ReadArgument(F.args[k], converts)]]
    ELSE F

-----------------------------------------------------------------------------
(* The reader: attributes to metadata.                                     *)

vcNames == {cmToVC[name] : name \in DOMAIN cmToVC}
cmOf(name) == CHOOSE cm \in DOMAIN cmToVC : cmToVC[cm] = name

\* Mutants: the values are dropped; VCFunction stays.
RestoreNamesAlone(F) ==
  [F EXCEPT !.attributes =
     {a \in @ : a[1] \notin vcNames \cup {"VCFunction"}}
       \cup {<<cmOf(a[1]), 0>> : a \in {b \in @ : b[1] \in vcNames}}
       \cup IF F.simd # 0 THEN {<<"OCLRuntime", F.simd>>} ELSE {}]
KeepVCFunction(F) ==
  [F EXCEPT !.attributes =
     {a \in @ : a[1] \notin vcNames}
       \cup {<<cmOf(a[1]), a[2]>> : a \in {b \in @ : b[1] \in vcNames}}
       \cup IF F.simd # 0 THEN {<<"OCLRuntime", F.simd>>} ELSE {}]

\* processVCFunctionAttributes.
RestoreAttributes(F) ==
  [F EXCEPT !.attributes =
     {a \in @ : a[1] \notin vcNames \cup {"VCFunction"}}
       \cup {<<cmOf(a[1]), a[2]>> : a \in {b \in @ : b[1] \in vcNames}}
       \cup IF F.simd # 0 THEN {<<"OCLRuntime", F.simd>>} ELSE {}]

\* processVCKernelAttributes: what the function loses, and its metadata.
ForgetKernelAttributes(F) ==
  [F EXCEPT
     !.attributes = {a \in @ : a[1] \notin {"VCSLMSize", "VCNamedBarrierCount"}}
                      \cup {<<"CMGenXMain", 0>>},
     !.args = [k \in 1..Len(@) |-> [@[k] EXCEPT !.kind = NoKind, !.iokind = NoKind,
                                               !.desc = NoDesc, !.block = FALSE]]]

KernelMD(F, k) ==
  LET arg(j) == F.args[j]
      places == 1..Len(F.args)
      value(name) == IF Has(F, name) THEN ValueOf(F, name) ELSE 0
  IN  [function |-> k, name |-> F.name, operands |-> 8, offset |-> 0,
       kinds    |-> [j \in places |-> IF arg(j).kind = NoKind THEN 0 ELSE arg(j).kind],
       iokinds  |-> [j \in places |-> IF arg(j).iokind = NoKind THEN 0 ELSE arg(j).iokind],
       descs    |-> [j \in places |-> IF arg(j).desc = NoDesc THEN <<>> ELSE arg(j).desc],
       slm      |-> value("VCSLMSize"),
       barriers |-> value("VCNamedBarrierCount")]

-----------------------------------------------------------------------------
(* The passes over a module.                                               *)

Functions == 1..Len(functions)

\* What a front end makes. Arguments and functions have nothing of the adaptors
\* yet, and the attributes of CM. No value of a type of SPIR-V is cast.
FrontEndArgument(arg) ==
  /\ arg = [type |-> arg.type, byval |-> arg.byval, user |-> arg.user, kind |-> NoKind,
            iokind |-> NoKind, desc |-> NoDesc, block |-> FALSE]
  /\ IsPointer(arg.type) => arg.type = Pointer(arg.type[2])
  /\ IsTargetExt(arg.type) => arg.user = None

FrontEndFunction(F, kernel) ==
  /\ F = [name |-> F.name, cc |-> F.cc, attributes |-> F.attributes, simd |-> 0,
          used |-> F.used, args |-> F.args]
  /\ F.cc # "SPIR_KERNEL" /\ F.used \in BOOLEAN
  /\ IsList(F.args, Len(F.args))
  /\ \A a \in 1..Len(F.args) : FrontEndArgument(F.args[a])
  /\ \A x \in F.attributes :
       /\ x = <<x[1], x[2]>>
       /\ x[1] \in DOMAIN cmToVC \cup {"CMGenXMain", "OCLRuntime"}
       /\ x[1] \in {"CMStackCall", "CMCallable", "CMEntry"} => x[2] = 0
       /\ x[1] = "OCLRuntime" => \A y \in F.attributes : x[1] = y[1] => x = y
       /\ x # <<"OCLRuntime", 0>>
  /\ {x \in F.attributes : x[1] = "CMGenXMain"} = IF kernel THEN {<<"CMGenXMain", 0>>} ELSE {}

\* The metadata of a kernel has a kind for each argument, and words that fit it.
FrontEndKernel(F, MD) ==
  /\ IsList(MD.kinds, Len(F.args)) /\ IsList(MD.iokinds, Len(F.args))
  /\ IsList(MD.descs, Len(F.args))
  /\ \A a \in 1..Len(F.args) :
       LET desc == MD.descs[a]
       IN  /\ MD.kinds[a] # NoKind /\ MD.iokinds[a] # NoKind /\ desc # NoDesc
           /\ IsList(desc, Len(desc))
           /\ MD.kinds[a] = General => ~IsTargetExt(F.args[a].type)
           /\ MD.kinds[a] = Surface => parseArgDesc(desc).Ty \notin {"Sampler", "Pointer"}

ASSUME ModulesAssumption ==
  \A m \in Modules :
    /\ IsList(m.functions, Len(m.functions)) /\ IsList(m.kernels, Len(m.kernels))
    /\ IsList(m.globals, Len(m.globals))
    /\ \A g \in 1..Len(m.globals) : m.globals[g] \cap {"VCVolatile", "VCByteOffset"} = {}
    /\ \A k \in 1..Len(m.functions) :
         FrontEndFunction(m.functions[k], KernelMDs(m.kernels, k) # {})
    /\ \A i, j \in 1..Len(m.kernels) :
         /\ m.kernels[i].function \in 1..Len(m.functions)
         /\ m.kernels[i].function = m.kernels[j].function => i = j
         /\ FrontEndKernel(m.functions[m.kernels[i].function], m.kernels[i])

AdaptorsInit ==
  /\ Given \in Modules
  /\ functions = Given.functions
  /\ genx_kernels = Given.kernels
  /\ globals = Given.globals
  /\ phase = "front_end"
  /\ passed = 0

Loop(from, to) == phase = from /\ phase' = to /\ passed' = 0 /\ UNCHANGED Given
Step(at) == /\ phase = at /\ passed < Len(functions) /\ passed' = passed + 1
            /\ UNCHANGED <<phase, Given>>
End(at) == passed = Len(functions) /\ Loop(at[1], at[2])

\* GenXSPIRVWriterAdaptorImpl::run, the globals.
WriteGlobals ==
  /\ Loop("front_end", "write_functions")
  /\ globals' = [g \in 1..Len(globals) |->
                   globals[g] \cup {"VCGlobalVariable"}
                     \cup (IF "genx_volatile" \in globals[g] THEN {"VCVolatile"} ELSE {})
                     \cup (IF "genx_byte_offset" \in globals[g] THEN {"VCByteOffset"} ELSE {})]
  /\ UNCHANGED <<functions, genx_kernels>>

WriteFunction ==
  /\ Step("write_functions")
  /\ functions' = [functions EXCEPT ![passed + 1] =
                     WriterRunOnFunction(@, genx_kernels, passed + 1)]
  /\ UNCHANGED <<genx_kernels, globals>>

EraseKernels ==
  /\ End(<<"write_functions", "write_kernels">>)
  /\ genx_kernels' = NoMetadata
  /\ UNCHANGED <<functions, globals>>

RewriteKernel ==
  /\ Step("write_kernels")
  /\ functions' = [functions EXCEPT ![passed + 1] = WriteKernel(functions[passed + 1])]
  /\ UNCHANGED <<genx_kernels, globals>>

EndWriter ==
  /\ End(<<"write_kernels", "written">>)
  /\ UNCHANGED <<functions, genx_kernels, globals>>

\* The translator to SPIR-V and back: attributes it does not know are lost.
\* A conversion that nobody uses may be lost too.
KnownToSPIRV == vcNames \cup {"VCFunction", "VCSLMSize", "VCNamedBarrierCount"}
Translated(F, unused) ==
  [F EXCEPT !.attributes = {a \in @ : a[1] \in KnownToSPIRV},
            !.args = [k \in 1..Len(@) |->
                        IF unused THEN [@[k] EXCEPT !.user = None] ELSE @[k]]]

Translate ==
  /\ phase = "written"
  /\ phase' = "translated"
  /\ \E unused \in SUBSET Functions :
       functions' = [k \in Functions |-> Translated(functions[k], k \in unused)]
  /\ globals' = [g \in 1..Len(globals) |->
                   globals[g] \ {"genx_volatile", "genx_byte_offset"}]
  /\ UNCHANGED <<passed, genx_kernels, Given>>

\* GenXSPIRVReaderAdaptorImpl::run: a module with old-style metadata is left
\* alone, one of the front end or one that has been read.
SkipReader ==
  /\ genx_kernels # NoMetadata
  /\ Loop("front_end", "skipped") \/ Loop("read", "skipped")
  /\ UNCHANGED <<functions, genx_kernels, globals>>

ReadGlobals ==
  /\ genx_kernels = NoMetadata
  /\ Loop("translated", "read_kernels")
  /\ globals' = [g \in 1..Len(globals) |->
                   IF "VCGlobalVariable" \notin globals[g] THEN globals[g]
                   ELSE globals[g]
                     \cup (IF "VCVolatile" \in globals[g] THEN {"genx_volatile"} ELSE {})
                     \cup (IF "VCByteOffset" \in globals[g] THEN {"genx_byte_offset"} ELSE {})]
  /\ UNCHANGED <<functions, genx_kernels>>

RestoreKernel(converts) ==
  /\ Step("read_kernels")
  /\ functions' = [functions EXCEPT ![passed + 1] = ReadKernel(functions[passed + 1], converts)]
  /\ UNCHANGED <<genx_kernels, globals>>

EndKernels ==
  /\ End(<<"read_kernels", "read_functions">>)
  /\ UNCHANGED <<functions, genx_kernels, globals>>

\* runOnFunction of the reader.
ReadFunction ==
  /\ Step("read_functions")
  /\ LET F == functions[passed + 1]
         G == RestoreAttributes(F)
     IN  IF ~Has(F, "VCFunction") THEN UNCHANGED <<functions, genx_kernels>>
         ELSE IF F.cc # "SPIR_KERNEL"
           THEN /\ functions' = [functions EXCEPT ![passed + 1] = G]
                /\ UNCHANGED genx_kernels
         ELSE /\ functions' = [functions EXCEPT ![passed + 1] = ForgetKernelAttributes(G)]
              /\ genx_kernels' = Append(genx_kernels, KernelMD(G, passed + 1))
  /\ UNCHANGED globals

EndReader ==
  /\ End(<<"read_functions", "read">>)
  /\ UNCHANGED <<functions, genx_kernels, globals>>

\* The steps that declare no intrinsic and look for none.
AdaptorStep ==
  \/ WriteGlobals \/ WriteFunction \/ EraseKernels \/ EndWriter
  \/ SkipReader \/ ReadGlobals \/ EndKernels \/ ReadFunction \/ EndReader

\* The adaptors by themselves: whether the reader knows a conversion is open.
AdaptorsNext ==
  \/ AdaptorStep
  \/ RewriteKernel
  \/ Translate
  \/ \E converts \in BOOLEAN : RestoreKernel(converts)

AdaptorsSpec == AdaptorsInit /\ [][AdaptorsNext]_adaptors

-----------------------------------------------------------------------------
(* Properties.                                                             *)

\* The metadata of a kernel of the module as it was, and now.
Before(k) == CHOOSE MD \in {Given.kernels[j] : j \in 1..Len(Given.kernels)} : MD.function = k
After(k)  == CHOOSE MD \in {genx_kernels[j] : j \in 1..Len(genx_kernels)} : MD.function = k
KernelsBefore == {Given.kernels[j].function : j \in 1..Len(Given.kernels)}

KindBefore(k, a) == Before(k).kinds[a]
DescBefore(k, a) ==
  IF Before(k).operands > ArgTypeDescsOp THEN Before(k).descs[a] ELSE <<>>
\* An argument that is rewritten on the way; the others keep their words.
Rewritten(k, a) == ~Given.functions[k].used /\ KindBefore(k, a) \in {General, Sampler, Surface}

\* Both adaptors: the back end finds the kernels of the front end, with the names,
\* sizes and kinds that the front end gave them, and no others. Implicit
\* arguments and the arguments of kernels that are called keep theirs.
KernelsRestored ==
  phase = "read" =>
    /\ {genx_kernels[j].function : j \in 1..Len(genx_kernels)} = KernelsBefore
    /\ Len(genx_kernels) = Cardinality(KernelsBefore)
    /\ \A k \in KernelsBefore :
         /\ After(k).name = Before(k).name
         /\ After(k).slm = Before(k).slm
         /\ Before(k).operands > NBarrierCntOp => After(k).barriers = Before(k).barriers
         /\ After(k).kinds = Before(k).kinds
         /\ Before(k).operands > ArgIOKindsOp => After(k).iokinds = Before(k).iokinds
         /\ \A a \in 1..Len(After(k).descs) :
              ~Rewritten(k, a) => After(k).descs[a] = DescBefore(k, a)

\* What a description says, read alone: the first of some words in it, and a
\* default where there is none.
FirstOf(desc, words, default) ==
  LET at == {k \in 1..Len(desc) : desc[k] \in words}
  IN  IF at = {} THEN default ELSE desc[CHOOSE k \in at : \A j \in at : k <= j]

SaysType(desc) == \E k \in 1..Len(desc) : desc[k] \in DOMAIN SPIRVType
DeclaredSurface(desc) ==
  LET type == FirstOf(desc, DOMAIN SPIRVType, "buffer_t")
  IN  <<IF type = "image2d_media_block_t" /\ desc[1] # type THEN "image2d_t" ELSE type,
        IF SaysType(desc) THEN FirstOf(desc, DOMAIN AccessType, "read_write")
                          ELSE "read_write">>

\* Both adaptors: a surface comes back with the first type and the first access
\* among its words, in whichever order and whatever stands between them; a block
\* read stays one when its word is the first. Without a type it is a buffer that
\* is read and written, whatever access it declares.
SurfacesRestored ==
  phase = "read" =>
    \A k \in KernelsBefore : \A a \in 1..Len(After(k).kinds) :
      KindBefore(k, a) = Surface /\ Rewritten(k, a) =>
        After(k).descs[a] = DeclaredSurface(DescBefore(k, a))

\* A general argument is a pointer of the kernel's user (svmptr_t) when it was
\* one and not passed by value, or when its type is a pointer to global memory.
PointersRestored ==
  phase = "read" =>
    \A k \in KernelsBefore : \A a \in 1..Len(After(k).kinds) :
      LET arg == Given.functions[k].args[a]
          svm == /\ FirstOf(DescBefore(k, a), DOMAIN SPIRVType, "") = "svmptr_t"
                 /\ ~arg.byval
      IN  KindBefore(k, a) = General /\ Rewritten(k, a) =>
              (After(k).descs[a] = <<"svmptr_t">>
                 <=> svm \/ arg.type \in {Pointer(1), Pointer(2)})

\* The attributes of functions and variables come back, though SPIR-V has lost
\* them. (OCLRuntime does not in a module that has no kernel.)
AttributesRestored ==
  phase = "read" =>
    /\ \A k \in Functions :
         {a \in functions[k].attributes : a[1] # "OCLRuntime" \/ KernelsBefore # {}} =
         {a \in Given.functions[k].attributes : a[1] # "OCLRuntime" \/ KernelsBefore # {}}
    /\ \A g \in 1..Len(globals) :
         globals[g] \cap {"genx_volatile", "genx_byte_offset"} =
         Given.globals[g] \cap {"genx_volatile", "genx_byte_offset"}

\* "RUN: opt -passes=GenXSPIRVWriterAdaptor,GenXSPIRVWriterAdaptor": the writer
\* has nothing to do in a module it has written; nor the reader in one that it
\* has read, with kernels or without.
AdaptorsIdempotent ==
  /\ phase = "written" =>
       \A k \in Functions :
         /\ WriterRunOnFunction(functions[k], genx_kernels, k) = functions[k]
         /\ WriteKernel(functions[k]) = functions[k]
  /\ phase = "read" /\ genx_kernels = NoMetadata =>
       \A k \in Functions : ~Has(functions[k], "VCFunction")

\* Types of SPIR-V are gone from the kernels, unless the argument was of such a
\* type before or its conversion was lost on the way: the reader knows a call of
\* address_convert, whichever version of the library it has.
TypesRestored ==
  phase = "read" =>
    \A k \in Functions : \A a \in 1..Len(functions[k].args) :
      LET arg == functions[k].args[a]
      IN  IsTargetExt(arg.type) => arg.user = None
=============================================================================
