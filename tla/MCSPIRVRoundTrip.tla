---------------------------- MODULE MCSPIRVRoundTrip ----------------------------
(***************************************************************************)
(* Modules of a kernel with one argument of every kind and description,    *)
(* and of two functions; two versions of a library in which "a" begins     *)
(* other names and the underscore changes the order.                       *)
(***************************************************************************)
EXTENDS SPIRVRoundTrip

-----------------------------------------------------------------------------
(* Intrinsics. The letters a, b and the digit 3.                           *)

a == 11
b == 12
d3 == 1

V1 == {<<a>>, <<a, d3>>, <<a, Underscore, b>>}
V2 == V1 \cup {<<d3>>, <<a, d3, b>>}
MCLibraries == {V1, V2}
MCOverloaded == {<<a>>, <<a, d3>>}
MCSuffixes == {<<Dot, a, d3>>}
MCAddressConvert == <<a, d3>>
MCConvertTypes == <<Dot, a, d3>>

-----------------------------------------------------------------------------
(* Kernels.                                                                *)

Arg(type, byval, user) ==
  [type |-> type, byval |-> byval, user |-> user, kind |-> NoKind,
   iokind |-> NoKind, desc |-> NoDesc, block |-> FALSE]

\* An argument, its kind and its words.
Plain(type, kind, desc) ==
  [arg |-> Arg(type, FALSE, None), kind |-> kind, desc |-> desc]

SurfaceWords == DOMAIN SPIRVType \ {"svmptr_t", "sampler_t"}
Surfaces ==
  {Plain(<<"i32">>, Surface, desc) :
     desc \in {<<>>, <<"some", "words">>, <<"read_only">>} \cup {<<t>> : t \in SurfaceWords}
       \cup {<<t, x>> : t \in SurfaceWords, x \in DOMAIN AccessType}
       \cup {<<"read_only", "other", t, "write_only">> : t \in SurfaceWords}
       \cup {<<"image2d_t", "buffer_t", "read_only", "read_write">>}}
  \cup {Plain(<<"Image", <<1, 0>>, 2>>, Surface, <<"image2d_t">>)}

Samplers == {Plain(<<"i32">>, Sampler, desc) :
               desc \in {<<>>, <<"sampler_t">>, <<"read_only", "sampler_t">>}}

Generals ==
  {Plain(type, General, desc) :
     type \in {<<"i32">>, <<"i64">>, Pointer(0), Pointer(1), Pointer(4)},
     desc \in {<<>>, <<"svmptr_t">>, <<"svmptr_t", "write_only">>, <<"image2d_t">>}}
  \cup {[arg |-> Arg(Pointer(as), TRUE, None), kind |-> General, desc |-> <<"svmptr_t">>]
          : as \in {0, 1}}
  \cup {[arg |-> Arg(Pointer(1), FALSE, <<"addrspacecast", Pointer(4)>>),
         kind |-> General, desc |-> desc] : desc \in {<<>>, <<"svmptr_t">>}}
  \cup {[arg |-> Arg(<<"i64">>, FALSE, <<"inttoptr", Pointer(1)>>),
         kind |-> General, desc |-> desc] : desc \in {<<>>, <<"svmptr_t">>}}

Implicit == Plain(<<"v3i32">>, 24, <<>>)

Inputs == Surfaces \cup Samplers \cup Generals

Function(name, attrs, used, inputs) ==
  [name |-> name, cc |-> "C", attributes |-> attrs, simd |-> 0, used |-> used,
   args |-> [k \in 1..Len(inputs) |-> inputs[k].arg]]

MetadataOf(name, inputs, operands) ==
  [function |-> 1, name |-> name, operands |-> operands, offset |-> 0, slm |-> 4,
   kinds |-> [k \in 1..Len(inputs) |-> inputs[k].kind],
   iokinds |-> [k \in 1..Len(inputs) |-> 2],
   descs |-> [k \in 1..Len(inputs) |-> inputs[k].desc],
   barriers |-> 3]

KernelModule(inputs, used, operands, others, attributes) ==
  [functions |-> <<Function("mangled", {<<"CMGenXMain", 0>>} \cup attributes,
                            used, inputs)>> \o others,
   kernels |-> <<MetadataOf("kernel", inputs, operands)>>,
   globals |-> <<{"genx_volatile", "genx_byte_offset"}, {}>>]

Helper == Function("helper", {<<"CMStackCall", 0>>, <<"CMGenxSIMT", 8>>,
                              <<"OCLRuntime", 16>>}, FALSE, <<>>)
Buffer == Plain(<<"i32">>, Surface, <<"buffer_t">>)

MCModules ==
  {KernelModule(<<x>>, FALSE, 8, <<>>, {}) : x \in Inputs}
  \cup {KernelModule(<<Buffer, Implicit>>, used, operands, <<Helper>>,
                     {<<"OCLRuntime", 8>>, <<"CMFloatControl", 48>>,
                      <<"CMCallable", 0>>, <<"CMEntry", 0>>})
          : used \in BOOLEAN, operands \in {5, 6, 7, 8}}
  \cup {[functions |-> <<Helper>>, kernels |-> NoMetadata, globals |-> <<>>]}
=============================================================================
