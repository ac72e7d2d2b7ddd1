------------------------- MODULE IntrinsicDefinitions -------------------------
(***************************************************************************)
(* The table of GenX intrinsics, include/llvm/GenXIntrinsics/              *)
(* Intrinsic_definitions.py: for each its result types, its argument types,*)
(* its attributes and the platforms that support it. The generator         *)
(* (IntrinsicTables) turns it into the tables GenXIntrinsics.cpp reads.    *)
(*                                                                         *)
(* A type is written as in the source, a string; "=k" is a reference to    *)
(* the k-th overloaded type of the same signature (an integer there).      *)
(* A platform expression such as "Xe3P+" is the pair of its operator and   *)
(* its platform. Intrinsics of one signature are written as one family.    *)
(***************************************************************************)
EXTENDS Naturals, Sequences

\* Arguments of the same type in a row.
Rep(type, n) == [k \in 1..n |-> type]

\* Intrinsics that differ by their names only.
Family(names, result, arguments, attributes, platforms) ==
  [k \in 1..Len(names) |->
     [name |-> names[k], result |-> result, arguments |-> arguments,
      attributes |-> attributes, platforms |-> platforms]]

\* The field "platforms" is absent; it is "-Xe2".
Everywhere == <<>>
BeforeXe2  == <<<<"-", "Xe2">>>>

\* The markers of the enumeration.
Markers ==
     Family(<<"aaaabegin", "zzzzend">>, <<"anyvector">>, <<>>, <<"None">>,
          Everywhere)

\* Stack allocation and function addresses.
Addresses ==
     Family(<<"alloca">>, <<"anyint">>, <<"any">>, <<"None">>, Everywhere)
  \o Family(<<"faddr">>, <<"long">>, <<"any">>, <<"NoMem">>, Everywhere)

\* Reading and writing regions, volatile loads and stores.
RegionAccess ==
     Family(<<"rdregioni">>, <<"anyint">>, <<"anyvector", "int", "int",
          "int", "anyint", "int">>, <<"NoMem">>, Everywhere)
  \o Family(<<"rdregionf">>, <<"anyfloat">>, <<"anyvector", "int", "int",
          "int", "anyint", "int">>, <<"NoMem">>, Everywhere)
  \o Family(<<"wrregioni">>, <<"anyvector">>, <<"=0", "anyint", "int",
          "int", "int", "anyint", "int", "anyint">>, <<"NoMem">>, Everywhere)
  \o Family(<<"wrregionf">>, <<"anyvector">>, <<"=0", "anyfloat", "int",
          "int", "int", "anyint", "int", "anyint">>, <<"NoMem">>, Everywhere)
  \o Family(<<"vstore">>, <<"void">>, <<"anyvector", "anyptr">>,
          <<"None">>, Everywhere)
  \o Family(<<"vload">>, <<"anyvector">>, <<"anyptr">>, <<"None">>,
          Everywhere)

\* Saturating conversions.
Conversions ==
     Family(<<"fptosi_sat", "fptoui_sat">>, <<"anyint">>, <<"anyfloat">>,
          <<"NoMem">>, Everywhere)
  \o Family(<<"sat">>, <<"anyfloat">>, <<"=0">>, <<"NoMem">>, Everywhere)
  \o Family(<<"sstrunc_sat", "sutrunc_sat", "ustrunc_sat", "uutrunc_sat">>,
          <<"anyint">>, <<"anyint">>, <<"NoMem">>, Everywhere)

\* Absolute value, and the reductions to a scalar.
Modifiers ==
     Family(<<"absf">>, <<"anyfloat">>, <<"=0">>, <<"NoMem">>, Everywhere)
  \o Family(<<"absi">>, <<"anyint">>, <<"=0">>, <<"NoMem">>, Everywhere)
  \o Family(<<"all", "any">>, <<"bool">>, <<"anyint">>, <<"NoMem">>,
          Everywhere)

\* Goto, join and the masks around unmasked code.
SimdControlFlow ==
     Family(<<"simdcf_goto">>, <<"anyvector", "anyvector", "bool">>,
          <<"=0", "=1", "=1">>, <<"NoMem">>, Everywhere)
  \o Family(<<"simdcf_join">>, <<"anyvector", "bool">>, <<"=0",
          "anyvector">>, <<"None">>, Everywhere)
  \o Family(<<"simdcf_savemask">>, <<"int">>, <<"anyvector">>,
          <<"WriteMem", "SideEffects">>, Everywhere)
  \o Family(<<"simdcf_unmask">>, <<"anyvector">>, <<"int", "int">>,
          <<"WriteMem", "SideEffects">>, Everywhere)
  \o Family(<<"simdcf_remask">>, <<"anyvector">>, <<"=0", "int">>,
          <<"WriteMem", "SideEffects">>, Everywhere)
  \o Family(<<"simdcf_get_em">>, <<"anyvector">>, <<"=0">>, <<"WriteMem",
          "SideEffects">>, Everywhere)

\* Saturating addition, average.
AddAndAverage ==
     Family(<<"ssadd_sat", "suadd_sat", "usadd_sat", "uuadd_sat", "ssavg",
          "suavg", "usavg", "uuavg", "ssavg_sat", "suavg_sat", "usavg_sat",
          "uuavg_sat">>, <<"anyint">>, <<"anyint", "=1">>, <<"NoMem">>,
          Everywhere)

\* Bit fields, cosine, division.
BitFields ==
     Family(<<"sbfe", "ubfe">>, <<"anyint">>, <<"=0", "=0", "=0">>,
          <<"NoMem">>, Everywhere)
  \o Family(<<"bfi">>, <<"anyint">>, Rep("=0", 4), <<"NoMem">>, Everywhere)
  \o Family(<<"bfrev">>, <<"anyint">>, <<"=0">>, <<"NoMem">>, Everywhere)
  \o Family(<<"cbit">>, <<"anyint">>, <<"anyint">>, <<"NoMem">>,
          Everywhere)
  \o Family(<<"cos">>, <<"anyfloat">>, <<"=0">>, <<"NoMem">>, Everywhere)
  \o Family(<<"ieee_div">>, <<"anyfloat">>, <<"=0", "=0">>, <<"NoMem">>,
          Everywhere)

\* Dot products and unary arithmetic.
DotProducts ==
     Family(<<"dp2", "dp3", "dp4", "dph">>, <<"anyfloat">>, <<"=0", "=0">>,
          <<"NoMem">>, Everywhere)
  \o Family(<<"exp", "frc", "inv", "log">>, <<"anyfloat">>, <<"=0">>,
          <<"NoMem">>, Everywhere)
  \o Family(<<"sfbh", "ufbh", "fbl">>, <<"anyint">>, <<"=0">>, <<"NoMem">>,
          Everywhere)
  \o Family(<<"line">>, <<"anyfloat">>, <<"float4", "=0">>, <<"NoMem">>,
          Everywhere)
  \o Family(<<"lrp">>, <<"anyfloat">>, <<"=0", "=0", "=0">>, <<"NoMem">>,
          Everywhere)

\* Leading zeros, multiply and add.
MultiplyAdd ==
     Family(<<"lzd">>, <<"anyint">>, <<"=0">>, <<"NoMem">>, Everywhere)
  \o Family(<<"ssmad", "sumad", "usmad", "uumad", "ssmad_sat", "sumad_sat",
          "usmad_sat", "uumad_sat">>, <<"anyint">>, <<"anyint", "=1", "=0">>,
          <<"NoMem">>, Everywhere)

\* Minimum, maximum, 64 bit multiply and add.
MinMax ==
     Family(<<"smax", "umax", "smin", "umin">>, <<"anyint">>, <<"anyint",
          "=1">>, <<"NoMem">>, Everywhere)
  \o Family(<<"fmax", "fmin">>, <<"anyfloat">>, <<"anyfloat", "=1">>,
          <<"NoMem">>, Everywhere)
  \o Family(<<"simad", "uimad">>, <<"anyint", "anyint">>, <<"=0", "=0",
          "=0">>, <<"NoMem">>, Everywhere)

\* Multiplication.
Multiply ==
     Family(<<"ssmul", "sumul", "usmul", "uumul", "ssmul_sat", "sumul_sat",
          "usmul_sat", "uumul_sat", "smulh", "umulh">>, <<"anyint">>,
          <<"anyint", "=1">>, <<"NoMem">>, Everywhere)

\* Plane equation, power, rounding, sum of absolute differences.
PlaneAndRounding ==
     Family(<<"pln">>, <<"anyfloat">>, <<"float4", "anyfloat">>,
          <<"NoMem">>, Everywhere)
  \o Family(<<"pow">>, <<"anyfloat">>, <<"=0", "=0">>, <<"NoMem">>,
          Everywhere)
  \o Family(<<"rndd", "rnde", "rndu", "rndz", "rsqrt">>, <<"anyfloat">>,
          <<"=0">>, <<"NoMem">>, Everywhere)
  \o Family(<<"ssad2", "usad2">>, <<"anyint">>, <<"anyint", "=1">>,
          <<"NoMem">>, Everywhere)

\* Sum of absolute differences and add.
SadAdd ==
     Family(<<"sssad2add", "uusad2add", "ussad2add", "susad2add",
          "sssad2add_sat", "uusad2add_sat", "ussad2add_sat", "susad2add_sat">>,
          <<"anyint">>, <<"anyint", "=1", "=0">>, <<"NoMem">>, Everywhere)

\* Shifts, rotations, roots.
Shifts ==
     Family(<<"ssshl", "sushl", "usshl", "uushl", "ssshl_sat", "sushl_sat",
          "usshl_sat", "uushl_sat", "rol", "ror">>, <<"anyint">>, <<"anyint",
          "=1">>, <<"NoMem">>, Everywhere)
  \o Family(<<"sin", "sqrt", "ieee_sqrt">>, <<"anyfloat">>, <<"=0">>,
          <<"NoMem">>, Everywhere)

\* Systolic dot products.
Systolic ==
     Family(<<"dpas">>, <<"anyvector">>, <<"=0", "anyvector", "anyvector",
          "int">>, <<"NoMem">>, <<<<"+", "XeHP">>, <<"~", "XeLPG">>, <<"~",
          "XeHPCVG">>>>)
  \o Family(<<"dpas2">>, <<"anyvector">>, <<"anyvector", "anyvector",
          "anyvector">> \o Rep("int", 6), <<"NoMem">>, <<<<"+", "XeHP">>, <<"~",
          "XeLPG">>, <<"~", "XeHPCVG">>>>)
  \o Family(<<"dpas_nosrc0">>, <<"anyvector">>, <<"anyvector", "anyvector",
          "int">>, <<"NoMem">>, <<<<"+", "XeHP">>, <<"~", "XeLPG">>, <<"~",
          "XeHPCVG">>>>)
  \o Family(<<"dpasw">>, <<"anyvector">>, <<"=0", "anyvector", "anyvector",
          "int">>, <<"NoMem">>, <<<<"", "XeHP">>, <<"", "XeHPG">>, <<"",
          "XeLPGPlus">>>>)
  \o Family(<<"dpasw_nosrc0">>, <<"anyvector">>, <<"anyvector",
          "anyvector", "int">>, <<"NoMem">>, <<<<"", "XeHP">>, <<"", "XeHPG">>,
          <<"", "XeLPGPlus">>>>)
  \o Family(<<"bdpas">>, <<"anyvector">>, Rep("anyvector", 5) \o Rep("int",
          4), <<"NoMem">>, <<<<"+", "Xe3P">>>>)

\* Micro-scaling and four-element dot products.
MicroScaling ==
     Family(<<"mxfp_reduce_32x32">>, <<"anyvector">>, <<"anyvector">>,
          <<"NoMem">>, <<<<"+", "Xe3P">>>>)
  \o Family(<<"mxfp_linearize">>, <<"anyvector">>, <<"=0">>, <<"NoMem">>,
          <<<<"+", "Xe3P">>>>)
  \o Family(<<"ssdp4a", "sudp4a", "usdp4a", "uudp4a", "ssdp4a_sat",
          "sudp4a_sat", "usdp4a_sat", "uudp4a_sat">>, <<"anyvector">>,
          <<"anyvector", "anyvector", "anyvector">>, <<"NoMem">>, Everywhere)

\* Carry, borrow, three-way addition, Boolean functions.
CarryAndLogic ==
     Family(<<"addc", "subb">>, <<"anyint", "anyint">>, <<"=0", "=0">>,
          <<"NoMem">>, Everywhere)
  \o Family(<<"add3", "ssadd3_sat", "suadd3_sat", "usadd3_sat",
          "uuadd3_sat">>, <<"anyint">>, <<"anyint", "=1", "=1">>, <<"NoMem">>,
          Everywhere)
  \o Family(<<"add3c">>, <<"anyint", "intvector">>, <<"anyint", "=1", "=1",
          "=1">>, <<"NoMem">>, Everywhere)
  \o Family(<<"bfn">>, <<"anyint">>, <<"anyint", "=1", "=1", "char">>,
          <<"NoMem">>, Everywhere)

\* Random numbers and stochastic rounding.
Randomizing ==
     Family(<<"lfsr">>, <<"anyint">>, <<"=0", "=0", "char">>, <<"NoMem">>,
          <<<<"+", "Xe3P">>>>)
  \o Family(<<"srnd">>, <<"anyvector">>, <<"anyvector", "anyvector">>,
          <<"NoMem">>, Everywhere)
  \o Family(<<"biased_rounding_bf8">>, <<"anyint">>, <<"anyvector", "=0">>,
          <<"NoMem">>, <<<<"+", "Xe3">>>>)
  \o Family(<<"biased_rounding_hf8">>, <<"anyint">>, <<"anyvector", "=0">>,
          <<"NoMem">>, <<<<"+", "Xe3P">>>>)
  \o Family(<<"bf_cvt">>, <<"anyfloat">>, <<"anyfloat">>, <<"NoMem">>,
          Everywhere)

\* Conversions of narrow floating point formats.
NarrowFloats ==
     Family(<<"tf32_cvt">>, <<"anyvector">>, <<"anyvector">>, <<"NoMem">>,
          Everywhere)
  \o Family(<<"qf_cvt", "hf8_cvt">>, <<"anyvector">>, <<"anyvector">>,
          <<"NoMem">>, <<<<"+", "Xe3">>>>)
  \o Family(<<"packed_4bit_upconvert_lut">>, <<"anyint">>, <<"int16",
          "anyint">>, <<"NoMem">>, <<<<"+", "Xe3P">>>>)
  \o Family(<<"4bit_downconvert">>, <<"anyint">>, <<"=0", "=0", "=0",
          "char", "char", "char">>, <<"NoMem">>, <<<<"+", "Xe3P">>>>)

\* LSC loads and prefetches.
LscLoads ==
     Family(<<"lsc_load_slm", "lsc_load_stateless", "lsc_load_bindless",
          "lsc_load_bti", "lsc_load_quad_slm", "lsc_load_quad_stateless",
          "lsc_load_quad_bindless", "lsc_load_quad_bti">>, <<"anyvector">>,
          <<"any", "char", "char", "char", "short", "int">> \o Rep("char", 4) \o
          <<"any", "int">>, <<"ReadMem">>, Everywhere)
  \o Family(<<"lsc_prefetch_slm", "lsc_prefetch_bti",
          "lsc_prefetch_stateless", "lsc_prefetch_bindless">>, <<"void">>,
          <<"any", "char", "char", "char", "short", "int">> \o Rep("char", 4) \o
          <<"any", "int">>, <<"None">>, Everywhere)

\* LSC loads that merge, LSC stores.
LscMergesAndStores ==
     Family(<<"lsc_load_merge_slm", "lsc_load_merge_stateless",
          "lsc_load_merge_bindless", "lsc_load_merge_bti",
          "lsc_load_merge_quad_slm", "lsc_load_merge_quad_stateless",
          "lsc_load_merge_quad_bindless", "lsc_load_merge_quad_bti">>,
          <<"anyvector">>, <<"any", "char", "char", "char", "short", "int">> \o
          Rep("char", 4) \o <<"any", "int", "=0">>, <<"ReadMem">>, Everywhere)
  \o Family(<<"lsc_store_slm", "lsc_store_stateless", "lsc_store_bindless",
          "lsc_store_bti", "lsc_store_quad_slm", "lsc_store_quad_stateless",
          "lsc_store_quad_bindless", "lsc_store_quad_bti">>, <<"void">>,
          <<"any", "char", "char", "char", "short", "int">> \o Rep("char", 4) \o
          <<"any", "anyvector", "int">>, <<"None">>, Everywhere)

\* LSC two-dimensional blocks.
LscBlocks2D ==
     Family(<<"lsc_load2d_stateless">>, <<"anyvector">>, <<"anyvector">> \o
          Rep("char", 5) \o <<"short", "short", "char", "anyint">> \o Rep("int",
          5), <<"ReadMem">>, Everywhere)
  \o Family(<<"lsc_prefetch2d_stateless">>, <<"void">>, <<"anyvector">> \o
          Rep("char", 5) \o <<"short", "short", "char", "anyint">> \o Rep("int",
          5), <<"None">>, Everywhere)
  \o Family(<<"lsc_store2d_stateless">>, <<"void">>, <<"anyvector">> \o
          Rep("char", 5) \o <<"short", "short", "char", "anyint">> \o Rep("int",
          5) \o <<"anyvector">>, <<"None">>, Everywhere)
  \o Family(<<"lsc_load_2d_ugm_desc", "lsc_load_2d_ugm_desc_transpose",
          "lsc_load_2d_ugm_desc_vnni">>, <<"anyvector">>, <<"bool", "anyvector",
          "char", "short", "short", "int16", "int", "int", "=0">>,
          <<"ReadMem">>, <<<<"+", "XeHPC">>>>)
  \o Family(<<"lsc_prefetch_2d_ugm_desc">>, <<"void">>, <<"bool",
          "anyvector", "char", "short", "short", "int16", "int", "int",
          "anyvector">>, <<"SideEffects">>, <<<<"+", "XeHPC">>>>)
  \o Family(<<"lsc_store_2d_ugm_desc">>, <<"void">>, <<"bool", "anyvector",
          "char", "short", "short", "int16", "int", "int", "anyvector">>,
          <<"WriteMem">>, <<<<"+", "XeHPC">>>>)

\* LSC access to typed surfaces.
LscTyped ==
     Family(<<"lsc_load_merge_quad_typed_bti">>, <<"anyvector">>,
          <<"anyvector", "char", "char", "char", "int", "anyvector", "=2", "=2",
          "=2", "=0">>, <<"ReadMem">>, <<<<"+", "Xe2">>>>)
  \o Family(<<"lsc_store_quad_typed_bti">>, <<"void">>, <<"anyvector",
          "char", "char", "char", "int", "anyvector", "=1", "=1", "=1",
          "anyvector">>, <<"WriteMem">>, <<<<"+", "Xe2">>>>)
  \o Family(<<"lsc_prefetch_quad_typed_bti">>, <<"void">>, <<"anyvector",
          "char", "char", "char", "int", "anyvector", "=1", "=1", "=1">>,
          <<"None">>, <<<<"+", "Xe2">>>>)
  \o Family(<<"lsc_load2d_typed_bti">>, <<"anyvector">>, <<"char", "char">>
          \o Rep("int", 5), <<"ReadMem">>, <<<<"+", "Xe2">>>>)
  \o Family(<<"lsc_store2d_typed_bti">>, <<"void">>, <<"char", "char">> \o
          Rep("int", 5) \o <<"anyvector">>, <<"WriteMem">>, <<<<"+", "Xe2">>>>)
  \o Family(<<"lsc_prefetch2d_typed_bti">>, <<"void">>, <<"char", "char">>
          \o Rep("int", 5), <<"ReadMem">>, <<<<"+", "Xe2">>>>)

\* LSC atomic operations and fence.
LscAtomics ==
     Family(<<"lsc_atomic_bti", "lsc_atomic_slm", "lsc_atomic_stateless",
          "lsc_atomic_bindless">>, <<"any">>, <<"any", "char", "char", "char",
          "short", "int">> \o Rep("char", 4) \o <<"int", "anyvector", "=0",
          "=0", "=0">>, <<"NoWillReturn">>, Everywhere)
  \o Family(<<"lsc_xatomic_bti", "lsc_xatomic_slm",
          "lsc_xatomic_stateless", "lsc_xatomic_bindless">>, <<"any">>, <<"any",
          "char", "char", "char", "short", "int">> \o Rep("char", 4) \o
          <<"anyvector", "=0", "=0", "int", "=0">>, <<"NoWillReturn">>,
          Everywhere)
  \o Family(<<"lsc_fence">>, <<"void">>, <<"anyvector", "char", "char",
          "char">>, <<"None">>, Everywhere)

\* Reserved hardware registers.
ReservedRegisters ==
     Family(<<"thread_x", "thread_y", "get_color">>, <<"short">>, <<>>,
          <<"NoMem">>, Everywhere)
  \o Family(<<"group_id_x", "group_id_y", "group_id_z", "get_hwid">>,
          <<"int">>, <<>>, <<"NoMem">>, Everywhere)
  \o Family(<<"timestamp">>, <<"anyint">>, <<>>, <<"None">>, Everywhere)
  \o Family(<<"r0", "sr0">>, <<"anyint">>, <<>>, <<"ReadMem">>, Everywhere)
  \o Family(<<"set_sr0_2">>, <<"void">>, <<"int">>, <<"None">>, Everywhere)
  \o Family(<<"ce0">>, <<"int">>, <<>>, <<"ReadMem">>, Everywhere)

\* Pauses, dummy moves, predefined registers.
PauseAndPredefined ==
     Family(<<"set_pause", "dummy_mov">>, <<"void">>, <<"short">>,
          <<"None">>, Everywhere)
  \o Family(<<"read_predef_reg">>, <<"any">>, <<"int", "any">>,
          <<"ReadMem">>, Everywhere)
  \o Family(<<"write_predef_reg">>, <<"any">>, <<"int", "any">>,
          <<"WriteMem">>, Everywhere)

\* Untyped atomics on surfaces.
DwordAtomics ==
     Family(<<"dword_atomic_add", "dword_atomic_sub", "dword_atomic_min",
          "dword_atomic_max", "dword_atomic_xchg", "dword_atomic_and",
          "dword_atomic_or", "dword_atomic_xor", "dword_atomic_imin",
          "dword_atomic_imax">>, <<"anyvector">>, <<"anyvector", "int",
          "anyint", "=0", "=0">>, <<"NoWillReturn">>, BeforeXe2)
  \o Family(<<"dword_atomic2_add", "dword_atomic2_sub",
          "dword_atomic2_min", "dword_atomic2_max", "dword_atomic2_xchg",
          "dword_atomic2_and", "dword_atomic2_or", "dword_atomic2_xor",
          "dword_atomic2_imin", "dword_atomic2_imax">>, <<"anyvector">>,
          <<"anyvector", "int", "anyint", "=0">>, <<"NoWillReturn">>, BeforeXe2)

\* Atomics on floats, increments and decrements.
DwordFloatAtomics ==
     Family(<<"dword_atomic_fmin", "dword_atomic_fmax",
          "dword_atomic_fadd", "dword_atomic_fsub">>, <<"anyvector">>,
          <<"anyvector", "int", "anyint", "=0", "=0">>, <<"NoWillReturn">>,
          BeforeXe2)
  \o Family(<<"dword_atomic2_fmin", "dword_atomic2_fmax",
          "dword_atomic2_fadd", "dword_atomic2_fsub">>, <<"anyvector">>,
          <<"anyvector", "int", "anyint", "=0">>, <<"NoWillReturn">>, BeforeXe2)
  \o Family(<<"dword_atomic_inc", "dword_atomic_dec">>, <<"anyvector">>,
          <<"anyvector", "int", "=0", "=0">>, <<"NoWillReturn">>, BeforeXe2)
  \o Family(<<"dword_atomic2_inc", "dword_atomic2_dec">>, <<"anyvector">>,
          <<"anyvector", "int", "=0">>, <<"NoWillReturn">>, BeforeXe2)

\* Compare and exchange.
DwordExchange ==
     Family(<<"dword_atomic_cmpxchg">>, <<"anyvector">>, <<"anyvector",
          "int">> \o Rep("=0", 4), <<"NoWillReturn">>, BeforeXe2)
  \o Family(<<"dword_atomic2_cmpxchg">>, <<"anyvector">>, <<"anyvector",
          "int", "=0", "=0", "=0">>, <<"NoWillReturn">>, BeforeXe2)
  \o Family(<<"dword_atomic_fcmpwr">>, <<"anyvector">>, <<"anyvector",
          "int", "anyint", "=0", "=0", "=0">>, <<"NoWillReturn">>, BeforeXe2)
  \o Family(<<"dword_atomic2_fcmpwr">>, <<"anyvector">>, <<"anyvector",
          "int", "anyint", "=0", "=0">>, <<"NoWillReturn">>, BeforeXe2)

\* Atomics on typed surfaces.
TypedAtomics ==
     Family(<<"typed_atomic_add", "typed_atomic_sub", "typed_atomic_min",
          "typed_atomic_max", "typed_atomic_xchg", "typed_atomic_and",
          "typed_atomic_or", "typed_atomic_xor", "typed_atomic_imin",
          "typed_atomic_imax", "typed_atomic_fmin", "typed_atomic_fmax",
          "typed_atomic_fadd", "typed_atomic_fsub">>, <<"anyvector">>,
          <<"anyvector", "int", "=0", "anyint", "=2", "=2", "=2">>,
          <<"NoWillReturn">>, BeforeXe2)
  \o Family(<<"typed_atomic_inc", "typed_atomic_dec">>, <<"anyvector">>,
          <<"anyvector", "int", "anyint", "=2", "=2", "=2">>,
          <<"NoWillReturn">>, BeforeXe2)
  \o Family(<<"typed_atomic_cmpxchg">>, <<"anyvector">>, <<"anyvector",
          "int", "=0", "=0", "anyint", "=2", "=2", "=2">>, <<"NoWillReturn">>,
          BeforeXe2)

\* Typed compare and write, gathers.
TypedCompareWrite ==
     Family(<<"typed_atomic_fcmpwr">>, <<"anyvector">>, <<"anyvector",
          "int", "=0", "=0", "anyint", "=2", "=2", "=2">>, <<"NoWillReturn">>,
          BeforeXe2)
  \o Family(<<"gather_private">>, <<"anyvector">>, <<"anyvector", "anyptr",
          "anyint", "=0">>, <<"ReadMem">>, Everywhere)
  \o Family(<<"gather_scaled">>, <<"anyvector">>, <<"anyvector", "int",
          "short", "int", "int", "anyint", "=0">>, <<"ReadMem">>, BeforeXe2)
  \o Family(<<"gather_scaled2">>, <<"anyvector">>, <<"int", "short", "int",
          "int", "anyint">>, <<"ReadMem">>, BeforeXe2)
  \o Family(<<"gather_masked_scaled2">>, <<"anyvector">>, <<"int", "short",
          "int", "int", "anyint", "anyvector">>, <<"ReadMem">>, BeforeXe2)

\* Gathers of quads.
GatherQuads ==
     Family(<<"gather4_scaled">>, <<"anyvector">>, <<"anyvector", "int",
          "short", "int", "int", "anyint", "=0">>, <<"ReadMem">>, BeforeXe2)
  \o Family(<<"gather4_scaled2">>, <<"anyvector">>, <<"int", "short",
          "int", "int", "anyint">>, <<"ReadMem">>, BeforeXe2)
  \o Family(<<"gather4_masked_scaled2">>, <<"anyvector">>, <<"int",
          "short", "int", "int", "anyint", "anyvector">>, <<"ReadMem">>,
          BeforeXe2)
  \o Family(<<"gather4_typed">>, <<"anyvector">>, <<"int", "anyvector",
          "int", "anyvector", "=2", "=2", "=0">>, <<"ReadMem">>, BeforeXe2)

\* Media and oword blocks.
Media ==
     Family(<<"media_ld">>, <<"anyvector">>, Rep("int", 6), <<"ReadMem">>,
          BeforeXe2)
  \o Family(<<"media_st">>, <<"void">>, Rep("int", 6) \o <<"anyvector">>,
          <<"None">>, BeforeXe2)
  \o Family(<<"oword_ld", "oword_ld_unaligned">>, <<"anyvector">>, <<"int",
          "int", "int">>, <<"ReadMem">>, BeforeXe2)
  \o Family(<<"oword_st">>, <<"void">>, <<"int", "int", "anyvector">>,
          <<"None">>, BeforeXe2)

\* Scatters, transposed loads.
Scatters ==
     Family(<<"scatter_private">>, <<"void">>, <<"anyvector", "anyptr",
          "anyint", "anyvector">>, <<"None">>, Everywhere)
  \o Family(<<"scatter_scaled", "scatter4_scaled">>, <<"void">>,
          <<"anyvector", "int", "short", "int", "int", "anyint", "anyvector">>,
          <<"None">>, BeforeXe2)
  \o Family(<<"scatter4_typed">>, <<"void">>, <<"int", "anyvector", "int",
          "anyvector", "=1", "=1", "anyvector">>, <<"None">>, BeforeXe2)
  \o Family(<<"transpose_ld">>, <<"anyvector">>, Rep("int", 4),
          <<"ReadMem">>, BeforeXe2)

\* Untyped atomics.
UntypedAtomics ==
     Family(<<"untyped_atomic_add", "untyped_atomic_sub",
          "untyped_atomic_min", "untyped_atomic_max", "untyped_atomic_xchg",
          "untyped_atomic_and", "untyped_atomic_or", "untyped_atomic_xor",
          "untyped_atomic_imin", "untyped_atomic_imax">>, <<"anyvector">>,
          <<"anyvector", "int", "int", "=0", "=0", "=0">>, <<"NoWillReturn">>,
          BeforeXe2)
  \o Family(<<"untyped_atomic_inc", "untyped_atomic_dec">>,
          <<"anyvector">>, <<"anyvector", "int", "int", "=0", "=0">>,
          <<"NoWillReturn">>, BeforeXe2)
  \o Family(<<"untyped_atomic_cmpxchg">>, <<"anyvector">>, <<"anyvector",
          "int", "int">> \o Rep("=0", 4), <<"NoWillReturn">>, BeforeXe2)

\* Shared virtual memory.
SharedVirtualMemory ==
     Family(<<"svm_block_ld", "svm_block_ld_unaligned">>, <<"anyvector">>,
          <<"anyint">>, <<"ReadMem">>, BeforeXe2)
  \o Family(<<"svm_block_st">>, <<"void">>, <<"anyint", "anyvector">>,
          <<"None">>, BeforeXe2)
  \o Family(<<"svm_gather">>, <<"anyvector">>, <<"anyvector", "int",
          "anyint", "=0">>, <<"ReadMem">>, BeforeXe2)
  \o Family(<<"svm_gather4_scaled">>, <<"anyvector">>, <<"anyvector",
          "int", "short", "long", "anyint", "=0">>, <<"ReadMem">>, BeforeXe2)
  \o Family(<<"svm_scatter">>, <<"void">>, <<"anyvector", "int", "anyint",
          "anyvector">>, <<"None">>, BeforeXe2)

\* Atomics on shared virtual memory.
SvmAtomics ==
     Family(<<"svm_scatter4_scaled">>, <<"void">>, <<"anyvector", "int",
          "short", "long", "anyint", "anyvector">>, <<"None">>, BeforeXe2)
  \o Family(<<"svm_atomic_add", "svm_atomic_sub", "svm_atomic_min",
          "svm_atomic_max", "svm_atomic_xchg", "svm_atomic_and",
          "svm_atomic_or", "svm_atomic_xor", "svm_atomic_imin",
          "svm_atomic_imax">>, <<"anyvector">>, <<"anyvector", "anyint", "=0",
          "=0">>, <<"NoWillReturn">>, BeforeXe2)
  \o Family(<<"svm_atomic_inc", "svm_atomic_dec">>, <<"anyvector">>,
          <<"anyvector", "anyint", "=0">>, <<"NoWillReturn">>, BeforeXe2)
  \o Family(<<"svm_atomic_cmpxchg">>, <<"anyvector">>, <<"anyvector",
          "anyint", "=0", "=0", "=0">>, <<"NoWillReturn">>, BeforeXe2)

\* The float ones, sampling.
SvmFloatAtomics ==
     Family(<<"svm_atomic_fmin", "svm_atomic_fmax">>, <<"anyvector">>,
          <<"anyvector", "anyint", "=0", "=0">>, <<"NoWillReturn">>, BeforeXe2)
  \o Family(<<"svm_atomic_fcmpwr">>, <<"anyvector">>, <<"anyvector",
          "anyint", "=0", "=0", "=0">>, <<"NoWillReturn">>, BeforeXe2)
  \o Family(<<"load">>, <<"anyvector">>, <<"int", "int", "anyint", "=1",
          "=1">>, <<"ReadMem">>, Everywhere)
  \o Family(<<"sample">>, <<"anyvector">>, <<"int", "int", "int",
          "anyfloat", "=1", "=1">>, <<"ReadMem">>, Everywhere)
  \o Family(<<"sample_unorm">>, <<"anyvector">>, <<"int", "int", "int">> \o
          Rep("float", 4), <<"ReadMem">>, Everywhere)
  \o Family(<<"3d_sample">>, <<"anyvector">>, <<"int", "anyvector", "int",
          "short", "int", "int">> \o Rep("anyvector", 15), <<"ReadMem">>,
          Everywhere)
  \o Family(<<"3d_load">>, <<"anyvector">>, <<"int", "anyvector", "int",
          "short", "int">> \o Rep("anyvector", 15), <<"ReadMem">>, Everywhere)

\* Adaptive scaling, barriers and fences.
Barriers ==
     Family(<<"avs">>, <<"anyvector">>, <<"int", "int", "int">> \o
          Rep("float", 5) \o <<"int", "int", "int", "float", "int", "char">>,
          <<"ReadMem">>, Everywhere)
  \o Family(<<"barrier">>, <<"void">>, <<>>, <<"Convergent">>, Everywhere)
  \o Family(<<"sbarrier">>, <<"void">>, <<"char">>, <<"Convergent">>,
          Everywhere)
  \o Family(<<"nbarrier">>, <<"void">>, <<"char", "char", "char">>,
          <<"SideEffects">>, <<<<"+", "XeHPC">>>>)
  \o Family(<<"nbarrier_arrive">>, <<"void">>, Rep("char", 4),
          <<"SideEffects">>, <<<<"+", "XeHPC">>>>)
  \o Family(<<"cache_flush", "yield">>, <<"void">>, <<>>, <<"None">>,
          Everywhere)
  \o Family(<<"fence", "wait">>, <<"void">>, <<"char">>, <<"None">>,
          Everywhere)

\* Messages given as they are sent.
RawSends ==
     Family(<<"raw_send">>, <<"anyvector">>, <<"int", "anyint", "int",
          "int", "anyvector", "=0">>, <<"NoWillReturn", "SideEffects">>,
          Everywhere)
  \o Family(<<"raw_send_noresult">>, <<"void">>, <<"int", "anyint", "int",
          "int", "anyvector">>, <<"NoWillReturn", "SideEffects">>, Everywhere)
  \o Family(<<"raw_sends">>, <<"anyvector">>, <<"int", "anyint", "char",
          "int", "int", "anyvector", "anyvector", "=0">>, <<"NoWillReturn">>,
          Everywhere)
  \o Family(<<"raw_sends_noresult">>, <<"void">>, <<"int", "anyint",
          "char", "int", "int", "anyvector", "anyvector">>, <<"NoWillReturn">>,
          Everywhere)
  \o Family(<<"raw_send2">>, <<"anyvector">>, <<"char", "char",
          "anyvector", "char", "char", "char", "int", "int", "anyvector",
          "=0">>, <<"NoWillReturn">>, Everywhere)
  \o Family(<<"raw_send2_noresult">>, <<"void">>, <<"char", "char",
          "anyvector", "char", "char", "int", "int", "anyvector">>,
          <<"NoWillReturn">>, Everywhere)

\* The later forms.
RawSends2 ==
     Family(<<"raw_sends2">>, <<"anyvector">>, <<"char", "char",
          "anyvector">> \o Rep("char", 4) \o <<"int", "int", "anyvector",
          "anyvector", "=0">>, <<"NoWillReturn">>, Everywhere)
  \o Family(<<"raw_sends2_noresult">>, <<"void">>, <<"char", "char",
          "anyvector", "char", "char", "char", "int", "int", "anyvector",
          "anyvector">>, <<"NoWillReturn">>, Everywhere)
  \o Family(<<"raw_sendg">>, <<"anyvector">>, <<"short", "bool", "bool",
          "char", "anyint", "anyvector", "short", "anyvector", "short", "long",
          "long", "long", "=0">>, <<"NoWillReturn", "SideEffects">>, <<<<"+",
          "Xe3P">>>>)

\* Video analytics, filters.
VideoFilters ==
     Family(<<"va_convolve2d", "va_erode", "va_dilate">>, <<"anyint">>,
          <<"int", "int", "float", "float", "int">>, <<"ReadMem">>, Everywhere)
  \o Family(<<"va_hdc_convolve2d">>, <<"void">>, <<"int", "int", "float",
          "float", "int", "int", "short", "short">>, <<"None">>, Everywhere)
  \o Family(<<"va_hdc_erode", "va_hdc_dilate">>, <<"void">>, <<"int",
          "int", "float", "float", "int", "short", "short">>, <<"None">>,
          Everywhere)
  \o Family(<<"va_minmax">>, <<"anyint">>, <<"int", "float", "float",
          "int">>, <<"ReadMem">>, Everywhere)
  \o Family(<<"va_minmax_filter">>, <<"anyint">>, <<"int", "int", "float",
          "float", "int", "int", "int">>, <<"ReadMem">>, Everywhere)
  \o Family(<<"va_hdc_minmax_filter">>, <<"void">>, <<"int", "int",
          "float", "float", "int", "int", "int", "short", "short">>, <<"None">>,
          Everywhere)

\* Video analytics, centroids and convolutions.
VideoConvolutions ==
     Family(<<"va_bool_centroid">>, <<"anyint">>, <<"int", "float",
          "float", "char", "char">>, <<"ReadMem">>, Everywhere)
  \o Family(<<"va_centroid">>, <<"anyint">>, <<"int", "float", "float",
          "char">>, <<"ReadMem">>, Everywhere)
  \o Family(<<"va_1d_convolve_horizontal", "va_1d_convolve_vertical">>,
          <<"anyint">>, <<"int", "int", "float", "float", "int">>,
          <<"ReadMem">>, Everywhere)
  \o Family(<<"va_hdc_1d_convolve_horizontal",
          "va_hdc_1d_convolve_vertical">>, <<"void">>, <<"int", "int", "float",
          "float", "int", "int", "short", "short">>, <<"None">>, Everywhere)
  \o Family(<<"va_1pixel_convolve">>, <<"anyint">>, <<"int", "int",
          "float", "float", "int", "anyint">>, <<"ReadMem">>, Everywhere)
  \o Family(<<"va_hdc_1pixel_convolve">>, <<"void">>, <<"int", "int",
          "float", "float", "int", "anyint", "int", "short", "short">>,
          <<"None">>, Everywhere)

\* Video analytics, patterns and searches.
VideoPatterns ==
     Family(<<"va_1pixel_convolve_1x1mode">>, <<"anyint">>, <<"int", "int",
          "float", "float">>, <<"ReadMem">>, Everywhere)
  \o Family(<<"va_lbp_creation">>, <<"anyint">>, <<"int", "float", "float",
          "int">>, <<"ReadMem">>, Everywhere)
  \o Family(<<"va_hdc_lbp_creation">>, <<"void">>, <<"int", "float",
          "float", "int", "int", "short", "short">>, <<"None">>, Everywhere)
  \o Family(<<"va_lbp_correlation">>, <<"anyint">>, <<"int", "float",
          "float", "short">>, <<"ReadMem">>, Everywhere)
  \o Family(<<"va_hdc_lbp_correlation">>, <<"void">>, <<"int", "float",
          "float", "short", "int", "short", "short">>, <<"None">>, Everywhere)
  \o Family(<<"va_correlation_search">>, <<"anyint">>, <<"int">> \o
          Rep("float", 4) \o Rep("char", 4), <<"ReadMem">>, Everywhere)
  \o Family(<<"va_flood_fill">>, <<"anyint">>, <<"char", "anyint", "short",
          "short", "short">>, <<"ReadMem">>, Everywhere)

\* What the frontend of CM emits.
CMInternal ==
     Family(<<"simdcf_predicate">>, <<"anyvector">>, <<"=0", "=0">>,
          <<"None">>, Everywhere)
  \o Family(<<"simdcf_any">>, <<"bool">>, <<"anyvector">>, <<"None">>,
          Everywhere)
  \o Family(<<"unmask_begin">>, <<"int">>, <<>>, <<"WriteMem",
          "SideEffects">>, Everywhere)
  \o Family(<<"unmask_end">>, <<"void">>, <<"int">>, <<"WriteMem",
          "SideEffects">>, Everywhere)
  \o Family(<<"lane_id">>, <<"int">>, <<>>, <<"NoMem">>, Everywhere)
  \o Family(<<"local_id", "local_id16", "local_size", "group_count">>,
          <<"anyvector">>, <<>>, <<"NoMem">>, Everywhere)

\* Scoreboards and predefined surfaces.
ScoreboardAndSurfaces ==
     Family(<<"get_scoreboard_bti", "get_scoreboard_depcnt">>, <<"int">>,
          <<>>, <<"NoMem">>, Everywhere)
  \o Family(<<"get_scoreboard_deltas">>, <<"char16">>, <<>>, <<"NoMem">>,
          Everywhere)
  \o Family(<<"predefined_surface">>, <<"int">>, <<"int">>, <<"NoMem">>,
          Everywhere)

\* What the backend inserts.
BackendInternal ==
     Family(<<"constanti", "convert", "constantpred">>, <<"anyint">>,
          <<"=0">>, <<"NoMem">>, Everywhere)
  \o Family(<<"constantf">>, <<"anyfloat">>, <<"=0">>, <<"NoMem">>,
          Everywhere)
  \o Family(<<"convert_addr">>, <<"anyint">>, <<"=0", "short">>,
          <<"NoMem">>, Everywhere)
  \o Family(<<"add_addr">>, <<"anyint">>, <<"anyint", "=0">>, <<"NoMem">>,
          Everywhere)
  \o Family(<<"rdpredregion">>, <<"anyint">>, <<"anyint", "int">>,
          <<"NoMem">>, Everywhere)
  \o Family(<<"wrpredregion">>, <<"anyint">>, <<"=0", "anyint", "int">>,
          <<"NoMem">>, Everywhere)

\* Regions of predicates and constants, outputs.
PredicateRegions ==
     Family(<<"wrpredpredregion">>, <<"anyint">>, <<"=0", "anyint", "int",
          "=0">>, <<"NoMem">>, Everywhere)
  \o Family(<<"wrconstregion">>, <<"anyvector">>, <<"=0", "anyvector",
          "int", "int", "int", "anyint", "int", "anyint">>, <<"NoMem">>,
          Everywhere)
  \o Family(<<"output">>, <<"void">>, <<"vararg">>, <<"None">>, Everywhere)
  \o Family(<<"output_1">>, <<"void">>, <<"any">>, <<"None">>, Everywhere)
  \o Family(<<"print_buffer">>, <<"long">>, <<>>, <<"None">>, Everywhere)
  \o Family(<<"print_format_index">>, <<"int">>, <<"anyptr">>, <<"NoMem">>,
          Everywhere)

\* Addresses, jump tables.
AddressConversion ==
     Family(<<"address_convert", "gaddr">>, <<"anyint">>, <<"anyptr">>,
          <<"NoMem">>, Everywhere)
  \o Family(<<"jump_table">>, <<"anyptr">>, <<"anyint", "vararg">>,
          <<"NoMem">>, Everywhere)
  \o Family(<<"write_predef_surface">>, <<"void">>, <<"anyptr", "int">>,
          <<"WriteMem">>, Everywhere)

\* Atomics on predefined surfaces.
PredefinedAtomics ==
     Family(<<"dword_atomic2_add_predef_surface",
          "dword_atomic2_sub_predef_surface",
          "dword_atomic2_min_predef_surface",
          "dword_atomic2_max_predef_surface",
          "dword_atomic2_xchg_predef_surface",
          "dword_atomic2_and_predef_surface", "dword_atomic2_or_predef_surface",
          "dword_atomic2_xor_predef_surface",
          "dword_atomic2_imin_predef_surface",
          "dword_atomic2_imax_predef_surface">>, <<"anyvector">>, <<"anyvector",
          "anyptr", "anyint", "=0">>, <<"NoWillReturn">>, BeforeXe2)

\* The float ones, exchanges.
PredefinedFloatAtomics ==
     Family(<<"dword_atomic2_fmin_predef_surface",
          "dword_atomic2_fmax_predef_surface",
          "dword_atomic2_fadd_predef_surface",
          "dword_atomic2_fsub_predef_surface">>, <<"anyvector">>, <<"anyvector",
          "anyptr", "anyint", "=0">>, <<"NoWillReturn">>, BeforeXe2)
  \o Family(<<"dword_atomic2_inc_predef_surface",
          "dword_atomic2_dec_predef_surface">>, <<"anyvector">>, <<"anyvector",
          "anyptr", "anyint">>, <<"NoWillReturn">>, BeforeXe2)
  \o Family(<<"dword_atomic2_cmpxchg_predef_surface",
          "dword_atomic2_fcmpwr_predef_surface">>, <<"anyvector">>,
          <<"anyvector", "anyptr", "anyint", "=0", "=0">>, <<"NoWillReturn">>,
          BeforeXe2)

\* Gathers and scatters on predefined surfaces.
PredefinedGathers ==
     Family(<<"gather_masked_scaled2_predef_surface",
          "gather4_masked_scaled2_predef_surface">>, <<"anyvector">>, <<"int",
          "short", "anyptr", "int", "anyint", "anyvector">>, <<"ReadMem">>,
          BeforeXe2)
  \o Family(<<"scatter_scaled_predef_surface",
          "scatter4_scaled_predef_surface">>, <<"void">>, <<"anyvector", "int",
          "short", "anyptr", "int", "anyint", "anyvector">>, <<"None">>,
          BeforeXe2)

\* Blocks on predefined surfaces, wide multiply and add.
PredefinedBlocks ==
     Family(<<"oword_ld_predef_surface",
          "oword_ld_unaligned_predef_surface">>, <<"anyvector">>, <<"int",
          "anyptr", "int">>, <<"ReadMem">>, BeforeXe2)
  \o Family(<<"oword_st_predef_surface">>, <<"void">>, <<"anyptr", "int",
          "anyvector">>, <<"None">>, BeforeXe2)
  \o Family(<<"umadw", "smadw">>, <<"anyint">>, <<"anyint", "=1", "=1">>,
          <<"NoMem">>, Everywhere)
  \o Family(<<"slm_init">>, <<"void">>, <<"int">>, <<"None">>, Everywhere)

\* The dictionary Imported_Intrinsics.
Imported_Intrinsics ==
  Markers \o Addresses \o RegionAccess \o Conversions \o Modifiers
  \o SimdControlFlow \o AddAndAverage \o BitFields \o DotProducts
  \o MultiplyAdd \o MinMax \o Multiply \o PlaneAndRounding \o SadAdd \o Shifts
  \o Systolic \o MicroScaling \o CarryAndLogic \o Randomizing \o NarrowFloats
  \o LscLoads \o LscMergesAndStores \o LscBlocks2D \o LscTyped \o LscAtomics
  \o ReservedRegisters \o PauseAndPredefined \o DwordAtomics
  \o DwordFloatAtomics \o DwordExchange \o TypedAtomics \o TypedCompareWrite
  \o GatherQuads \o Media \o Scatters \o UntypedAtomics \o SharedVirtualMemory
  \o SvmAtomics \o SvmFloatAtomics \o Barriers \o RawSends \o RawSends2
  \o VideoFilters \o VideoConvolutions \o VideoPatterns \o CMInternal
  \o ScoreboardAndSurfaces \o BackendInternal \o PredicateRegions
  \o AddressConversion \o PredefinedAtomics \o PredefinedFloatAtomics
  \o PredefinedGathers \o PredefinedBlocks

=============================================================================
