----------------------------- MODULE IntrinsicUsers -----------------------------
(***************************************************************************)
(* What the code in C++ takes for granted about the signatures that        *)
(* Intrinsic_definitions.py declares: the numbers of operands it reads, in *)
(* GenXIntrinsics.h and GenXSimdCFLowering.cpp, and the lists of types it  *)
(* declares overloaded intrinsics with. Neither is derived from the table. *)
(***************************************************************************)
EXTENDS IntrinsicTables, IntrinsicDefinitions

\* The intrinsics of the table with a name among names.
Named(names) == {n \in Ids : Intrinsics[n].name \in names}

-----------------------------------------------------------------------------
(* GenXIntrinsics.h.                                                       *)

\* getLSCCategory; an intrinsic of none of the sets is NotLSC.
LSCCategory ==
  "Load" :> {"lsc_load_bti", "lsc_load_stateless", "lsc_load_slm",
             "lsc_load_bindless", "lsc_load_quad_bti", "lsc_load_quad_slm",
             "lsc_load_quad_stateless", "lsc_load_merge_bti",
             "lsc_load_merge_stateless", "lsc_load_merge_slm",
             "lsc_load_merge_bindless", "lsc_load_merge_quad_bti",
             "lsc_load_merge_quad_slm", "lsc_load_merge_quad_stateless"} @@
  "Load2D" :> {"lsc_load2d_stateless"} @@
  "Load2DTyped" :> {"lsc_load2d_typed_bti"} @@
  "Prefetch" :> {"lsc_prefetch_bti", "lsc_prefetch_stateless"} @@
  "Prefetch2D" :> {"lsc_prefetch2d_stateless"} @@
  "Store" :> {"lsc_store_bti", "lsc_store_stateless", "lsc_store_slm",
              "lsc_store_bindless", "lsc_store_quad_bti", "lsc_store_quad_slm",
              "lsc_store_quad_stateless"} @@
  "Store2D" :> {"lsc_store2d_stateless"} @@
  "Store2DTyped" :> {"lsc_store2d_typed_bti"} @@
  "Fence" :> {"lsc_fence"} @@
  "LegacyAtomic" :> {"lsc_atomic_bti", "lsc_atomic_stateless", "lsc_atomic_slm",
                     "lsc_atomic_bindless"} @@
  "Atomic" :> {"lsc_xatomic_bti", "lsc_xatomic_stateless", "lsc_xatomic_slm",
               "lsc_xatomic_bindless"}

\* LSCArgIdx: the operand of a category that holds a parameter of the message.
Untyped == {"Load", "Prefetch", "Store", "Atomic", "LegacyAtomic"}
Block2D == {"Load2D", "Prefetch2D", "Store2D"}
LSCArgIdx ==
  [VectorSize |-> [c \in Untyped |-> IF c = "LegacyAtomic" THEN 8 ELSE 7],
   DataSize   |-> [c \in Untyped \cup Block2D |-> IF c \in Untyped THEN 6 ELSE 3],
   ImmOffset  |-> [c \in Untyped |-> 5],
   DataOrder  |-> [c \in Untyped \cup Block2D |->
                     CASE c \in Block2D      -> 4
                       [] c = "LegacyAtomic" -> 7
                       [] OTHER              -> 8]]

\* Mutant: the numbers of rdregion, which has no new value.
WithoutNewValue == [OldValue |-> 0, NewValue |-> 1, VStride |-> 1, Width |-> 2,
                    Stride |-> 3, Index |-> 4, Predicate |-> 7]

\* The enumeration GenXRegion: the operands of rdregion and wrregion.
RdRegionOperands == [OldValue |-> 0, VStride |-> 1, Width |-> 2, Stride |-> 3, Index |-> 4]
WrRegionOperands == [OldValue |-> 0, NewValue |-> 1, VStride |-> 2, Width |-> 3,
                     Stride |-> 4, Index |-> 5, Predicate |-> 7]

-----------------------------------------------------------------------------
(* What the language reference, the comments of the table, says they are.  *)

\* Loads, prefetches, merges and stores; atomics of the legacy and of the new
\* form; blocks of two dimensions.
DocumentedOperands ==
  [VectorSize |-> [c \in Untyped |-> IF c = "LegacyAtomic" THEN 8 ELSE 7],
   DataSize   |-> [c \in Untyped \cup Block2D |-> IF c \in Block2D THEN 3 ELSE 6],
   ImmOffset  |-> [c \in Untyped |-> 5],
   DataOrder  |-> [c \in Untyped \cup Block2D |->
                     IF c \in Block2D THEN 4 ELSE IF c = "LegacyAtomic" THEN 7 ELSE 8]]

\* The type an operand with such a part is read as.
OperandMeaning(role) ==
  IF role \in {"ImmOffset", "VStride", "Width", "Stride"} THEN <<"Integer", 32>>
                                                          ELSE <<"Integer", 8>>

-----------------------------------------------------------------------------
(* GenXSimdCFLowering.cpp: Tys, what a declaration is asked for with. A    *)
(* number is the operand a type is taken from, Ret the result.             *)

Ret == -1

\* Mutant: the type of the predicate is forgotten.
TysWithoutPredicate == <<0, 1, 5>>

\* createWrRegion.
WrRegionTys == <<0, 1, 5, 7>>

Tys ==
  "simdcf_any"             :> <<0>> @@
  "vload"                  :> <<Ret, 0>> @@
  "vstore"                 :> <<0, 1>> @@
  "wrregioni"              :> WrRegionTys @@
  "wrregionf"              :> WrRegionTys @@
  "raw_send"               :> <<Ret, 1, 4>> @@
  "raw_send_noresult"      :> <<1, 4>> @@
  "raw_sends"              :> <<Ret, 1, 4, 5>> @@
  "raw_sends_noresult"     :> <<1, 4, 5>> @@
  "simdcf_goto"            :> <<0, 1>> @@
  "simdcf_join"            :> <<0, 1>> @@
  "simdcf_savemask"        :> <<0>> @@
  "simdcf_unmask"          :> <<Ret>> @@
  "simdcf_remask"          :> <<0>>

\* predicateSend: the operand that is made a vector. deduceNumChannels: the
\* operand with the addresses, and the operand with the vector size.
PredOperandNum == 1
Sends == {"raw_send", "raw_send_noresult", "raw_sends", "raw_sends_noresult"}
AddressOperandNum == 4
Gathers == {"gather4_masked_scaled2", "gather4_scaled2"}
VectorSizeOperandNum == 7
ReplicatingLoads == {"lsc_load_slm", "lsc_load_stateless", "lsc_load_bindless",
                     "lsc_load_bti", "lsc_prefetch_bti", "lsc_prefetch_stateless",
                     "lsc_prefetch_bindless"}

-----------------------------------------------------------------------------
(* Properties.                                                             *)

\* The values of a signature, struct elements included, without the prefixes.
Values(id) == SelectSeq(Descriptors(id),
                        LAMBDA d : d[1] \notin {"Struct", "Vector", "Pointer"})

\* The value of operand number p (Ret: the first of the result) of intrinsic n.
ValueAt(n, p) == Values(n)[IF p = Ret THEN 1 ELSE Len(Intrinsics[n].result) + p + 1]

\* A list of types has one for every overloaded type of the intrinsic, each that
\* of a value which has this place in the decoded signature.
ListMatches(n, list) ==
  LET values == Values(n)
      fresh  == {p \in 1..Len(values) : IntroducesOverload(values, p)}
  IN  /\ Len(list) = Cardinality(fresh)
      /\ \A k \in 1..Len(list) :
           ValueAt(n, list[k])[1] = "Overloaded" /\ ValueAt(n, list[k])[2] = k - 1

\* The sends with two sources, whose documentation overloads arg5 and arg6 where
\* predicateSend takes the types of operands 4 and 5.
SplitSends == {"raw_sends", "raw_sends_noresult"}

\* getGenXDeclaration: the lists CMSimdCFLower declares intrinsics with match
\* their signatures. The name of the declaration and its type depend on it.
OverloadListsMatch ==
  phase = "done" =>
    \A n \in Named(DOMAIN Tys \ SplitSends) : ListMatches(n, Tys[Intrinsics[n].name])

\* predicateSend: "We need to get a new intrinsic declaration from an array of
\* overloaded types, and that depends on exactly which send intrinsic we have".
\* It is false of the sends with two sources.
SendsDeclaredAsDocumented ==
  phase = "done" => \A n \in Named(Sends) : ListMatches(n, Tys[Intrinsics[n].name])

\* The operand of a message or region that the code reads for a part is the one
\* documented for it, and has the type it is read as; an operand whose type is
\* replaced or whose width is asked for is an overloaded one.
OperandNumbersAgree ==
  LET reads(names, p, meaning) == \A n \in Named(names) : ValueAt(n, p) = meaning
      overloaded(names, p) == \A n \in Named(names) : ValueAt(n, p)[1] = "Overloaded"
      rdregion == {"rdregioni", "rdregionf"}
      wrregion == {"wrregioni", "wrregionf"}
  IN  phase = "done" =>
        /\ \A part \in DOMAIN LSCArgIdx : \A c \in DOMAIN LSCArgIdx[part] :
             /\ LSCArgIdx[part][c] = DocumentedOperands[part][c]
             /\ reads(LSCCategory[c], LSCArgIdx[part][c], OperandMeaning(part))
        /\ \A part \in {"VStride", "Width", "Stride"} :
             /\ reads(rdregion, RdRegionOperands[part], OperandMeaning(part))
             /\ reads(wrregion, WrRegionOperands[part], OperandMeaning(part))
        /\ reads(ReplicatingLoads, VectorSizeOperandNum, OperandMeaning("VectorSize"))
        /\ \A n \in Named(wrregion) : /\ ValueAt(n, WrRegionOperands.OldValue) = ValueAt(n, Ret)
                                      /\ ValueAt(n, WrRegionOperands.NewValue)[2] = 1
        /\ overloaded(wrregion, WrRegionOperands.Predicate)
        /\ overloaded(Sends, PredOperandNum)
        /\ overloaded(Gathers, AddressOperandNum)
=============================================================================
