-------------------------- MODULE IntrinsicSignatures --------------------------
(***************************************************************************)
(* The codes of the signature of an intrinsic. Intrinsics.py writes them   *)
(* (encodeTypeString and what it calls), GenXIntrinsics.cpp reads them     *)
(* (getIntrinsicInfoTableEntries, DecodeIITType), and the two have only    *)
(* the numbers of the enumeration IIT_Info in common.                      *)
(*                                                                         *)
(* A type string of the generator is a sequence of numbers here: one below *)
(* 16 is a hexadecimal digit, any other is written "<n>" and needs the     *)
(* long table. A word of the table IIT_Table is a record: the sign bit     *)
(* tells an offset from digits.                                            *)
(***************************************************************************)
EXTENDS Integers, Sequences, FiniteSets, TLC

-----------------------------------------------------------------------------
(* The generator: from names of types to codes.                            *)

\* type_map, for the types and, as lanes_map, for the numbers of elements.
type_map == [void |-> 0, bool |-> 1, char |-> 2, short |-> 3, int |-> 4, long |-> 5,
             half |-> 6, float |-> 7, double |-> 8]
lanes_map == [lanes \in {2, 4, 8, 16, 32} |->
                CASE lanes = 2 -> 9 [] lanes = 4 -> 10 [] lanes = 8 -> 11
                  [] lanes = 16 -> 12 [] lanes = 32 -> 13]

pointerTypesi8_map ==
  [ptr_private |-> <<14, 2>>, ptr_global |-> <<27, 1, 2>>, ptr_constant |-> <<27, 2, 2>>,
   ptr_local |-> <<27, 3, 2>>, ptr_generic |-> <<27, 4, 2>>]

any_map == [any |-> 0, anyint |-> 1, anyfloat |-> 2, anyvector |-> 3, anyptr |-> 4]

vararg_val == 29

\* DestSizes[n]: the code of a result of n values. The codes of 2 to 5.
DestSizes(n) == 19 + n

\* The type and the number of elements in the name of a vector type; a name
\* without one of VectorTypes in it ("intvector") is not split.
VectorTypes == [int16 |-> <<"int", 16>>, char16 |-> <<"char", 16>>,
                float4 |-> <<"float", 4>>, short8 |-> <<"short", 8>>]

\* A reference to an earlier overloaded type of the signature, from 1.
MatchTypes == [type \in {"=0", "=1", "=2"} |->
                 CASE type = "=0" -> 1 [] type = "=1" -> 2 [] type = "=2" -> 3]

\* The default type after "any:".
DefaultTypes == [type \in {"any:int", "any:float"} |->
                   IF type = "any:int" THEN "int" ELSE "float"]

IsAny(type) == type \in DOMAIN any_map \cup DOMAIN DefaultTypes

\* Mutant: the packing of LLVM before 23 in every version.
OldPacking(type, argNum, llvm) ==
  <<15, 8 * argNum + any_map[IF type \in DOMAIN DefaultTypes THEN "any" ELSE type]>> \o
    (IF type \in DOMAIN DefaultTypes THEN <<type_map[DefaultTypes[type]]>> ELSE <<>>)

\* The code of an overloaded type, with its number and which types it may be.
addAnyTypes(type, argNum, llvm) ==
  LET value == IF type \in DOMAIN DefaultTypes THEN "any" ELSE type
      calculated_num == IF llvm >= 23 THEN 32 * any_map[value] + argNum
                                      ELSE 8 * argNum + any_map[value]
  IN  <<15, calculated_num>> \o
        (IF type \in DOMAIN DefaultTypes
           THEN <<type_map[DefaultTypes[type]]>> ELSE <<>>)

addVectorTypes(source) ==
  IF source \in DOMAIN VectorTypes
    THEN <<lanes_map[VectorTypes[source][2]], type_map[VectorTypes[source][1]]>>
    ELSE <<>>

\* array_of_anys: how many overloaded types there are before the position p, and
\* the position of the k-th.
AnysBefore(types, p) == Cardinality({q \in 1..(p - 1) : IsAny(types[q])})
AnyAt(types, k) ==
  CHOOSE p \in 1..Len(types) : IsAny(types[p]) /\ AnysBefore(types, p) = k - 1

\* What encodeTypeString adds for the type at position p of a signature.
TypeCodes(types, p, llvm) ==
  LET any(q) == addAnyTypes(types[q], AnysBefore(types, q), llvm)
      type == types[p]
  IN  CASE type \in DOMAIN MatchTypes -> any(AnyAt(types, MatchTypes[type]))
        [] type \in DOMAIN type_map   -> <<type_map[type]>>
        [] type = "vararg"            -> <<vararg_val>>
        [] IsAny(type)                -> any(p)
        [] type \in DOMAIN pointerTypesi8_map -> pointerTypesi8_map[type]
        [] OTHER                      -> addVectorTypes(type)

encodeTypeString(types, type_string, llvm) ==
  LET encode[p \in 0..Len(types)] ==
        IF p = 0 THEN type_string
                 ELSE encode[p - 1] \o TypeCodes(types, p, llvm)
  IN  encode[Len(types)]

\* The type string of an intrinsic: its results, then its arguments.
Signature(entry, llvm) ==
  LET dest == entry.result
  IN  encodeTypeString(dest \o entry.arguments,
                       IF Len(dest) > 1 THEN <<DestSizes(Len(dest))>> ELSE <<>>,
                       llvm)

\* What encodeTypeString takes: the names it knows, references to overloaded types
\* that come before, and no more overloaded types than their numbers have bits for.
\* There is a result; void is one on its own, up to five are a structure.
TypeNames ==
  DOMAIN type_map \cup {"vararg", "intvector"} \cup DOMAIN pointerTypesi8_map
    \cup DOMAIN any_map \cup DOMAIN DefaultTypes \cup DOMAIN VectorTypes
    \cup DOMAIN MatchTypes
WellFormed(entry) ==
  LET types == entry.result \o entry.arguments
  IN  /\ entry.result \in Seq(TypeNames) /\ entry.arguments \in Seq(TypeNames)
      /\ Len(entry.result) \in 1..5
      /\ \A p \in 1..Len(types) :
           /\ types[p] = "void" => p = 1 /\ Len(entry.result) = 1
           /\ types[p] \in DOMAIN MatchTypes =>
                MatchTypes[types[p]] <= AnysBefore(types, p)
      /\ AnysBefore(types, Len(types) + 1) <= 32

-----------------------------------------------------------------------------
(* The words of the tables.                                                *)

Word(sign, low) == [sign |-> sign, low |-> low]

\* A word of digits, the first of them the lowest. Leading zeros are gone.
Inline(codes) ==
  LET last == {p \in 1..Len(codes) : codes[p] # 0}
      keep == IF last = {} THEN 0 ELSE CHOOSE p \in last : \A q \in last : q <= p
  IN  Word(FALSE, SubSeq(codes, 1, keep))

\* Mutant: the place after the offset.
NextWord(offset) == Word(TRUE, offset + 1)

\* "(1U<<31) | offset".
LongWord(offset) == Word(TRUE, offset)

\* isLongArrayUsed, and what the generator packs in one word: less than eight
\* digits, or eight of which the last leaves the sign bit alone.
isLongArrayUsed(codes) == \E p \in 1..Len(codes) : codes[p] >= 16
FitsWord(codes) ==
  /\ ~isLongArrayUsed(codes)
  /\ Len(codes) < 8 \/ (Len(codes) = 8 /\ codes[8] < 8)

-----------------------------------------------------------------------------
(* The reader: from codes to descriptors.                                  *)

\* What LLVM takes out of the number after the code of an overloaded type:
\* its place among the overloaded types, and which types it may be.
OverloadedDescriptor(info, llvm) ==
  IF llvm >= 23 THEN <<"Overloaded", info % 32, info \div 32>>
                ELSE <<"Overloaded", info \div 8, info % 8>>

IntegerCodes == <<1, 8, 16, 32, 64>>
FloatCodes == [info \in 6..8 |->
                 CASE info = 6 -> "Half" [] info = 7 -> "Float" [] info = 8 -> "Double"]
VectorCodes == [info \in 9..13 |-> <<2, 4, 8, 16, 32>>[info - 8]]
StructCodes == [info \in 21..24 |-> info - 19]

\* The next byte, zero at the end of the entries.
Byte(infos, pos) == IF pos > Len(infos) THEN 0 ELSE infos[pos]

\* DecodeIITType at one position: the descriptor, the bytes it takes and the
\* types that it decodes after it. A code without a case is llvm_unreachable.
DecodeIITType(infos, pos, llvm) ==
  LET info == Byte(infos, pos)
      decoded(descriptor, bytes, types) ==
        [descriptor |-> descriptor, bytes |-> bytes, types |-> types]
  IN  CASE info = 0  -> decoded(<<"Void">>, 1, 0)
        [] info = 29 -> decoded(<<"VarArg">>, 1, 0)
        [] info \in DOMAIN IntegerCodes ->
             decoded(<<"Integer", IntegerCodes[info]>>, 1, 0)
        [] info \in DOMAIN FloatCodes -> decoded(<<FloatCodes[info]>>, 1, 0)
        [] info \in DOMAIN VectorCodes ->
             decoded(<<"Vector", VectorCodes[info]>>, 1, 1)
        [] info = 14 -> decoded(<<"Pointer", 0>>, 1, 1)
        [] info = 27 -> decoded(<<"Pointer", Byte(infos, pos + 1)>>, 2, 1)
        [] info = 15 ->
             decoded(OverloadedDescriptor(Byte(infos, pos + 1), llvm), 2, 0)
        [] info \in DOMAIN StructCodes ->
             decoded(<<"Struct", StructCodes[info]>>, 1, StructCodes[info])
        [] OTHER     -> decoded(<<"unhandled", info>>, 1, 0)

\* Types are decoded from a position until one ends at a zero or at the end.
\* at is a position and how many types are still to come in the recursion.
DecodeTypes(infos, llvm) ==
  LET decode[at \in Nat \X Nat] ==
        LET pos == at[1]
            owed == at[2]
            d == DecodeIITType(infos, pos, llvm)
        IN  IF owed = 0 /\ Byte(infos, pos) = 0 THEN <<>>
            ELSE <<d.descriptor>> \o
                   decode[<<pos + d.bytes, (IF owed = 0 THEN 0 ELSE owed - 1) + d.types>>]
  IN  decode

\* The entries are those of the long table or the digits of the word.
IITEntries(word, IIT_LongEncodingTable) ==
  IF word.sign THEN IIT_LongEncodingTable
  ELSE IF word.low = <<>> THEN <<0>> ELSE word.low

getIntrinsicInfoTableEntries(word, IIT_LongEncodingTable, llvm) ==
  LET first == IF word.sign THEN word.low + 1 ELSE 1
  IN  DecodeTypes(IITEntries(word, IIT_LongEncodingTable), llvm)[<<first, 1>>]

=============================================================================
