---------------------------- MODULE IntrinsicTables ----------------------------
(***************************************************************************)
(* The generator of the intrinsic tables, include/llvm/GenXIntrinsics/     *)
(* Intrinsics.py: the functions createOverloadTable, createOverloadArgs-   *)
(* Table, createOverloadRetTable, createTypeTable, createAttributeTable    *)
(* and createPlatformTable in the order they are called, over one table of *)
(* intrinsics; and the functions of GenXIntrinsics.cpp that read what it   *)
(* has written.                                                            *)
(*                                                                         *)
(* An intrinsic is its identifier, from 1: its place in ID_array. The      *)
(* order of ID_array is the business of IntrinsicNames.                    *)
(***************************************************************************)
EXTENDS IntrinsicSignatures

CONSTANTS Tables,        \* the tables the generator may be given
          LLVMVersions   \* the versions of LLVM it may be told

\* A table that the generator gets through without an exception.
ASSUME TablesAssumption ==
  /\ LLVMVersions \subseteq Nat
  /\ \A t \in Tables : Len(t) \in Nat
  /\ \A t \in Tables : \A n \in 1..Len(t) : WellFormed(t[n])

\* A platform expression is a sign and a name.
ASSUME PlatformsAssumption ==
  \A t \in Tables : \A n \in 1..Len(t) : t[n].platforms \in Seq(STRING \X STRING)

VARIABLES
  Intrinsics,          \* the table
  llvm_version_major,
  phase,               \* the function that runs
  i,                   \* intrinsics its loop has passed
  OTable, OverloadedArgs, OverloadedRet,
  IIT_Basic,           \* the type strings
  IIT_Table, IIT_Long, pos_counter,
  IntrinsicsToAttributesMap, attribute_Array,
  support_matrix

tables == <<OTable, OverloadedArgs, OverloadedRet>>
strings == <<IIT_Basic, IIT_Table, IIT_Long, pos_counter>>
attributes == <<IntrinsicsToAttributesMap, attribute_Array>>
vars == <<Intrinsics, llvm_version_major, phase, i, tables, strings, attributes,
          support_matrix>>

Ids == 1..Len(Intrinsics)

-----------------------------------------------------------------------------
(* Attributes.                                                             *)

attribute_map ==
  [None |-> {"NoUnwind"}, NoMem |-> {"NoUnwind", "ReadNone"},
   ReadMem |-> {"NoUnwind", "ReadOnly"},
   ReadArgMem |-> {"NoUnwind", "ReadOnly", "ArgMemOnly"},
   ReadWriteArgMem |-> {"NoUnwind", "ArgMemOnly"},
   NoReturn |-> {"NoUnwind", "NoReturn"}, NoDuplicate |-> {"NoUnwind", "NoDuplicate"},
   Convergent |-> {"NoUnwind", "Convergent"},
   InaccessibleMemOnly |-> {"NoUnwind", "InaccessibleMemOnly"},
   WriteMem |-> {"NoUnwind", "WriteOnly"},
   SideEffects |-> {"NoUnwind"}, NoWillReturn |-> {"NoUnwind"}]

\* The memory effects among the attributes; each replaces the one before.
modref_map == {"ReadNone", "ReadOnly", "WriteOnly"}

\* Mutant: NoWillReturn and NoReturn are forgotten.
AlwaysReturns(Attrs) ==
  UNION {attribute_map[Attrs[k]] : k \in 1..Len(Attrs)} \cup {"WillReturn"}

getAttributeListModRef(Attrs) ==
  LET s == UNION {attribute_map[Attrs[k]] : k \in 1..Len(Attrs)}
      isReturn == /\ \A k \in 1..Len(Attrs) : Attrs[k] # "NoWillReturn"
                  /\ "NoReturn" \notin s
  IN  s \cup (IF isReturn THEN {"WillReturn"} ELSE {})

-----------------------------------------------------------------------------
(* Platforms.                                                              *)

platform_list ==
  <<"Gen8", "Gen9", "Gen9LP", "Gen11", "XeLP", "XeHP", "XeHPG", "XeLPG",
    "XeLPGPlus", "XeHPC", "XeHPCVG", "Xe2", "Xe3", "Xe3P", "Xe3PLPG">>

Platforms == 1..Len(platform_list)

\* platforms.get: the number of a platform, 0 for a name that is none.
PlatformId(name) ==
  LET ids == {p \in Platforms : platform_list[p] = name}
  IN  IF ids = {} THEN 0 ELSE CHOOSE p \in ids : TRUE

\* NameError, for an expression with no meaning.
BadExpression(expr) ==
  expr[1] # "ALL" /\ (PlatformId(expr[2]) = 0 \/ expr[1] \notin {"", "+", "-", "~"})

\* Mutant: "+" without the platform itself.
LaterPlatforms(row, expr) ==
  LET id == PlatformId(expr[2])
  IN  [p \in Platforms |->
         CASE expr[1] = ""    -> p = id \/ row[p]
           [] expr[1] = "+"   -> p > id \/ row[p]
           [] expr[1] = "-"   -> p < id \/ row[p]
           [] expr[1] = "~"   -> p # id /\ row[p]
           [] expr[1] = "ALL" -> TRUE]

\* platformExprProcess: the row of an intrinsic after one expression more.
platformExprProcess(row, expr) ==
  LET id == PlatformId(expr[2])
  IN  [p \in Platforms |->
         CASE expr[1] = ""    -> p = id \/ row[p]
           [] expr[1] = "+"   -> p >= id \/ row[p]
           [] expr[1] = "-"   -> p < id \/ row[p]
           [] expr[1] = "~"   -> p # id /\ row[p]
           [] expr[1] = "ALL" -> TRUE]

PlatformRow(exprs) ==
  LET row[k \in 0..Len(exprs)] ==
        IF k = 0 THEN [p \in Platforms |-> exprs = <<>>]
                 ELSE platformExprProcess(row[k - 1], exprs[k])
  IN  row[Len(exprs)]

-----------------------------------------------------------------------------
(* The generator.                                                          *)

Init ==
  /\ Intrinsics \in Tables
  /\ llvm_version_major \in LLVMVersions
  /\ phase = "OverloadTable"
  /\ i = 0
  /\ OTable = <<>> /\ OverloadedArgs = <<>> /\ OverloadedRet = {}
  /\ IIT_Basic = <<>> /\ IIT_Table = <<>> /\ IIT_Long = <<>> /\ pos_counter = 0
  /\ IntrinsicsToAttributesMap = <<>> /\ attribute_Array = <<>>
  /\ support_matrix = <<>>

Given == UNCHANGED <<Intrinsics, llvm_version_major>>
Call(function) == phase' = function /\ i' = 0

\* The fields of an intrinsic are searched for "any".
HasAny(entry) ==
  \/ \E k \in 1..Len(entry.result) : IsAny(entry.result[k])
  \/ \E k \in 1..Len(entry.arguments) : IsAny(entry.arguments[k])

\* OTable: a byte for every eight identifiers, with the bits that are set.
OverloadBytes(table) ==
  [byte \in 1..(Len(table) \div 8 + 1) |->
     {n % 8 : n \in {m \in 1..Len(table) : m \div 8 = byte - 1 /\ HasAny(table[m])}}]

createOverloadTable ==
  /\ phase = "OverloadTable"
  /\ OTable' = OverloadBytes(Intrinsics)
  /\ Call("OverloadArgsTable")
  /\ Given /\ UNCHANGED <<OverloadedArgs, OverloadedRet, strings, attributes,
                          support_matrix>>

\* Mutant: the arguments from 1.
ArgNumsFromOne(entry) ==
  {z \in 1..Len(entry.arguments) : IsAny(entry.arguments[z])}

\* The arguments from 0, as in the switch that is written.
argNums(entry) ==
  {z \in 0..(Len(entry.arguments) - 1) : IsAny(entry.arguments[z + 1])}

createOverloadArgsTable ==
  /\ phase = "OverloadArgsTable"
  /\ OverloadedArgs' = [n \in Ids |-> argNums(Intrinsics[n])]
  /\ Call("OverloadRetTable")
  /\ Given /\ UNCHANGED <<OTable, OverloadedRet, strings, attributes, support_matrix>>

OverloadableRet(entry) == \E k \in 1..Len(entry.result) : IsAny(entry.result[k])

createOverloadRetTable ==
  /\ phase = "OverloadRetTable"
  /\ OverloadedRet' = {n \in Ids : OverloadableRet(Intrinsics[n])}
  /\ Call("TypeStrings")
  /\ Given /\ UNCHANGED <<OTable, OverloadedArgs, strings, attributes, support_matrix>>

\* createTypeTable, the first loop.
EncodeTypes ==
  /\ phase = "TypeStrings"
  /\ IIT_Basic' = [n \in Ids |-> Signature(Intrinsics[n], llvm_version_major)]
  /\ Call("TypeTable")
  /\ Given /\ UNCHANGED <<tables, IIT_Table, IIT_Long, pos_counter, attributes,
                          support_matrix>>

\* Mutant: the zero is not counted.
BytesOfCodes(codes) == Len(codes)

\* The bytes of the long table that an entry takes: a zero ends it.
BytesOf(codes) == Len(codes) + 1

\* createTypeTable, the second loop: one entry, in its word or in the long table
\* with a zero after it (the -1 of the code, written as 0).
PackEntry ==
  /\ phase = "TypeTable"
  /\ i < Len(Intrinsics)
  /\ LET codes == IIT_Basic[i + 1]
     IN  IF FitsWord(codes)
           THEN /\ IIT_Table' = Append(IIT_Table, Inline(codes))
                /\ UNCHANGED <<IIT_Long, pos_counter>>
           ELSE /\ IIT_Table' = Append(IIT_Table, LongWord(pos_counter))
                /\ IIT_Long' = IIT_Long \o codes \o <<0>>
                /\ pos_counter' = pos_counter + BytesOf(codes)
  /\ i' = i + 1
  /\ Given /\ UNCHANGED <<phase, tables, IIT_Basic, attributes, support_matrix>>

\* The tables of types are written, the long one with a last byte 255.
WriteTypeTable ==
  /\ phase = "TypeTable"
  /\ i = Len(Intrinsics)
  /\ IIT_Long' = Append(IIT_Long, 255)
  /\ Call("AttributeTable")
  /\ Given /\ UNCHANGED <<tables, IIT_Basic, IIT_Table, pos_counter, attributes,
                          support_matrix>>

\* Mutant: attributes in another order are the same.
NumberOfSet(attrs) ==
  LET names(s) == {s[k] : k \in 1..Len(s)}
      found == {j \in 1..Len(attribute_Array) : names(attribute_Array[j]) = names(attrs)}
  IN  IF found = {} THEN Len(attribute_Array) + 1
                    ELSE CHOOSE j \in found : \A k \in found : j <= k

\* The number of a list of attributes: where it is, or the next.
NumberOf(attrs) ==
  LET found == {j \in 1..Len(attribute_Array) : attribute_Array[j] = attrs}
  IN  IF found = {} THEN Len(attribute_Array) + 1
                    ELSE CHOOSE j \in found : \A k \in found : j <= k

\* createAttributeTable: intrinsics with the same attributes share a number.
NumberAttributes ==
  /\ phase = "AttributeTable"
  /\ i < Len(Intrinsics)
  /\ LET intrinsic_attribute == Intrinsics[i + 1].attributes
         number == NumberOf(intrinsic_attribute)
     IN  /\ IntrinsicsToAttributesMap' = Append(IntrinsicsToAttributesMap, number)
         /\ attribute_Array' = IF number > Len(attribute_Array)
                                 THEN Append(attribute_Array, intrinsic_attribute)
                                 ELSE attribute_Array
  /\ i' = i + 1
  /\ Given /\ UNCHANGED <<phase, tables, strings, support_matrix>>

WriteAttributeTable ==
  /\ phase = "AttributeTable"
  /\ i = Len(Intrinsics)
  /\ Call("PlatformTable")
  /\ Given /\ UNCHANGED <<tables, strings, attributes, support_matrix>>

\* createPlatformTable: the row of one intrinsic.
FillSupport ==
  /\ phase = "PlatformTable"
  /\ i < Len(Intrinsics)
  /\ LET exprs == Intrinsics[i + 1].platforms
     IN  IF \E k \in 1..Len(exprs) : BadExpression(exprs[k])
           THEN phase' = "NameError" /\ UNCHANGED <<i, support_matrix>>
           ELSE /\ support_matrix' = Append(support_matrix, PlatformRow(exprs))
                /\ i' = i + 1
                /\ UNCHANGED phase
  /\ Given /\ UNCHANGED <<tables, strings, attributes>>

WritePlatformTable ==
  /\ phase = "PlatformTable"
  /\ i = Len(Intrinsics)
  /\ Call("done")
  /\ Given /\ UNCHANGED <<tables, strings, attributes, support_matrix>>

Next ==
  \/ createOverloadTable \/ createOverloadArgsTable \/ createOverloadRetTable
  \/ EncodeTypes \/ PackEntry \/ WriteTypeTable
  \/ NumberAttributes \/ WriteAttributeTable
  \/ FillSupport \/ WritePlatformTable

Spec == Init /\ [][Next]_vars

-----------------------------------------------------------------------------
(* The readers in GenXIntrinsics.cpp.                                      *)

isOverloaded(id) == id % 8 \in OTable[id \div 8 + 1]
isOverloadedArg(id, ArgNum) == ArgNum \in OverloadedArgs[id]
isOverloadedRet(id) == id \in OverloadedRet

Descriptors(id) ==
  getIntrinsicInfoTableEntries(IIT_Table[id], IIT_Long, llvm_version_major)

\* getAttributes, for LLVM 16 and later.
getAttributes(id) ==
  getAttributeListModRef(attribute_Array[IntrinsicsToAttributesMap[id]])

\* isSupportedPlatform for a platform of the list; an identifier out of the
\* matrix (id 0 wraps around in size_t) is not supported anywhere.
isSupportedPlatform(p, id) == id \in 1..Len(support_matrix) /\ support_matrix[id][p]

-----------------------------------------------------------------------------
(* What the tables should say. The meaning of a signature does not depend  *)
(* on the version of LLVM, on codes or on where they are kept.             *)

ScalarMeaning ==
  [void |-> <<"Void">>, vararg |-> <<"VarArg">>,
   bool |-> <<"Integer", 1>>, char |-> <<"Integer", 8>>, short |-> <<"Integer", 16>>,
   int |-> <<"Integer", 32>>, long |-> <<"Integer", 64>>,
   half |-> <<"Half">>, float |-> <<"Float">>, double |-> <<"Double">>]

AddressSpaceOf == [ptr_private |-> 0, ptr_global |-> 1, ptr_constant |-> 2,
                   ptr_local |-> 3, ptr_generic |-> 4]

\* The k-th overloaded type of a signature, a reference to it being the same.
OverloadedMeaning(signature, k) ==
  <<"Overloaded", k - 1, any_map[signature[AnyAt(signature, k)]]>>

TypeMeaning(signature, p) ==
  LET type == signature[p]
  IN  CASE type \in DOMAIN ScalarMeaning  -> <<ScalarMeaning[type]>>
        [] type \in DOMAIN VectorTypes    ->
             <<<<"Vector", VectorTypes[type][2]>>,
               ScalarMeaning[VectorTypes[type][1]]>>
        [] type \in DOMAIN AddressSpaceOf ->
             <<<<"Pointer", AddressSpaceOf[type]>>, <<"Integer", 8>>>>
        [] type \in DOMAIN MatchTypes     ->
             <<OverloadedMeaning(signature, MatchTypes[type])>>
        [] IsAny(type)                    ->
             <<OverloadedMeaning(signature, AnysBefore(signature, p) + 1)>>

Meaning(entry) ==
  LET signature == entry.result \o entry.arguments
      meaning[p \in 0..Len(signature)] ==
        IF p = 0 THEN IF Len(entry.result) = 1 THEN <<>>
                                               ELSE <<<<"Struct", Len(entry.result)>>>>
                 ELSE meaning[p - 1] \o TypeMeaning(signature, p)
  IN  meaning[Len(signature)]

\* Type names that the generator has no codes for ("intvector", which it takes
\* for a vector type and encodes as nothing) and those whose code the reader
\* takes for two types (a default type).
NotEncoded == {"intvector"} \cup DOMAIN DefaultTypes
Encoded(entry) == \A k \in 1..Len(entry.result \o entry.arguments) :
                    (entry.result \o entry.arguments)[k] \notin NotEncoded

\* The places of the values of a signature, struct elements included, among its
\* descriptors. The others begin a type.
ValuePlaces(d) == {p \in 1..Len(d) : d[p][1] \notin {"Struct", "Vector", "Pointer"}}

\* An overloaded type of which no earlier value has the number.
IntroducesOverload(d, p) ==
  /\ d[p][1] = "Overloaded"
  /\ \A q \in 1..(p - 1) : d[q][1] = "Overloaded" => d[q][2] # d[p][2]

\* The last expression that names a platform decides on it.
Mentions(expr, p) ==
  LET id == PlatformId(expr[2])
  IN  CASE expr[1] \in {"", "~"} -> p = id
        [] expr[1] = "+"         -> p >= id
        [] expr[1] = "-"         -> p < id
        [] OTHER                 -> TRUE

DeclaredSupport(entry, p) ==
  LET naming == {k \in 1..Len(entry.platforms) : Mentions(entry.platforms[k], p)}
  IN  \/ entry.platforms = <<>>
      \/ /\ naming # {}
         /\ entry.platforms[CHOOSE k \in naming : \A j \in naming : j <= k][1] # "~"

\* LLVM deletes a call with no result to use, when it writes no memory and returns.
Removable(attrs) ==
  attrs \cap {"ReadNone", "ReadOnly"} # {} /\ {"WillReturn", "NoUnwind"} \subseteq attrs

\* A prefetch whose declaration says that it only reads memory: calls of it are
\* deleted. Its documentation and its siblings speak of a side effect.
ReadOnlyPrefetch == "lsc_prefetch2d_typed_bti"

\* Attributes that may stand at a declaration without a result: it does not say
\* that memory is only read, or it says that the call may not return.
HasEffect(Attrs) ==
  \/ \E k \in 1..Len(Attrs) : Attrs[k] \in {"NoReturn", "NoWillReturn"}
  \/ \A k \in 1..Len(Attrs) : Attrs[k] \notin {"NoMem", "ReadMem", "ReadArgMem"}

\* The declarations: attributes are known by name, and what has no result is
\* declared with an effect.
ASSUME EffectsAssumption ==
  \A t \in Tables : \A n \in 1..Len(t) :
    /\ t[n].attributes \in Seq(DOMAIN attribute_map)
    /\ t[n].result = <<"void">> /\ t[n].name # ReadOnlyPrefetch =>
         HasEffect(t[n].attributes)

-----------------------------------------------------------------------------
(* Properties.                                                             *)

Phases == {"OverloadTable", "OverloadArgsTable", "OverloadRetTable", "TypeStrings",
           "TypeTable", "AttributeTable", "PlatformTable", "done", "NameError"}

\* The tables of types are written.
TypesDone == phase \in {"AttributeTable", "PlatformTable", "done", "NameError"}

\* The counters and the shape of the tables, while they are made.
TypeOK ==
  /\ Intrinsics \in Tables
  /\ llvm_version_major \in LLVMVersions
  /\ phase \in Phases
  /\ i \in 0..Len(Intrinsics)
  /\ pos_counter \in Nat
  /\ pos_counter = Len(IIT_Long) - (IF TypesDone THEN 1 ELSE 0)
  /\ Len(IIT_Table) = IF TypesDone THEN Len(Intrinsics)
                      ELSE IF phase = "TypeTable" THEN i ELSE 0

\* createTypeTable: a word of IIT_Table leads to the codes of its own intrinsic
\* and to no more, in the word or in the long table, whatever has been added
\* to the long table since.
EntriesIntact ==
  \A n \in 1..Len(IIT_Table) :
    LET codes == IIT_Basic[n]
        word  == IIT_Table[n]
    IN  IF FitsWord(codes) THEN word = Inline(codes)
        ELSE /\ word.sign
             /\ word.low + Len(codes) < Len(IIT_Long)
             /\ \A k \in 1..Len(codes) : IIT_Long[word.low + k] = codes[k]
             /\ IIT_Long[word.low + Len(codes) + 1] = 0

\* encodeTypeString against DecodeIITType: what GenXIntrinsics.cpp decodes is
\* the signature as Intrinsic_definitions.py declares it, under each packing of
\* overloaded types, for every intrinsic whose type names have a code.
SignatureRoundTrip ==
  phase = "done" =>
    \A n \in Ids : Encoded(Intrinsics[n]) => Descriptors(n) = Meaning(Intrinsics[n])

\* The three overload tables and the decoded signature tell the same story: an
\* intrinsic, its result, its argument is overloaded when a type of the caller's
\* list is taken there first, and the list is taken in order without gaps.
OverloadTablesAgree ==
  phase = "done" =>
    \A n \in Ids : Encoded(Intrinsics[n]) =>
      LET d         == Descriptors(n)
          results   == Len(Intrinsics[n].result)
          Before(p) == Cardinality({q \in ValuePlaces(d) : q < p})
          fresh     == {p \in 1..Len(d) : IntroducesOverload(d, p)}
      IN  /\ isOverloaded(n) <=> fresh # {}
          /\ isOverloadedRet(n) <=> \E p \in fresh : Before(p) < results
          /\ \A p \in ValuePlaces(d) :
               Before(p) >= results => (isOverloadedArg(n, Before(p) - results) <=> p \in fresh)
          /\ \A p \in fresh : d[p][2] = Cardinality({q \in fresh : q < p})

\* createAttributeTable: numbers are shared by intrinsics with the same attributes
\* and by no others, so that getAttributes gives an intrinsic its own.
AttributesOwn ==
  /\ \A n \in 1..Len(IntrinsicsToAttributesMap) :
       /\ IntrinsicsToAttributesMap[n] \in 1..Len(attribute_Array)
       /\ attribute_Array[IntrinsicsToAttributesMap[n]] = Intrinsics[n].attributes
  /\ \A j, k \in 1..Len(attribute_Array) :
       attribute_Array[j] = attribute_Array[k] => j = k

\* Calls of intrinsics without a result are made for their effect; the attributes
\* getAttributes gives them let LLVM delete none (one is, see ReadOnlyPrefetch).
VoidCallsSurvive ==
  phase = "done" =>
    \A n \in Ids :
      /\ Intrinsics[n].result = <<"void">>
      /\ Intrinsics[n].name # ReadOnlyPrefetch
      => ~Removable(getAttributes(n))

\* createPlatformTable: a platform is supported as the last of the expressions
\* that names it says, and not at all when none does.
SupportedAsDeclared ==
  phase = "done" =>
    \A n \in Ids, p \in Platforms :
      isSupportedPlatform(p, n) <=> DeclaredSupport(Intrinsics[n], p)
=============================================================================
