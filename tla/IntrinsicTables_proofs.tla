------------------------- MODULE IntrinsicTables_proofs -------------------------
(***************************************************************************)
(* Proofs about the generator, for every table of intrinsics that it gets  *)
(* through (TablesAssumption) and every version of LLVM.                   *)
(***************************************************************************)
EXTENDS IntrinsicTables, Recursion, SequenceTheorems, TLAPS

-----------------------------------------------------------------------------
(* The number of an overloaded type.                                       *)

\* The second code of an overloaded type is a byte that the reader takes apart as
\* the generator put it together, in both packings, for the first 32 overloaded
\* types of a signature (addAnyTypes, IIT_ARG in LLVM's DecodeIITType).
THEOREM PackingInverts ==
  ASSUME NEW type \in DOMAIN any_map, NEW argNum \in 0..31, NEW llvm \in Nat
  PROVE  LET code == addAnyTypes(type, argNum, llvm)[2]
         IN  /\ code \in 0..255
             /\ OverloadedDescriptor(code, llvm) = <<"Overloaded", argNum, any_map[type]>>
<1>1. /\ type \in {"any", "anyint", "anyfloat", "anyvector", "anyptr"}
      /\ any_map[type] \in 0..4
  BY DEF any_map
<1>2. type \notin DOMAIN DefaultTypes
  BY <1>1 DEF DefaultTypes
<1> DEFINE kind == any_map[type]
           code == IF llvm >= 23 THEN 32 * kind + argNum ELSE 8 * argNum + kind
<1>3. addAnyTypes(type, argNum, llvm)[2] = code
  BY <1>2 DEF addAnyTypes
<1>4. code \in 0..255
  BY <1>1
<1>5. CASE llvm >= 23
  <2>1. code % 32 = argNum /\ code \div 32 = kind
    BY <1>1, <1>5
  <2>2. QED
    BY <2>1, <1>3, <1>4, <1>5 DEF OverloadedDescriptor
<1>6. CASE ~(llvm >= 23)
  <2>1. code % 8 = kind /\ code \div 8 = argNum
    BY <1>1, <1>6
  <2>2. QED
    BY <2>1, <1>3, <1>4, <1>6 DEF OverloadedDescriptor
<1>7. QED
  BY <1>5, <1>6

\* A bit of the byte table of createOverloadTable is set for the intrinsics that
\* are overloaded and for no others: isOverloaded reads it, id / 8 and id % 8.
THEOREM OverloadBits ==
  ASSUME NEW table, Len(table) \in Nat, NEW id \in 1..Len(table)
  PROVE  id % 8 \in OverloadBytes(table)[id \div 8 + 1] <=> HasAny(table[id])
<1>1. id \div 8 + 1 \in 1..(Len(table) \div 8 + 1)
  OBVIOUS
<1>2. OverloadBytes(table)[id \div 8 + 1] =
        {n % 8 : n \in {m \in 1..Len(table) : m \div 8 = id \div 8 /\ HasAny(table[m])}}
  <2>1. (id \div 8 + 1) - 1 = id \div 8
    OBVIOUS
  <2>2. QED
    BY <1>1, <2>1 DEF OverloadBytes
<1>3. \A m \in 1..Len(table) : m \div 8 = id \div 8 /\ m % 8 = id % 8 => m = id
  OBVIOUS
<1>4. ASSUME id % 8 \in OverloadBytes(table)[id \div 8 + 1] PROVE HasAny(table[id])
  <2>1. PICK m \in 1..Len(table) : m \div 8 = id \div 8 /\ HasAny(table[m]) /\ m % 8 = id % 8
    BY <1>2, <1>4
  <2>2. QED
    BY <1>3, <2>1
<1>5. ASSUME HasAny(table[id]) PROVE id % 8 \in OverloadBytes(table)[id \div 8 + 1]
  BY <1>2, <1>5
<1>6. QED
  BY <1>4, <1>5

-----------------------------------------------------------------------------
(***************************************************************************)
(* From the codes of a signature back to the signature, for every version  *)
(* of LLVM and every signature the generator takes. The order is: what the *)
(* reader does at one place, the codes of one type, sequences made by      *)
(* joining one part after the other (the generator and the meaning are     *)
(* both such), the reader over one type, and over all of them.             *)
(***************************************************************************)

(* The reader as a function of the place and of the types still to come.   *)

\* The codes of each kind of descriptor.
LEMMA CodeCases ==
  /\ DOMAIN IntegerCodes = 1..5 /\ DOMAIN FloatCodes = 6..8
  /\ DOMAIN VectorCodes = 9..13 /\ DOMAIN StructCodes = 21..24
BY DEF IntegerCodes, FloatCodes, VectorCodes, StructCodes

\* A step of the decoding goes on by a byte or two, owes at most five types more,
\* and none after the last of the entries.
LEMMA DecodedShape ==
  ASSUME NEW infos, NEW pos, NEW llvm
  PROVE  LET d == DecodeIITType(infos, pos, llvm)
         IN  /\ d.bytes \in 1..2 /\ d.types \in 0..5
             /\ pos > Len(infos) => d.bytes = 1 /\ d.types = 0
<1> DEFINE info == Byte(infos, pos)
           d == DecodeIITType(infos, pos, llvm)
<1>1. \A c \in 21..24 : StructCodes[c] \in 0..5
  BY DEF StructCodes
<1>2. pos > Len(infos) => info = 0
  BY DEF Byte
<1>3. info = 0 => d.bytes = 1 /\ d.types = 0
  BY CodeCases DEF DecodeIITType
<1>4. d.bytes \in 1..2
  BY CodeCases DEF DecodeIITType
<1>5. d.types \in 0..5
  BY <1>1, CodeCases DEF DecodeIITType
<1> QED
  BY <1>2, <1>3, <1>4, <1>5

\* The function DecodeTypes follows its definition.
DecodesFrom(f, infos, llvm, pos, owed) ==
  LET d == DecodeIITType(infos, pos, llvm)
  IN  f[<<pos, owed>>] =
        IF owed = 0 /\ Byte(infos, pos) = 0 THEN <<>>
        ELSE <<d.descriptor>> \o f[<<pos + d.bytes, (IF owed = 0 THEN 0 ELSE owed - 1) + d.types>>]

\* Reading ends: past the last entry there are only zeros, and a zero that is owed
\* lets the next read find one type less to come.
LEMMA DecodingExists ==
  ASSUME NEW infos, Len(infos) \in Nat, NEW llvm
  PROVE  \A pos, owed \in Nat : DecodesFrom(DecodeTypes(infos, llvm), infos, llvm, pos, owed)
<1> DEFINE D(p) == DecodeIITType(infos, p, llvm)
           X == Nat \X Nat
           V == Seq({D(p).descriptor : p \in Nat})
           done == {x \in X : x[2] = 0 /\ Byte(infos, x[1]) = 0}
           end == [x \in X |-> <<>>]
           next == [x \in X |-> <<x[1] + D(x[1]).bytes,
                                  (IF x[2] = 0 THEN 0 ELSE x[2] - 1) + D(x[1]).types>>]
           step == [z \in X \X V |-> <<D(z[1][1]).descriptor>> \o z[2]]
           rest(p) == IF p <= Len(infos) THEN Len(infos) + 1 - p ELSE 0
           m == [x \in X |-> 6 * rest(x[1]) + x[2]]
<1>1. \A p \in Nat : /\ D(p).bytes \in 1..2 /\ D(p).types \in 0..5
                     /\ p > Len(infos) => D(p).bytes = 1 /\ D(p).types = 0
  <2>1. ASSUME NEW p \in Nat
        PROVE  /\ D(p).bytes \in 1..2 /\ D(p).types \in 0..5
               /\ p > Len(infos) => D(p).bytes = 1 /\ D(p).types = 0
    BY DecodedShape
  <2> QED
    BY <2>1
<1>2. m \in [X -> Nat]
  OBVIOUS
<1>3. Nearer(X, done, next, m)
  <2> HIDE DEF D
  <2> SUFFICES ASSUME NEW p \in Nat, NEW o \in Nat, <<p, o>> \notin done
               PROVE  next[<<p, o>>] \in X /\ m[next[<<p, o>>]] < m[<<p, o>>]
    BY ZenonT(60) DEF Nearer
  <2> DEFINE p2 == p + D(p).bytes
             o2 == (IF o = 0 THEN 0 ELSE o - 1) + D(p).types
  <2>1. <<p, o>> \in X /\ next[<<p, o>>] = <<p2, o2>>
    OBVIOUS
  <2>2. p2 \in Nat /\ o2 \in Nat
    BY <1>1, SMTT(30)
  <2>3. m[<<p, o>>] = 6 * rest(p) + o /\ m[<<p2, o2>>] = 6 * rest(p2) + o2
    BY <2>1, <2>2
  <2>4. 6 * rest(p2) + o2 < 6 * rest(p) + o
    <3>1. CASE p > Len(infos)
      <4>1. Byte(infos, p) = 0
        BY <3>1 DEF Byte
      <4>2. o # 0
        BY <4>1, <2>1
      <4> QED
        BY <1>1, <3>1, <4>2
    <3>2. CASE p <= Len(infos)
      <4>1. rest(p2) <= rest(p) - 1 /\ rest(p2) \in Nat /\ rest(p) \in Nat
        BY <1>1, <3>2, SMTT(30)
      <4>2. o2 <= o + 5
        BY <1>1, SMTT(30)
      <4> HIDE DEF rest, o2
      <4> QED
        BY <4>1, <4>2, <2>2, SMTT(30)
    <3> QED
      BY <3>1, <3>2
  <2> HIDE DEF next, m
  <2> QED
    BY <2>1, <2>2, <2>3, <2>4
<1>4. end \in [X -> V]
  OBVIOUS
<1>5. step \in [X \X V -> V]
  <2> SUFFICES ASSUME NEW x \in X, NEW v \in V
               PROVE  <<D(x[1]).descriptor>> \o v \in V
    OBVIOUS
  <2>1. <<D(x[1]).descriptor>> \in V
    OBVIOUS
  <2> HIDE DEF D
  <2> QED
    BY <2>1
<1>6. PICK g \in [X -> V] : Recursive(g, X, done, end, next, step)
  <2> HIDE DEF X, V, done, end, next, step, m
  <2> QED
    BY <1>2, <1>3, <1>4, <1>5, RecursionExists
<1> DEFINE Fits(f) ==
      f = [at \in Nat \X Nat |->
            LET pos == at[1]
                owed == at[2]
                d == DecodeIITType(infos, pos, llvm)
            IN  IF owed = 0 /\ Byte(infos, pos) = 0 THEN <<>>
                ELSE <<d.descriptor>> \o
                       f[<<pos + d.bytes, (IF owed = 0 THEN 0 ELSE owed - 1) + d.types>>]]
<1>7. Fits(g)
  <2>1. ASSUME NEW x \in X
        PROVE  (IF x \in done THEN end[x] ELSE step[<<x, g[next[x]]>>]) =
               LET d == D(x[1])
               IN  IF x[2] = 0 /\ Byte(infos, x[1]) = 0 THEN <<>>
                   ELSE <<d.descriptor>> \o
                       g[<<x[1] + d.bytes, (IF x[2] = 0 THEN 0 ELSE x[2] - 1) + d.types>>]
    <3>1. CASE x \in done
      BY <3>1
    <3>2. CASE x \notin done
      <4>1. next[x] \in X
        BY <3>2, <1>3 DEF Nearer
      <4>2. g[next[x]] \in V
        <5> HIDE DEF X, V, next
        <5> QED
          BY <4>1
      <4>3. step[<<x, g[next[x]]>>] = <<D(x[1]).descriptor>> \o g[next[x]]
        <5>1. <<x, g[next[x]]>> \in X \X V
          <6> HIDE DEF X, V, next
          <6> QED
            BY <4>2
        <5> HIDE DEF X, V, next, D
        <5> QED
          BY <5>1
      <4> QED
        BY <3>2, <4>3
    <3> QED
      BY <3>1, <3>2
  <2> HIDE DEF done, end, step, next
  <2> QED
    BY <2>1, <1>6, ZenonT(60) DEF Recursive
<1>8. DecodeTypes(infos, llvm) = CHOOSE f : Fits(f)
  BY DEF DecodeTypes
<1>9. Fits(DecodeTypes(infos, llvm))
  <2> HIDE DEF Fits
  <2> QED
    BY <1>7, <1>8
<1> QED
  BY <1>9 DEF DecodesFrom

-----------------------------------------------------------------------------
(* The overloaded types of a signature.                                    *)

\* The overloaded types before a place are counted from the place before it.
LEMMA AnysCounted ==
  ASSUME NEW types, NEW p \in Nat \ {0}
  PROVE  /\ AnysBefore(types, p) \in Nat
         /\ AnysBefore(types, p + 1) =
              AnysBefore(types, p) + (IF IsAny(types[p]) THEN 1 ELSE 0)
         /\ AnysBefore(types, 1) = 0
<1> DEFINE A(n) == {q \in 1..(n - 1) : IsAny(types[q])}
<1>1. IsFiniteSet(A(p)) /\ Cardinality(A(p)) \in Nat
  <2>1. IsFiniteSet(1..(p - 1))
    BY FS_Interval
  <2> QED
    BY <2>1, FS_Subset, FS_CardinalityType
<1>2. A(p + 1) = IF IsAny(types[p]) THEN A(p) \cup {p} ELSE A(p)
  OBVIOUS
<1>3. p \notin A(p)
  OBVIOUS
<1>4. A(1) = {}
  OBVIOUS
<1>5. Cardinality(A(p) \cup {p}) = Cardinality(A(p)) + 1
  <2> HIDE DEF A
  <2> QED
    BY <1>1, <1>3, FS_AddElement
<1>6. \A n : AnysBefore(types, n) = Cardinality(A(n))
  BY DEF AnysBefore
<1> HIDE DEF A
<1> QED
  BY <1>1, <1>2, <1>4, <1>5, <1>6, FS_EmptySet

\* An overloaded type counts for every later place.
LEMMA AnysGrow ==
  ASSUME NEW types, NEW p \in Nat \ {0}, NEW q \in Nat, p < q
  PROVE  AnysBefore(types, p) + (IF IsAny(types[p]) THEN 1 ELSE 0) <= AnysBefore(types, q)
<1> DEFINE P == {d \in Nat : AnysBefore(types, p + 1) <= AnysBefore(types, p + 1 + d)}
<1>1. \A n \in Nat \ {0} : /\ AnysBefore(types, n) \in Nat
                           /\ AnysBefore(types, n) <= AnysBefore(types, n + 1)
  <2> SUFFICES ASSUME NEW n \in Nat \ {0}
               PROVE  /\ AnysBefore(types, n) \in Nat
                      /\ AnysBefore(types, n) <= AnysBefore(types, n + 1)
    OBVIOUS
  <2> QED
    BY AnysCounted
<1>2. 0 \in P
  BY <1>1
<1>3. \A d \in Nat : d \in P => d + 1 \in P
  <2> SUFFICES ASSUME NEW d \in P PROVE d + 1 \in P
    OBVIOUS
  <2>1. AnysBefore(types, p + 1 + d) <= AnysBefore(types, (p + 1 + d) + 1)
    BY <1>1
  <2>2. (p + 1 + d) + 1 = p + 1 + (d + 1)
    OBVIOUS
  <2>3. /\ AnysBefore(types, p + 1) \in Nat /\ AnysBefore(types, p + 1 + d) \in Nat
        /\ AnysBefore(types, p + 1 + (d + 1)) \in Nat
    BY <1>1
  <2> QED
    BY <2>1, <2>2, <2>3
<1>4. Nat \subseteq P
  <2> HIDE DEF P
  <2> QED
    BY <1>2, <1>3, NumberInduction
<1>5. q - (p + 1) \in Nat /\ p + 1 + (q - (p + 1)) = q
  OBVIOUS
<1>6. AnysBefore(types, p + 1) <= AnysBefore(types, q)
  BY <1>4, <1>5
<1> QED
  BY <1>6, AnysCounted

\* The k-th overloaded type is there, and comes before a position with k before it.
LEMMA AnyFound ==
  ASSUME NEW types, Len(types) \in Nat, NEW p \in 1..Len(types) + 1,
         NEW k \in 1..AnysBefore(types, p)
  PROVE  LET q == AnyAt(types, k)
         IN  /\ q \in 1..Len(types) /\ q < p /\ IsAny(types[q])
             /\ AnysBefore(types, q) = k - 1
<1> DEFINE T == {r \in Nat : AnysBefore(types, r + 1) >= k}
<1>1. AnysBefore(types, p) \in Nat /\ k \in Nat
  BY AnysCounted
<1>2. p - 1 \in T
  BY <1>1
<1>3. PICK r \in T : \A s \in T : r <= s
  <2> HIDE DEF T
  <2>1. T \subseteq Nat /\ T # {}
    BY <1>2 DEF T
  <2> QED
    BY <2>1, LeastNumber
<1>4. r # 0
  BY AnysCounted, <1>1
<1>5. r - 1 \in Nat /\ r - 1 \notin T /\ r \in Nat \ {0}
  BY <1>3, <1>4
<1>6. AnysBefore(types, r) < k
  BY <1>1, <1>5, AnysCounted, SMTT(30)
<1>7. /\ AnysBefore(types, r) \in Nat
      /\ AnysBefore(types, r + 1) = AnysBefore(types, r) + (IF IsAny(types[r]) THEN 1 ELSE 0)
  BY <1>5, AnysCounted
<1>8. IsAny(types[r]) /\ AnysBefore(types, r) = k - 1
  BY <1>1, <1>3, <1>6, <1>7, SMTT(30)
<1>9. r \in 1..Len(types)
  BY <1>2, <1>3, <1>4
<1>10. \E q \in 1..Len(types) : IsAny(types[q]) /\ AnysBefore(types, q) = k - 1
  BY <1>8, <1>9
<1> DEFINE q == AnyAt(types, k)
<1>11. q \in 1..Len(types) /\ IsAny(types[q]) /\ AnysBefore(types, q) = k - 1
  BY <1>10 DEF AnyAt
<1>12. q < p
  <2> SUFFICES ASSUME p <= q PROVE FALSE
    BY <1>11
  <2>1. AnysBefore(types, p) <= AnysBefore(types, q)
    <3>1. CASE p = q
      BY <3>1, <1>1
    <3>2. CASE p < q
      <4>1. AnysBefore(types, p) + (IF IsAny(types[p]) THEN 1 ELSE 0) <= AnysBefore(types, q)
        <5> HIDE DEF q
        <5> QED
          BY <3>2, <1>11, AnysGrow
      <4> QED
        BY <4>1, <1>1, <1>11
    <3> QED
      BY <3>1, <3>2, <1>11
  <2> QED
    BY <2>1, <1>1, <1>11
<1> QED
  BY <1>11, <1>12

\* The overloaded type at p is the one with its number.
LEMMA AnyIsAt ==
  ASSUME NEW types, Len(types) \in Nat, NEW p \in 1..Len(types), IsAny(types[p])
  PROVE  AnyAt(types, AnysBefore(types, p) + 1) = p
<1> DEFINE k == AnysBefore(types, p) + 1
           q == AnyAt(types, k)
<1>1. k \in 1..AnysBefore(types, p + 1) /\ AnysBefore(types, p) \in Nat
  <2>1. p \in Nat \ {0}
    OBVIOUS
  <2>2. AnysBefore(types, p) \in Nat /\ AnysBefore(types, p + 1) = AnysBefore(types, p) + 1
    BY <2>1, AnysCounted
  <2> QED
    BY <2>2
<1>2. q \in 1..Len(types) /\ q < p + 1 /\ IsAny(types[q]) /\ AnysBefore(types, q) = k - 1
  <2>1. p + 1 \in 1..Len(types) + 1
    OBVIOUS
  <2> HIDE DEF k
  <2> QED
    BY <1>1, <2>1, AnyFound
<1>3. ~(q < p)
  <2> SUFFICES ASSUME q < p PROVE FALSE
    OBVIOUS
  <2>1. AnysBefore(types, q) + 1 <= AnysBefore(types, p)
    <3> HIDE DEF q
    <3> QED
      BY <1>2, AnysGrow
  <2> QED
    BY <2>1, <1>1, <1>2
<1> QED
  BY <1>2, <1>3

-----------------------------------------------------------------------------
(* The codes of a type.                                                    *)

\* The names of types, by the map that has them.
LEMMA NamesOfTypes ==
  /\ DOMAIN type_map = {"void", "bool", "char", "short", "int", "long", "half", "float", "double"}
  /\ DOMAIN pointerTypesi8_map =
       {"ptr_private", "ptr_global", "ptr_constant", "ptr_local", "ptr_generic"}
  /\ DOMAIN any_map = {"any", "anyint", "anyfloat", "anyvector", "anyptr"}
  /\ DOMAIN VectorTypes = {"int16", "char16", "float4", "short8"}
  /\ DOMAIN MatchTypes = {"=0", "=1", "=2"}
  /\ DOMAIN DefaultTypes = {"any:int", "any:float"}
  /\ DOMAIN ScalarMeaning = DOMAIN type_map \cup {"vararg"}
  /\ DOMAIN AddressSpaceOf = DOMAIN pointerTypesi8_map
BY DEF type_map, pointerTypesi8_map, any_map, VectorTypes, MatchTypes, DefaultTypes,
       ScalarMeaning, AddressSpaceOf

\* The codes the maps give to names. Only void has the code 0.
LEMMA CodesOfNames ==
  /\ \A type \in DOMAIN type_map : type_map[type] \in 0..8 /\ (type # "void" => type_map[type] # 0)
  /\ \A type \in DOMAIN any_map : any_map[type] \in 0..4
  /\ \A type \in DOMAIN DefaultTypes : DefaultTypes[type] \in DOMAIN type_map
  /\ \A type \in DOMAIN VectorTypes :
       VectorTypes[type][1] \in DOMAIN type_map \ {"void"} /\ VectorTypes[type][2] \in {4, 8, 16}
  /\ \A lanes \in {2, 4, 8, 16, 32} : lanes_map[lanes] \in 9..13
  /\ \A type \in DOMAIN pointerTypesi8_map :
       pointerTypesi8_map[type] \in {<<14, 2>>} \cup {<<27, n, 2>> : n \in 1..4}
<1> USE NamesOfTypes
<1>1. \A type \in DOMAIN type_map : type_map[type] \in 0..8 /\ (type # "void" => type_map[type] # 0)
  BY DEF type_map
<1>2. \A type \in DOMAIN any_map : any_map[type] \in 0..4
  BY DEF any_map
<1>3. \A type \in DOMAIN DefaultTypes : DefaultTypes[type] \in DOMAIN type_map
  BY DEF DefaultTypes
<1>4. \A type \in DOMAIN VectorTypes :
       VectorTypes[type][1] \in DOMAIN type_map \ {"void"} /\ VectorTypes[type][2] \in {4, 8, 16}
  BY DEF VectorTypes
<1>5. \A lanes \in {2, 4, 8, 16, 32} : lanes_map[lanes] \in 9..13
  BY DEF lanes_map
<1>6. \A type \in DOMAIN pointerTypesi8_map :
       pointerTypesi8_map[type] \in {<<14, 2>>} \cup {<<27, n, 2>> : n \in 1..4}
  BY DEF pointerTypesi8_map
<1> QED
  BY <1>1, <1>2, <1>3, <1>4, <1>5, <1>6

\* What concatenation gives for short tuples.
LEMMA PairAndOne ==
  ASSUME NEW a, NEW b, NEW c
  PROVE  <<a, b>> \o <<c>> = <<a, b, c>>
<1> DEFINE S == {a, b, c}
<1>1. <<a, b>> \in Seq(S) /\ <<c>> \in Seq(S) /\ <<a, b, c>> \in Seq(S)
  OBVIOUS
<1>2. Len(<<a, b>>) = 2 /\ Len(<<c>>) = 1 /\ Len(<<a, b, c>>) = 3
  OBVIOUS
<1>3. <<a, b>> \o <<c>> \in Seq(S) /\ Len(<<a, b>> \o <<c>>) = 3
  BY <1>1, <1>2
<1>4. \A k \in 1..3 : (<<a, b>> \o <<c>>)[k] = <<a, b, c>>[k]
  BY <1>1, <1>2
<1> HIDE DEF S
<1> QED
  BY <1>1, <1>2, <1>3, <1>4, SeqEqual

\* Codes of an overloaded type with n before it are bytes.
LEMMA AnyCodes ==
  ASSUME NEW type, IsAny(type), NEW n \in 0..31, NEW llvm \in Nat
  PROVE  addAnyTypes(type, n, llvm) \in Seq(0..255)
<1> DEFINE value == IF type \in DOMAIN DefaultTypes THEN "any" ELSE type
           num == IF llvm >= 23 THEN 32 * any_map[value] + n ELSE 8 * n + any_map[value]
<1>1. any_map[value] \in 0..4
  BY NamesOfTypes, CodesOfNames DEF IsAny
<1>2. num \in 0..255
  <2> HIDE DEF value
  <2> QED
    BY <1>1
<1>3. type \in DOMAIN DefaultTypes => type_map[DefaultTypes[type]] \in 0..255
  BY CodesOfNames
<1>4. addAnyTypes(type, n, llvm) =
          <<15, num>> \o (IF type \in DOMAIN DefaultTypes
                            THEN <<type_map[DefaultTypes[type]]>> ELSE <<>>)
  BY DEF addAnyTypes
<1> HIDE DEF num
<1>5. <<15, num>> \in Seq(0..255)
  BY <1>2
<1>6. (IF type \in DOMAIN DefaultTypes
         THEN <<type_map[DefaultTypes[type]]>> ELSE <<>>) \in Seq(0..255)
  <2>1. \A c \in 0..255 : <<c>> \in Seq(0..255)
    OBVIOUS
  <2>2. CASE type \in DOMAIN DefaultTypes
    BY <2>1, <2>2, <1>3
  <2>3. CASE type \notin DOMAIN DefaultTypes
    BY <2>3
  <2> QED
    BY <2>2, <2>3
<1> QED
  BY <1>4, <1>5, <1>6

\* The position of the overloaded type that the type at p is, or refers to.
AnyOf(types, p) ==
  IF types[p] \in DOMAIN MatchTypes THEN AnyAt(types, MatchTypes[types[p]]) ELSE p

\* What of WellFormed is about the types alone.
IsSignature(types) ==
  /\ types \in Seq(TypeNames)
  /\ \A p \in 1..Len(types) :
       types[p] \in DOMAIN MatchTypes => MatchTypes[types[p]] <= AnysBefore(types, p)
  /\ AnysBefore(types, Len(types) + 1) <= 32

\* A number less than a bound that is 32 at most.
LEMMA LowNumber ==
  ASSUME NEW a \in Nat, NEW b \in Nat, a + 1 <= b, b <= 32
  PROVE  a \in 0..31
OBVIOUS

\* The overloaded type that a type of a signature is or refers to is there, at the
\* latest in the place of the reference, and has one of the numbers 0 to 31.
LEMMA AnyOfIs ==
  ASSUME NEW types, IsSignature(types), NEW p \in 1..Len(types),
         IsAny(types[p]) \/ types[p] \in DOMAIN MatchTypes
  PROVE  LET q == AnyOf(types, p)
         IN  /\ q \in 1..Len(types) /\ IsAny(types[q]) /\ AnysBefore(types, q) \in 0..31
             /\ q = p \/ (q < p /\ ~IsAny(types[p]) /\ AnysBefore(types, q) = MatchTypes[types[p]] - 1)
             /\ AnyAt(types, AnysBefore(types, q) + 1) = q
<1> DEFINE q == AnyOf(types, p)
<1>1. Len(types) \in Nat
  BY DEF IsSignature
<1>2. q \in 1..Len(types) /\ IsAny(types[q])
      /\ (q = p \/ (q < p /\ ~IsAny(types[p]) /\ AnysBefore(types, q) = MatchTypes[types[p]] - 1))
  <2>1. CASE types[p] \in DOMAIN MatchTypes
    <3>1. MatchTypes[types[p]] \in 1..3
      BY <2>1 DEF MatchTypes
    <3>2. MatchTypes[types[p]] \in 1..AnysBefore(types, p) /\ p \in 1..Len(types) + 1
      <4>1. p \in Nat \ {0} /\ p \in 1..Len(types) + 1
        BY <1>1
      <4>2. AnysBefore(types, p) \in Nat
        BY <4>1, AnysCounted
      <4>3. MatchTypes[types[p]] <= AnysBefore(types, p)
        BY <2>1 DEF IsSignature
      <4> HIDE DEF q
      <4> QED
        BY <3>1, <4>1, <4>2, <4>3
    <3>3. /\ q = AnyAt(types, MatchTypes[types[p]])
          /\ ~IsAny(types[p])
      BY <2>1, NamesOfTypes DEF AnyOf, IsAny
    <3> HIDE DEF q
    <3> QED
      BY <3>2, <3>3, <1>1, AnyFound
  <2>2. CASE types[p] \notin DOMAIN MatchTypes
    BY <2>2 DEF AnyOf
  <2> QED
    BY <2>1, <2>2
<1>3. AnysBefore(types, q) \in 0..31
  <2> HIDE DEF q
  <2>1. AnysBefore(types, q) + 1 <= AnysBefore(types, Len(types) + 1)
    BY <1>1, <1>2, AnysGrow
  <2>2. AnysBefore(types, q) \in Nat /\ AnysBefore(types, Len(types) + 1) \in Nat
    <3> DEFINE next == Len(types) + 1
    <3>1. q \in Nat \ {0} /\ next \in Nat \ {0}
      BY <1>1, <1>2
    <3> HIDE DEF next
    <3>2. AnysBefore(types, q) \in Nat /\ AnysBefore(types, next) \in Nat
      BY <3>1, AnysCounted
    <3> QED
      BY <3>2 DEF next
  <2>3. AnysBefore(types, Len(types) + 1) <= 32
    BY DEF IsSignature
  <2> QED
    BY <2>1, <2>2, <2>3, LowNumber
<1>4. AnyAt(types, AnysBefore(types, q) + 1) = q
  <2> HIDE DEF q
  <2> QED
    BY <1>1, <1>2, AnyIsAt
<1> QED
  BY <1>2, <1>3, <1>4

\* What encodeTypeString adds, case by case.
LEMMA TypeCodesCases ==
  ASSUME NEW types, IsSignature(types), NEW p \in 1..Len(types), NEW llvm \in Nat
  PROVE  LET type == types[p]
             codes == TypeCodes(types, p, llvm)
             q == AnyOf(types, p)
         IN  /\ type \in DOMAIN type_map => codes = <<type_map[type]>>
             /\ type = "vararg" => codes = <<29>>
             /\ type \in DOMAIN MatchTypes \/ IsAny(type) =>
                  codes = addAnyTypes(types[q], AnysBefore(types, q), llvm)
             /\ type \in DOMAIN pointerTypesi8_map => codes = pointerTypesi8_map[type]
             /\ type \in DOMAIN VectorTypes =>
                  codes = <<lanes_map[VectorTypes[type][2]], type_map[VectorTypes[type][1]]>>
             /\ type = "intvector" => codes = <<>>
<1> DEFINE type == types[p]
<1>1. type \in DOMAIN type_map => TypeCodes(types, p, llvm) = <<type_map[type]>>
  BY NamesOfTypes DEF TypeCodes, IsAny
<1>2. type = "vararg" => TypeCodes(types, p, llvm) = <<29>>
  BY NamesOfTypes DEF TypeCodes, IsAny, vararg_val
<1>3. type \in DOMAIN MatchTypes => TypeCodes(types, p, llvm) =
         addAnyTypes(types[AnyOf(types, p)], AnysBefore(types, AnyOf(types, p)), llvm)
  BY NamesOfTypes DEF TypeCodes, IsAny, AnyOf
<1>4. IsAny(type) => TypeCodes(types, p, llvm) =
         addAnyTypes(types[AnyOf(types, p)], AnysBefore(types, AnyOf(types, p)), llvm)
  BY NamesOfTypes DEF TypeCodes, IsAny, AnyOf
<1>5. type \in DOMAIN pointerTypesi8_map => TypeCodes(types, p, llvm) = pointerTypesi8_map[type]
  BY NamesOfTypes DEF TypeCodes, IsAny
<1>6. type \in DOMAIN VectorTypes => TypeCodes(types, p, llvm) =
                   <<lanes_map[VectorTypes[type][2]], type_map[VectorTypes[type][1]]>>
  BY NamesOfTypes DEF TypeCodes, IsAny, addVectorTypes
<1>7. type = "intvector" => TypeCodes(types, p, llvm) = <<>>
  BY NamesOfTypes DEF TypeCodes, IsAny, addVectorTypes
<1> QED
  BY <1>1, <1>2, <1>3, <1>4, <1>5, <1>6, <1>7

\* Codes are bytes.
LEMMA TypeCodesAreBytes ==
  ASSUME NEW types, IsSignature(types), NEW p \in 1..Len(types), NEW llvm \in Nat
  PROVE  TypeCodes(types, p, llvm) \in Seq(0..255)
<1> DEFINE type == types[p]
           codes == TypeCodes(types, p, llvm)
<1>1. type \in TypeNames
  BY DEF IsSignature
<1> DEFINE B == Seq(0..255)
<1>0. /\ <<>> \in B /\ \A a \in 0..255 : <<a>> \in B
      /\ \A a, b \in 0..255 : <<a, b>> \in B
      /\ \A a, b, c \in 0..255 : <<a, b, c>> \in B
  <2>1. <<>> \in B
    OBVIOUS
  <2>2. ASSUME NEW a \in 0..255 PROVE <<a>> \in B
    OBVIOUS
  <2>3. ASSUME NEW a \in 0..255, NEW b \in 0..255 PROVE <<a, b>> \in B
    OBVIOUS
  <2>4. ASSUME NEW a \in 0..255, NEW b \in 0..255, NEW c \in 0..255 PROVE <<a, b, c>> \in B
    OBVIOUS
  <2> HIDE DEF B
  <2> QED
    BY <2>1, <2>2, <2>3, <2>4
<1> HIDE DEF B
<1>00. 0..8 \subseteq 0..255 /\ 9..13 \subseteq 0..255 /\ {2, 14, 27, 29} \cup 1..4 \subseteq 0..255
  OBVIOUS
<1>9. SUFFICES codes \in B
  BY DEF B
<1>2. CASE type \in DOMAIN type_map
  <2>1. type_map[type] \in 0..255 /\ codes = <<type_map[type]>>
    BY <1>2, CodesOfNames, TypeCodesCases, SMTT(30)
  <2> HIDE DEF codes
  <2> QED
    BY <2>1, <1>0, ZenonT(60)
<1>3. CASE type = "vararg"
  <2>1. codes = <<29>>
    BY <1>3, TypeCodesCases
  <2>2. <<29>> \in B
    BY <1>0, <1>00, ZenonT(60)
  <2> HIDE DEF codes
  <2> QED
    BY <2>1, <2>2
<1>4. CASE type = "intvector"
  <2>1. codes = <<>>
    BY <1>4, TypeCodesCases
  <2> HIDE DEF codes
  <2> QED
    BY <2>1, <1>0, ZenonT(60)
<1>5. CASE type \in DOMAIN MatchTypes \/ IsAny(type)
  <2>1. IsAny(types[AnyOf(types, p)]) /\ AnysBefore(types, AnyOf(types, p)) \in 0..31
    BY <1>5, AnyOfIs
  <2>2. codes = addAnyTypes(types[AnyOf(types, p)], AnysBefore(types, AnyOf(types, p)), llvm)
    BY <1>5, TypeCodesCases
  <2> QED
    BY <2>1, <2>2, AnyCodes, ZenonT(60) DEF B
<1>6. CASE type \in DOMAIN pointerTypesi8_map
  <2>1. codes \in {<<14, 2>>} \cup {<<27, n, 2>> : n \in 1..4}
    BY <1>6, CodesOfNames, TypeCodesCases
  <2>2. <<14, 2>> \in B /\ \A n \in 1..4 : <<27, n, 2>> \in B
    BY <1>0, <1>00, ZenonT(60)
  <2> HIDE DEF codes
  <2> QED
    BY <2>1, <2>2
<1>7. CASE type \in DOMAIN VectorTypes
  <2>1. lanes_map[VectorTypes[type][2]] \in 0..255 /\ type_map[VectorTypes[type][1]] \in 0..255
    <3>1. VectorTypes[type][2] \in {2, 4, 8, 16, 32} /\ VectorTypes[type][1] \in DOMAIN type_map
      BY <1>7, CodesOfNames
    <3>2. lanes_map[VectorTypes[type][2]] \in 9..13 /\ type_map[VectorTypes[type][1]] \in 0..8
      BY <3>1, CodesOfNames
    <3> QED
      BY <3>2, <1>00
  <2>2. codes = <<lanes_map[VectorTypes[type][2]], type_map[VectorTypes[type][1]]>>
    BY <1>7, TypeCodesCases
  <2> HIDE DEF codes
  <2> QED
    BY <2>1, <2>2, <1>0, ZenonT(60)
<1> QED
  BY <1>1, <1>2, <1>3, <1>4, <1>5, <1>6, <1>7 DEF TypeNames, IsAny

-----------------------------------------------------------------------------
(* Sequences that are joined from parts.                                   *)

\* f joins the parts one after the other to the base.
Joins(f, n, base, part) ==
  f = [p \in 0..n |-> IF p = 0 THEN base ELSE f[p - 1] \o part[p]]

\* Joining sequences gives a function of sequences.
LEMMA JoinsExist ==
  ASSUME NEW V, NEW n \in Nat, NEW base \in Seq(V), NEW part \in [1..n -> Seq(V)]
  PROVE  \E f : Joins(f, n, base, part)
<1> DEFINE W == Seq(V)
           step == [z \in (0..n) \X W |-> IF z[1] = 0 THEN base ELSE z[2] \o part[z[1]]]
<1>1. step \in [(0..n) \X W -> W]
  <2> SUFFICES ASSUME NEW k \in 0..n, NEW w \in W
               PROVE  (IF k = 0 THEN base ELSE w \o part[k]) \in W
    OBVIOUS
  <2>1. CASE k = 0
    BY <2>1
  <2>2. CASE k # 0
    <3>1. part[k] \in Seq(V)
      BY <2>2
    <3> QED
      BY <2>2, <3>1
  <2> QED
    BY <2>1, <2>2
<1>2. PICK f \in [0..n -> W] : Fold(f, n, base, step)
  <2>1. base \in W
    OBVIOUS
  <2> HIDE DEF W, step
  <2> QED
    BY <1>1, <2>1, FoldExists
<1>3. ASSUME NEW k \in 0..n, k # 0 PROVE step[<<k, f[k - 1]>>] = f[k - 1] \o part[k]
  <2>1. k - 1 \in 0..n /\ f[k - 1] \in W
    BY <1>3
  <2>2. <<k, f[k - 1]>> \in (0..n) \X W
    BY <2>1
  <2> HIDE DEF W
  <2> QED
    BY <1>3, <2>2
<1>4. \A k \in 0..n : (IF k = 0 THEN base ELSE step[<<k, f[k - 1]>>]) =
                      (IF k = 0 THEN base ELSE f[k - 1] \o part[k])
  <2> HIDE DEF step, W
  <2> QED
    BY <1>3
<1> HIDE DEF step, W
<1> QED
  BY <1>2, <1>4, ZenonT(60) DEF Joins, Fold

\* What JoinsAre says of such a function, as sequences over V.
Joined(f, n, V, base, part) ==
  /\ f \in [0..n -> Seq(V)] /\ f[0] = base
  /\ \A p \in 1..n : f[p] = f[p - 1] \o part[p]

\* Every value of such a function is a sequence.
LEMMA JoinsAre ==
  ASSUME NEW V, NEW n \in Nat, NEW base \in Seq(V), NEW part \in [1..n -> Seq(V)],
         NEW f, Joins(f, n, base, part)
  PROVE  Joined(f, n, V, base, part)
<1> DEFINE P == {k \in Nat : k <= n => f[k] \in Seq(V)}
<1>1. f[0] = base /\ \A p \in 1..n : f[p] = f[p - 1] \o part[p]
  <2> DEFINE e == [p \in 0..n |-> IF p = 0 THEN base ELSE f[p - 1] \o part[p]]
  <2>1. f = e
    BY DEF Joins
  <2>2. e[0] = base
    OBVIOUS
  <2>3. ASSUME NEW p \in 1..n PROVE e[p] = f[p - 1] \o part[p]
    <3>1. p \in 0..n /\ p # 0
      OBVIOUS
    <3> QED
      BY <3>1
  <2> HIDE DEF e
  <2> QED
    BY <2>1, <2>2, <2>3
<1>2. 0 \in P
  BY <1>1
<1>3. \A k \in Nat : k \in P => k + 1 \in P
  <2> SUFFICES ASSUME NEW k \in Nat, k + 1 <= n, f[k] \in Seq(V) PROVE f[k + 1] \in Seq(V)
    OBVIOUS
  <2>1. k + 1 \in 1..n /\ (k + 1) - 1 = k
    OBVIOUS
  <2>2. f[k + 1] = f[k] \o part[k + 1] /\ part[k + 1] \in Seq(V)
    BY <1>1, <2>1
  <2> QED
    BY <2>2
<1>4. Nat \subseteq P
  <2> HIDE DEF P
  <2> QED
    BY <1>2, <1>3, NumberInduction
<1>5. \A k \in 0..n : f[k] \in Seq(V)
  BY <1>4
<1>6. f = [p \in 0..n |-> IF p = 0 THEN base ELSE f[p - 1] \o part[p]]
  BY DEF Joins
<1>7. f = [p \in 0..n |-> f[p]]
  BY <1>6
<1> QED
  BY <1>1, <1>5, <1>7 DEF Joined

-----------------------------------------------------------------------------
(* Codes in entries.                                                       *)

\* The codes are in the entries from a position.
Has(infos, pos, codes) == \A k \in 1..Len(codes) : Byte(infos, pos + k - 1) = codes[k]

\* Entries that have two sequences have each in its place.
LEMMA HasBoth ==
  ASSUME NEW V, NEW a \in Seq(V), NEW b \in Seq(V), NEW pos \in Nat, NEW infos,
         Has(infos, pos, a \o b)
  PROVE  Has(infos, pos, a) /\ Has(infos, pos + Len(a), b)
<1>1. Len(a) \in Nat /\ Len(b) \in Nat /\ Len(a \o b) = Len(a) + Len(b)
  OBVIOUS
<1>2. \A k \in 1..Len(a) : k \in 1..Len(a \o b) /\ (a \o b)[k] = a[k]
  BY <1>1, ConcatProperties
<1>3. \A k \in 1..Len(b) : /\ Len(a) + k \in 1..Len(a \o b) /\ (a \o b)[Len(a) + k] = b[k]
                           /\ pos + Len(a) + k - 1 = pos + (Len(a) + k) - 1
  <2> SUFFICES ASSUME NEW k \in 1..Len(b)
               PROVE  /\ Len(a) + k \in 1..Len(a \o b) /\ (a \o b)[Len(a) + k] = b[k]
                      /\ pos + Len(a) + k - 1 = pos + (Len(a) + k) - 1
    OBVIOUS
  <2>1. /\ Len(a) + k \in 1..Len(a) + Len(b) /\ ~(Len(a) + k <= Len(a))
        /\ Len(a) + k - Len(a) = k /\ pos + Len(a) + k - 1 = pos + (Len(a) + k) - 1
    BY <1>1
  <2> QED
    BY <2>1, <1>1, ConcatProperties
<1> QED
  BY <1>2, <1>3 DEF Has

\* One and two descriptors in front of the others.
Ahead(a, s) == <<a>> \o s
AheadBoth(a, b, s) == <<a, b>> \o s

\* Two descriptors in front are one and then the other.
LEMMA PairThenRest ==
  ASSUME NEW a, NEW b, NEW S, NEW s \in Seq(S)
  PROVE  Ahead(a, Ahead(b, s)) = AheadBoth(a, b, s)
<1> DEFINE T == S \cup {a, b}
<1>1. s \in Seq(T)
  <2>1. S \subseteq T
    OBVIOUS
  <2> HIDE DEF T
  <2> QED
    BY <2>1, SeqMonotonic
<1>2. <<a>> \in Seq(T) /\ <<b>> \in Seq(T)
  OBVIOUS
<1>3. <<a>> \o (<<b>> \o s) = (<<a>> \o <<b>>) \o s
  <2> HIDE DEF T
  <2> QED
    BY <1>1, <1>2, ConcatAssociative
<1>4. <<a>> \o <<b>> = <<a, b>>
  <2>1. <<a, b>> \in Seq(T) /\ Len(<<a, b>>) = 2 /\ Len(<<a>>) = 1 /\ Len(<<b>>) = 1
    OBVIOUS
  <2>2. <<a>> \o <<b>> \in Seq(T) /\ Len(<<a>> \o <<b>>) = 2
    BY <1>2, <2>1
  <2>3. \A k \in 1..2 : (<<a>> \o <<b>>)[k] = <<a, b>>[k]
    BY <1>2, <2>1
  <2> HIDE DEF T
  <2> QED
    BY <2>1, <2>2, <2>3, SeqEqual
<1> QED
  BY <1>3, <1>4 DEF Ahead, AheadBoth

-----------------------------------------------------------------------------
(* What the reader decodes.                                                *)

\* The descriptors that reading some entries can give.
DescriptorsIn(infos, llvm) == {DecodeIITType(infos, pos, llvm).descriptor : pos \in Nat}

\* The types still to come when one has been read.
Rest(owed) == IF owed = 0 THEN 0 ELSE owed - 1

\* It decodes a sequence of descriptors, from every position.
LEMMA DecodesSequences ==
  ASSUME NEW infos, Len(infos) \in Nat, NEW llvm
  PROVE  \A pos, owed \in Nat :
           DecodeTypes(infos, llvm)[<<pos, owed>>] \in Seq(DescriptorsIn(infos, llvm))
<1> DEFINE D(p) == DecodeIITType(infos, p, llvm)
           F == DecodeTypes(infos, llvm)
           V == Seq(DescriptorsIn(infos, llvm))
           rest(p) == IF p <= Len(infos) THEN Len(infos) + 1 - p ELSE 0
           m(p, o) == 6 * rest(p) + o
           T == {n \in Nat : \E p, o \in Nat : F[<<p, o>>] \notin V /\ n = m(p, o)}
<1> SUFFICES ASSUME NEW a \in Nat, NEW b \in Nat, F[<<a, b>>] \notin V PROVE FALSE
  OBVIOUS
<1>1. \A p, o \in Nat : m(p, o) \in Nat
  OBVIOUS
<1>2. T \subseteq Nat /\ T # {}
  <2>1. m(a, b) \in Nat
    OBVIOUS
  <2> HIDE DEF m
  <2> QED
    BY <2>1
<1>3. PICK t \in T : \A k \in T : t <= k
  <2> HIDE DEF T
  <2> QED
    BY <1>2, LeastNumber
<1>4. PICK p \in Nat, o \in Nat : F[<<p, o>>] \notin V /\ t = m(p, o)
  <2> HIDE DEF m
  <2> QED
    BY <1>3
<1> DEFINE p2 == p + D(p).bytes
           o2 == Rest(o) + D(p).types
<1>5. p \in Nat /\ o \in Nat
  OBVIOUS
<1>6. /\ D(p).bytes \in 1..2 /\ D(p).types \in 0..5
      /\ p > Len(infos) => D(p).bytes = 1 /\ D(p).types = 0
  BY DecodedShape
<1>7. DecodesFrom(F, infos, llvm, p, o)
  BY DecodingExists
<1>8. ~(o = 0 /\ Byte(infos, p) = 0)
  <2>1. <<>> \in V
    OBVIOUS
  <2>2. o = 0 /\ Byte(infos, p) = 0 => F[<<p, o>>] = <<>>
    BY <1>7 DEF DecodesFrom
  <2> HIDE DEF F, V
  <2> QED
    BY <1>4, <2>1, <2>2
<1>9. F[<<p, o>>] = <<D(p).descriptor>> \o F[<<p2, o2>>]
  BY <1>7, <1>8 DEF DecodesFrom, Rest
<1>10. p2 \in Nat /\ o2 \in Nat
  <2> HIDE DEF D
  <2> QED
    BY <1>5, <1>6, SMTT(30) DEF Rest
<1>11. m(p2, o2) < m(p, o)
  <2> HIDE DEF D, F
  <2>1. CASE p > Len(infos)
    <3>1. Byte(infos, p) = 0
      BY <2>1 DEF Byte
    <3>2. o # 0
      BY <3>1, <1>8
    <3> QED
      BY <1>5, <1>6, <2>1, <3>2 DEF Rest
  <2>2. CASE p <= Len(infos)
    <3>1. rest(p2) <= rest(p) - 1 /\ rest(p2) \in Nat /\ rest(p) \in Nat
      BY <1>5, <1>6, <2>2, SMTT(30)
    <3>2. o2 <= o + 5
      BY <1>5, <1>6, SMTT(30) DEF Rest
    <3> HIDE DEF rest, o2
    <3> QED
      BY <3>1, <3>2, <1>5, <1>10, SMTT(30)
  <2> QED
    BY <1>5, <2>1, <2>2
<1>12. F[<<p2, o2>>] \in V
  <2> SUFFICES ASSUME F[<<p2, o2>>] \notin V PROVE FALSE
    OBVIOUS
  <2> HIDE DEF F, V, p2, o2, D
  <2>1. m(p2, o2) \in T
    <3>1. m(p2, o2) \in Nat
      BY <1>1, <1>10
    <3> HIDE DEF m
    <3> QED
      BY <1>10, <3>1
  <2>2. t = m(p, o)
    BY <1>4
  <2>3. m(p2, o2) \in Nat /\ m(p, o) \in Nat
    BY <1>1, <1>5, <1>10
  <2> HIDE DEF m, T
  <2> QED
    BY <2>1, <2>2, <2>3, <1>3, <1>11
<1>13. D(p).descriptor \in DescriptorsIn(infos, llvm)
  BY <1>5 DEF DescriptorsIn
<1>14. <<D(p).descriptor>> \o F[<<p2, o2>>] \in V
  <2> HIDE DEF D, F, p2, o2
  <2> QED
    BY <1>12, <1>13
<1> QED
  <2> HIDE DEF F, V, D, p2, o2
  <2> QED
    BY <1>4, <1>9, <1>14

\* DecodeIITType by the code at the position.
Decoded(infos, pos, llvm, descriptor, bytes, more) ==
  DecodeIITType(infos, pos, llvm) = [descriptor |-> descriptor, bytes |-> bytes, types |-> more]

\* What is decoded from a position with so many types owed.
From(infos, llvm, pos, owed) == DecodeTypes(infos, llvm)[<<pos, owed>>]

\* One step of the reader.
LEMMA OneDecoded ==
  ASSUME NEW infos, Len(infos) \in Nat, NEW llvm, NEW pos \in Nat, NEW owed \in Nat,
         NEW descriptor, NEW bytes, NEW more, NEW pos2, pos2 = pos + bytes,
         NEW owed2, owed2 = Rest(owed) + more,
         Decoded(infos, pos, llvm, descriptor, bytes, more),
         owed # 0 \/ Byte(infos, pos) # 0
  PROVE  From(infos, llvm, pos, owed) =
           Ahead(descriptor, From(infos, llvm, pos2, owed2))
<1>1. DecodesFrom(DecodeTypes(infos, llvm), infos, llvm, pos, owed)
  BY DecodingExists
<1> QED
  BY <1>1 DEF DecodesFrom, Rest, Decoded, From, Ahead

\* The step for each code of a type.
LEMMA DecodedCases ==
  ASSUME NEW infos, NEW pos, NEW llvm, NEW info, Byte(infos, pos) = info
  PROVE  /\ info = 0 => Decoded(infos, pos, llvm, <<"Void">>, 1, 0)
         /\ info = 29 => Decoded(infos, pos, llvm, <<"VarArg">>, 1, 0)
         /\ info \in 1..5 => Decoded(infos, pos, llvm, <<"Integer", IntegerCodes[info]>>, 1, 0)
         /\ info \in 6..8 => Decoded(infos, pos, llvm, <<FloatCodes[info]>>, 1, 0)
         /\ info \in 9..13 => Decoded(infos, pos, llvm, <<"Vector", VectorCodes[info]>>, 1, 1)
         /\ info = 14 => Decoded(infos, pos, llvm, <<"Pointer", 0>>, 1, 1)
         /\ info = 27 => Decoded(infos, pos, llvm, <<"Pointer", Byte(infos, pos + 1)>>, 2, 1)
         /\ info = 15 => Decoded(infos, pos, llvm,
                                 OverloadedDescriptor(Byte(infos, pos + 1), llvm), 2, 0)
         /\ info \in 21..24 =>
              Decoded(infos, pos, llvm, <<"Struct", StructCodes[info]>>, 1, StructCodes[info])
<1> USE CodeCases DEF DecodeIITType, Decoded
<1>1. info = 0 => Decoded(infos, pos, llvm, <<"Void">>, 1, 0)
  OBVIOUS
<1>2. info = 29 => Decoded(infos, pos, llvm, <<"VarArg">>, 1, 0)
  OBVIOUS
<1>3. info \in 1..5 => Decoded(infos, pos, llvm, <<"Integer", IntegerCodes[info]>>, 1, 0)
  OBVIOUS
<1>4. info \in 6..8 => Decoded(infos, pos, llvm, <<FloatCodes[info]>>, 1, 0)
  OBVIOUS
<1>5. info \in 9..13 => Decoded(infos, pos, llvm, <<"Vector", VectorCodes[info]>>, 1, 1)
  OBVIOUS
<1>6. info = 14 => Decoded(infos, pos, llvm, <<"Pointer", 0>>, 1, 1)
  OBVIOUS
<1>7. info = 27 => Decoded(infos, pos, llvm, <<"Pointer", Byte(infos, pos + 1)>>, 2, 1)
  OBVIOUS
<1>8. info = 15 => Decoded(infos, pos, llvm,
                           OverloadedDescriptor(Byte(infos, pos + 1), llvm), 2, 0)
  OBVIOUS
<1>9. info \in 21..24 =>
        Decoded(infos, pos, llvm, <<"Struct", StructCodes[info]>>, 1, StructCodes[info])
  OBVIOUS
<1> HIDE DEF Decoded
<1> QED
  BY <1>1, <1>2, <1>3, <1>4, <1>5, <1>6, <1>7, <1>8, <1>9

\* A code of a type without parts.
LEMMA ScalarCodes ==
  ASSUME NEW infos, NEW pos, NEW llvm, NEW type \in DOMAIN type_map,
         Byte(infos, pos) = type_map[type]
  PROVE  Decoded(infos, pos, llvm, ScalarMeaning[type], 1, 0)
<1>1. /\ type_map["void"] = 0 /\ type_map["bool"] = 1 /\ type_map["char"] = 2
      /\ type_map["short"] = 3 /\ type_map["int"] = 4 /\ type_map["long"] = 5
      /\ type_map["half"] = 6 /\ type_map["float"] = 7 /\ type_map["double"] = 8
  BY DEF type_map
<1>2. /\ IntegerCodes[1] = 1 /\ IntegerCodes[2] = 8 /\ IntegerCodes[3] = 16
      /\ IntegerCodes[4] = 32 /\ IntegerCodes[5] = 64
  BY DEF IntegerCodes
<1>3. FloatCodes[6] = "Half" /\ FloatCodes[7] = "Float" /\ FloatCodes[8] = "Double"
  BY DEF FloatCodes
<1>4. /\ ScalarMeaning["void"] = <<"Void">> /\ ScalarMeaning["bool"] = <<"Integer", 1>>
      /\ ScalarMeaning["char"] = <<"Integer", 8>> /\ ScalarMeaning["short"] = <<"Integer", 16>>
      /\ ScalarMeaning["int"] = <<"Integer", 32>> /\ ScalarMeaning["long"] = <<"Integer", 64>>
      /\ ScalarMeaning["half"] = <<"Half">> /\ ScalarMeaning["float"] = <<"Float">>
      /\ ScalarMeaning["double"] = <<"Double">>
  BY DEF ScalarMeaning
<1> DEFINE info == type_map[type]
<1>5. /\ info = 0 => Decoded(infos, pos, llvm, <<"Void">>, 1, 0)
      /\ info \in 1..5 => Decoded(infos, pos, llvm, <<"Integer", IntegerCodes[info]>>, 1, 0)
      /\ info \in 6..8 => Decoded(infos, pos, llvm, <<FloatCodes[info]>>, 1, 0)
  <2> HIDE DEF info
  <2> QED
    BY DecodedCases DEF info
<1>6. type \in {"void", "bool", "char", "short", "int", "long", "half", "float", "double"}
  BY NamesOfTypes
<1>7. CASE type = "void"
  BY <1>7, <1>1, <1>4, <1>5
<1>8. CASE type = "bool"
  <2>1. info = 1 /\ info \in 1..5
    BY <1>8, <1>1
  <2> QED
    BY <2>1, <1>8, <1>2, <1>4, <1>5
<1>9. CASE type = "char"
  <2>1. info = 2 /\ info \in 1..5
    BY <1>9, <1>1
  <2> QED
    BY <2>1, <1>9, <1>2, <1>4, <1>5
<1>10. CASE type = "short"
  <2>1. info = 3 /\ info \in 1..5
    BY <1>10, <1>1
  <2> QED
    BY <2>1, <1>10, <1>2, <1>4, <1>5
<1>11. CASE type = "int"
  <2>1. info = 4 /\ info \in 1..5
    BY <1>11, <1>1
  <2> QED
    BY <2>1, <1>11, <1>2, <1>4, <1>5
<1>12. CASE type = "long"
  <2>1. info = 5 /\ info \in 1..5
    BY <1>12, <1>1
  <2> QED
    BY <2>1, <1>12, <1>2, <1>4, <1>5
<1>13. CASE type = "half"
  <2>1. info = 6 /\ info \in 6..8
    BY <1>13, <1>1
  <2> QED
    BY <2>1, <1>13, <1>3, <1>4, <1>5
<1>14. CASE type = "float"
  <2>1. info = 7 /\ info \in 6..8
    BY <1>14, <1>1
  <2> QED
    BY <2>1, <1>14, <1>3, <1>4, <1>5
<1>15. CASE type = "double"
  <2>1. info = 8 /\ info \in 6..8
    BY <1>15, <1>1
  <2> QED
    BY <2>1, <1>15, <1>3, <1>4, <1>5
<1> QED
  BY <1>6, <1>7, <1>8, <1>9, <1>10, <1>11, <1>12, <1>13, <1>14, <1>15

\* Where the codes of a type are, the reader decodes what the type means and goes on
\* after them.
LEMMA OneTypeDecoded ==
  ASSUME NEW infos, Len(infos) \in Nat, NEW llvm, NEW pos \in Nat, NEW owed \in Nat,
         NEW a, NEW bytes, NEW pos2, pos2 = pos + bytes,
         Decoded(infos, pos, llvm, a, bytes, 0),
         owed # 0 \/ Byte(infos, pos) # 0
  PROVE  From(infos, llvm, pos, owed) = Ahead(a, From(infos, llvm, pos2, Rest(owed)))
<1> DEFINE owed2 == Rest(owed)
<1>1. owed2 = Rest(owed) + 0
  BY DEF Rest
<1> HIDE DEF owed2
<1>2. From(infos, llvm, pos, owed) = Ahead(a, From(infos, llvm, pos2, owed2))
  BY <1>1, OneDecoded
<1> QED
  BY <1>2 DEF owed2

\* A vector or a pointer: its descriptor and the one of the type it is made of.
LEMMA TwoTypesDecoded ==
  ASSUME NEW infos, Len(infos) \in Nat, NEW llvm, NEW pos \in Nat, NEW owed \in Nat,
         NEW a, NEW b, NEW bytes, NEW next,
         NEW pos2, pos2 \in Nat, pos2 = pos + bytes, NEW pos3, pos3 \in Nat, pos3 = pos2 + next,
         Decoded(infos, pos, llvm, a, bytes, 1), Byte(infos, pos) # 0,
         Decoded(infos, pos2, llvm, b, next, 0)
  PROVE  From(infos, llvm, pos, owed) =
           AheadBoth(a, b, From(infos, llvm, pos3, Rest(owed)))
<1> DEFINE owed2 == Rest(owed) + 1
           s == From(infos, llvm, pos3, Rest(owed))
           S == DescriptorsIn(infos, llvm)
<1>1. owed2 \in Nat /\ owed2 # 0 /\ Rest(owed2) = Rest(owed) /\ Rest(owed) \in Nat
      /\ pos2 \in Nat /\ pos3 \in Nat /\ owed2 = Rest(owed) + 1
  BY DEF Rest
<1>2. s \in Seq(S)
  BY <1>1, DecodesSequences DEF From
<1> HIDE DEF owed2
<1>3. From(infos, llvm, pos, owed) = Ahead(a, From(infos, llvm, pos2, owed2))
  BY <1>1, OneDecoded
<1>4. From(infos, llvm, pos2, owed2) = Ahead(b, s)
  <2>1. From(infos, llvm, pos2, owed2) = Ahead(b, From(infos, llvm, pos3, Rest(owed2)))
    BY <1>1, OneTypeDecoded
  <2> QED
    BY <2>1, <1>1
<1> HIDE DEF s, S
<1>5. Ahead(a, Ahead(b, s)) = AheadBoth(a, b, s)
  BY <1>2, PairThenRest
<1> QED
  BY <1>3, <1>4, <1>5 DEF s

-----------------------------------------------------------------------------
(* The reader over the codes of one type.                                  *)

\* The entries for short sequences of codes.
LEMMA HasOne ==
  ASSUME NEW infos, NEW pos \in Nat, NEW a, Has(infos, pos, <<a>>)
  PROVE  Byte(infos, pos) = a /\ Len(<<a>>) = 1
<1>1. Len(<<a>>) = 1 /\ <<a>>[1] = a /\ 1 \in 1..1 /\ pos + 1 - 1 = pos
  OBVIOUS
<1> QED
  BY <1>1 DEF Has

LEMMA HasTwo ==
  ASSUME NEW infos, NEW pos \in Nat, NEW a, NEW b, Has(infos, pos, <<a, b>>)
  PROVE  Byte(infos, pos) = a /\ Byte(infos, pos + 1) = b /\ Len(<<a, b>>) = 2
<1>1. /\ Len(<<a, b>>) = 2 /\ <<a, b>>[1] = a /\ <<a, b>>[2] = b
      /\ 1 \in 1..2 /\ 2 \in 1..2 /\ pos + 1 - 1 = pos /\ pos + 2 - 1 = pos + 1
  OBVIOUS
<1> QED
  BY <1>1 DEF Has

LEMMA HasThree ==
  ASSUME NEW infos, NEW pos \in Nat, NEW a, NEW b, NEW c, Has(infos, pos, <<a, b, c>>)
  PROVE  /\ Byte(infos, pos) = a /\ Byte(infos, pos + 1) = b /\ Byte(infos, pos + 2) = c
         /\ Len(<<a, b, c>>) = 3
<1>1. /\ Len(<<a, b, c>>) = 3 /\ <<a, b, c>>[1] = a /\ <<a, b, c>>[2] = b /\ <<a, b, c>>[3] = c
      /\ 1 \in 1..3 /\ 2 \in 1..3 /\ 3 \in 1..3
      /\ pos + 1 - 1 = pos /\ pos + 2 - 1 = pos + 1 /\ pos + 3 - 1 = pos + 2
  OBVIOUS
<1> QED
  BY <1>1 DEF Has

\* What a type means, case by case.
LEMMA TypeMeaningCases ==
  ASSUME NEW types, NEW p
  PROVE  LET type == types[p]
             meaning == TypeMeaning(types, p)
         IN  /\ type \in DOMAIN type_map \cup {"vararg"} => meaning = <<ScalarMeaning[type]>>
             /\ type \in DOMAIN VectorTypes =>
                  meaning = <<<<"Vector", VectorTypes[type][2]>>, ScalarMeaning[VectorTypes[type][1]]>>
             /\ type \in DOMAIN pointerTypesi8_map =>
                  meaning = <<<<"Pointer", AddressSpaceOf[type]>>, <<"Integer", 8>>>>
             /\ type \in DOMAIN MatchTypes =>
                  meaning = <<OverloadedMeaning(types, MatchTypes[type])>>
             /\ IsAny(type) => meaning = <<OverloadedMeaning(types, AnysBefore(types, p) + 1)>>
<1> USE NamesOfTypes DEF TypeMeaning, IsAny
<1> DEFINE type == types[p]
<1>1. type \in DOMAIN type_map \cup {"vararg"} => TypeMeaning(types, p) = <<ScalarMeaning[type]>>
  OBVIOUS
<1>2. type \in DOMAIN VectorTypes => TypeMeaning(types, p) =
        <<<<"Vector", VectorTypes[type][2]>>, ScalarMeaning[VectorTypes[type][1]]>>
  OBVIOUS
<1>3. type \in DOMAIN pointerTypesi8_map => TypeMeaning(types, p) =
        <<<<"Pointer", AddressSpaceOf[type]>>, <<"Integer", 8>>>>
  OBVIOUS
<1>4. type \in DOMAIN MatchTypes =>
        TypeMeaning(types, p) = <<OverloadedMeaning(types, MatchTypes[type])>>
  OBVIOUS
<1>5. IsAny(type) =>
        TypeMeaning(types, p) = <<OverloadedMeaning(types, AnysBefore(types, p) + 1)>>
  OBVIOUS
<1> QED
  BY <1>1, <1>2, <1>3, <1>4, <1>5

\* Both are the overloaded type that is there or is referred to, with its number.
LEMMA OneLess ==
  ASSUME NEW n \in 0..31, NEW k, k = n + 1
  PROVE  k - 1 = n
OBVIOUS

\* The meaning of an overloaded type and of a reference to one.
LEMMA OverloadedTypes ==
  ASSUME NEW types, IsSignature(types), NEW p \in 1..Len(types),
         IsAny(types[p]) \/ types[p] \in DOMAIN MatchTypes
  PROVE  LET q == AnyOf(types, p)
         IN  TypeMeaning(types, p) =
               <<<<"Overloaded", AnysBefore(types, q), any_map[types[q]]>>>>
<1> DEFINE q == AnyOf(types, p)
           k == IF types[p] \in DOMAIN MatchTypes THEN MatchTypes[types[p]]
                                                  ELSE AnysBefore(types, p) + 1
<1>1. /\ IsAny(types[q]) /\ AnysBefore(types, q) \in 0..31
      /\ q = p \/ (q < p /\ ~IsAny(types[p]) /\ AnysBefore(types, q) = MatchTypes[types[p]] - 1)
      /\ AnyAt(types, AnysBefore(types, q) + 1) = q
  BY AnyOfIs
<1>2. types[p] \in DOMAIN MatchTypes => ~IsAny(types[p]) /\ MatchTypes[types[p]] \in 1..3
  BY NamesOfTypes DEF IsAny, MatchTypes
<1>3. TypeMeaning(types, p) = <<OverloadedMeaning(types, k)>>
  <2>1. CASE types[p] \in DOMAIN MatchTypes
    BY <2>1, TypeMeaningCases
  <2>2. CASE types[p] \notin DOMAIN MatchTypes
    BY <2>2, TypeMeaningCases
  <2> QED
    BY <2>1, <2>2
<1>4. k = AnysBefore(types, q) + 1
  <2>1. CASE types[p] \in DOMAIN MatchTypes
    <3>1. q # p
      BY <1>1, <1>2, <2>1
    <3>2. AnysBefore(types, q) = MatchTypes[types[p]] - 1
      BY <1>1, <3>1
    <3> HIDE DEF q
    <3> QED
      BY <1>2, <2>1, <3>2
  <2>2. CASE types[p] \notin DOMAIN MatchTypes
    BY <2>2 DEF AnyOf
  <2> QED
    BY <2>1, <2>2
<1>5. k - 1 = AnysBefore(types, q) /\ AnyAt(types, k) = q
  <2>2. k - 1 = AnysBefore(types, q)
    <3> DEFINE n == AnysBefore(types, q)
    <3>1. n \in 0..31 /\ k = n + 1
      BY <1>1, <1>4
    <3> HIDE DEF n, k
    <3>2. k - 1 = n
      BY <3>1, OneLess
    <3> QED
      BY <3>2 DEF n
  <2>3. AnyAt(types, k) = q
    <3> HIDE DEF q, k
    <3> QED
      BY <1>1, <1>4, Zenon
  <2> QED
    BY <2>2, <2>3
<1>6. OverloadedMeaning(types, k) = <<"Overloaded", AnysBefore(types, q), any_map[types[q]]>>
  <2> HIDE DEF k, q
  <2> QED
    BY <1>5 DEF OverloadedMeaning
<1> QED
  BY <1>3, <1>6

\* Where the codes of a type are, the reader decodes what the type means and goes on
\* after them.
TypeDecoded(types, p, infos, llvm, pos, owed) ==
  From(infos, llvm, pos, owed) =
    TypeMeaning(types, p) \o
      From(infos, llvm, pos + Len(TypeCodes(types, p, llvm)), Rest(owed))

\* Each kind of type in turn.
LEMMA TypeDecodes ==
  ASSUME NEW types, IsSignature(types), NEW p \in 1..Len(types),
         \A q \in 1..Len(types) : types[q] \notin NotEncoded,
         NEW infos, Len(infos) \in Nat, NEW llvm \in Nat, NEW pos \in Nat, NEW owed \in Nat,
         Has(infos, pos, TypeCodes(types, p, llvm)), types[p] = "void" => owed # 0
  PROVE  TypeDecoded(types, p, infos, llvm, pos, owed)
<1> DEFINE type == types[p]
           codes == TypeCodes(types, p, llvm)
           after(n) == From(infos, llvm, pos + n, Rest(owed))
<1>1. pos + 1 \in Nat /\ pos + 2 \in Nat /\ pos + 3 \in Nat
      /\ pos + 2 = (pos + 1) + 1 /\ pos + 3 = (pos + 2) + 1
  OBVIOUS
<1>2. type \in TypeNames /\ type \notin NotEncoded
  BY DEF IsSignature
<1>3. CASE type \in DOMAIN type_map
  <2>1. codes = <<type_map[type]>> /\ TypeMeaning(types, p) = <<ScalarMeaning[type]>>
    BY <1>3, TypeCodesCases, TypeMeaningCases
  <2>2. Byte(infos, pos) = type_map[type] /\ Len(codes) = 1
    <3> HIDE DEF codes
    <3>1. Has(infos, pos, <<type_map[type]>>)
      BY <2>1 DEF codes
    <3> QED
      BY <2>1, <3>1, HasOne
  <2>3. Decoded(infos, pos, llvm, ScalarMeaning[type], 1, 0)
    BY <1>3, <2>2, ScalarCodes
  <2>4. owed # 0 \/ Byte(infos, pos) # 0
    BY <1>3, <2>2, CodesOfNames
  <2>5. From(infos, llvm, pos, owed) = Ahead(ScalarMeaning[type], after(1))
    <3> DEFINE v == ScalarMeaning[type]
               byte == 1
               next == pos + byte
    <3>1. Decoded(infos, pos, llvm, v, byte, 0) /\ next = pos + byte
      BY <2>3
    <3> HIDE DEF v, byte, next
    <3>2. From(infos, llvm, pos, owed) = Ahead(v, From(infos, llvm, next, Rest(owed)))
      BY <2>4, <3>1, OneTypeDecoded
    <3> QED
      BY <3>2 DEF v, byte, next
  <2> QED
    BY <2>1, <2>2, <2>5 DEF TypeDecoded, Ahead
<1>4. CASE type = "vararg"
  <2>1. codes = <<29>> /\ TypeMeaning(types, p) = <<<<"VarArg">>>>
    BY <1>4, TypeCodesCases, TypeMeaningCases, SMTT(30) DEF ScalarMeaning
  <2>2. Byte(infos, pos) = 29 /\ Len(codes) = 1
    <3> HIDE DEF codes
    <3>1. Has(infos, pos, <<29>>)
      BY <2>1 DEF codes
    <3> QED
      BY <2>1, <3>1, HasOne
  <2>3. Decoded(infos, pos, llvm, <<"VarArg">>, 1, 0)
    BY <2>2, DecodedCases
  <2>4. owed # 0 \/ Byte(infos, pos) # 0
    BY <2>2
  <2>5. From(infos, llvm, pos, owed) = Ahead(<<"VarArg">>, after(1))
    <3> DEFINE v == <<"VarArg">>
               byte == 1
               next == pos + byte
    <3>1. Decoded(infos, pos, llvm, v, byte, 0) /\ next = pos + byte
      BY <2>3
    <3> HIDE DEF v, byte, next
    <3>2. From(infos, llvm, pos, owed) = Ahead(v, From(infos, llvm, next, Rest(owed)))
      BY <2>4, <3>1, OneTypeDecoded
    <3> QED
      BY <3>2 DEF v, byte, next
  <2> QED
    BY <2>1, <2>2, <2>5 DEF TypeDecoded, Ahead
<1>5. CASE type \in DOMAIN MatchTypes \/ IsAny(type)
  <2> DEFINE q == AnyOf(types, p)
             n == AnysBefore(types, q)
             any == <<"Overloaded", n, any_map[types[q]]>>
  <2>1. q \in 1..Len(types) /\ IsAny(types[q]) /\ n \in 0..31
    BY <1>5, AnyOfIs
  <2>2. types[q] \in DOMAIN any_map /\ types[q] \notin DOMAIN DefaultTypes
    <3> HIDE DEF q
    <3> QED
      BY <2>1 DEF IsAny, NotEncoded
  <2>3. codes = addAnyTypes(types[q], n, llvm) /\ TypeMeaning(types, p) = <<any>>
    BY <1>5, TypeCodesCases, OverloadedTypes
  <2> HIDE DEF n
  <2>4. PICK code : codes = <<15, code>> /\ OverloadedDescriptor(code, llvm) = any
    <3> HIDE DEF q
    <3> DEFINE code == addAnyTypes(types[q], n, llvm)[2]
    <3>1. OverloadedDescriptor(code, llvm) = any
      BY <2>1, <2>2, PackingInverts
    <3>2. addAnyTypes(types[q], n, llvm) = <<15, code>>
      BY <2>2 DEF addAnyTypes
    <3> HIDE DEF code, codes, any
    <3> QED
      BY <2>3, <3>1, <3>2
  <2>5. Byte(infos, pos) = 15 /\ Byte(infos, pos + 1) = code /\ Len(codes) = 2
    <3> HIDE DEF codes
    <3>1. Has(infos, pos, <<15, code>>)
      BY <2>4 DEF codes
    <3> QED
      BY <2>4, <3>1, HasTwo
  <2>6. Decoded(infos, pos, llvm, any, 2, 0)
    <3> HIDE DEF any
    <3> QED
      BY <2>4, <2>5, DecodedCases
  <2>7. From(infos, llvm, pos, owed) = Ahead(any, after(2))
    <3> DEFINE bytes == 2
               next == pos + bytes
    <3>1. owed # 0 \/ Byte(infos, pos) # 0
      BY <2>5
    <3>2. Decoded(infos, pos, llvm, any, bytes, 0) /\ next = pos + bytes
      BY <2>6
    <3> HIDE DEF any, bytes, next
    <3>3. From(infos, llvm, pos, owed) = Ahead(any, From(infos, llvm, next, Rest(owed)))
      BY <3>1, <3>2, OneTypeDecoded
    <3> QED
      BY <3>3 DEF bytes, next
  <2> HIDE DEF any
  <2> QED
    BY <2>3, <2>5, <2>7 DEF TypeDecoded, Ahead
<1>6. CASE type \in DOMAIN VectorTypes
  <2> DEFINE of == VectorTypes[type][1]
             lanes == VectorTypes[type][2]
  <2>1. /\ codes = <<lanes_map[lanes], type_map[of]>>
        /\ TypeMeaning(types, p) = <<<<"Vector", lanes>>, ScalarMeaning[of]>>
        /\ of \in DOMAIN type_map /\ lanes \in {4, 8, 16}
    BY <1>6, TypeCodesCases, TypeMeaningCases, CodesOfNames, SMTT(30)
  <2> HIDE DEF of, lanes
  <2>2. Byte(infos, pos) = lanes_map[lanes] /\ Byte(infos, pos + 1) = type_map[of] /\ Len(codes) = 2
    <3> HIDE DEF codes
    <3>1. Has(infos, pos, <<lanes_map[lanes], type_map[of]>>)
      BY <2>1 DEF codes
    <3> QED
      BY <2>1, <3>1, HasTwo
  <2>3. lanes_map[lanes] \in 9..13 /\ VectorCodes[lanes_map[lanes]] = lanes
    BY <2>1, SMTT(30) DEF lanes_map, VectorCodes
  <2>4. Decoded(infos, pos, llvm, <<"Vector", lanes>>, 1, 1)
    BY <2>2, <2>3, DecodedCases
  <2>5. Decoded(infos, pos + 1, llvm, ScalarMeaning[of], 1, 0)
    BY <2>1, <2>2, ScalarCodes
  <2>6. Byte(infos, pos) # 0
    BY <2>2, <2>3, SMTT(30)
  <2>7. From(infos, llvm, pos, owed) = AheadBoth(<<"Vector", lanes>>, ScalarMeaning[of], after(2))
    <3> DEFINE head == <<"Vector", lanes>>
               value == ScalarMeaning[of]
               first == 1
               second == 1
               next == pos + first
               end == next + second
    <3>1. Decoded(infos, pos, llvm, head, first, 1) /\ next = pos + first
      BY <2>4
    <3>2. Decoded(infos, next, llvm, value, second, 0) /\ end = next + second
      BY <2>5
    <3>3. next \in Nat /\ end \in Nat /\ end = pos + 2
      BY <1>1
    <3> HIDE DEF head, value, first, second, next, end
    <3>4. From(infos, llvm, pos, owed) = AheadBoth(head, value, From(infos, llvm, end, Rest(owed)))
      BY <2>6, <3>1, <3>2, <3>3, TwoTypesDecoded
    <3> QED
      BY <3>3, <3>4 DEF head, value
  <2> QED
    BY <2>1, <2>2, <2>7 DEF TypeDecoded, AheadBoth
<1>7. CASE type \in DOMAIN pointerTypesi8_map
  <2> DEFINE space == AddressSpaceOf[type]
             pointer == <<"Pointer", space>>
             int8 == <<"Integer", 8>>
  <2>1. codes = pointerTypesi8_map[type] /\ TypeMeaning(types, p) = <<pointer, int8>>
    BY <1>7, TypeCodesCases, TypeMeaningCases
  <2>2. type_map["char"] = 2 /\ ScalarMeaning["char"] = int8 /\ "char" \in DOMAIN type_map
    BY DEF type_map, ScalarMeaning
  <2>3. ASSUME NEW at \in Nat, Byte(infos, at) = 2 PROVE Decoded(infos, at, llvm, int8, 1, 0)
    <3> HIDE DEF int8
    <3>1. Byte(infos, at) = type_map["char"]
      BY <2>2, <2>3
    <3>2. Decoded(infos, at, llvm, ScalarMeaning["char"], 1, 0)
      BY <2>2, <3>1, ScalarCodes
    <3> QED
      BY <2>2, <3>2
  <2>4. CASE type = "ptr_private"
    <3>1. codes = <<14, 2>> /\ space = 0
      BY <2>1, <2>4 DEF pointerTypesi8_map, AddressSpaceOf
    <3>2. Byte(infos, pos) = 14 /\ Byte(infos, pos + 1) = 2 /\ Len(codes) = 2
      <4> HIDE DEF codes
      <4>1. Has(infos, pos, <<14, 2>>)
        BY <3>1 DEF codes
      <4> QED
        BY <3>1, <4>1, HasTwo
    <3>3. Decoded(infos, pos, llvm, pointer, 1, 1)
      BY <3>1, <3>2, DecodedCases
    <3>4. Decoded(infos, pos + 1, llvm, int8, 1, 0)
      BY <1>1, <2>3, <3>2
    <3>5. From(infos, llvm, pos, owed) = AheadBoth(pointer, int8, after(2))
      <4>0. Byte(infos, pos) # 0
        BY <3>2
      <4> DEFINE head == pointer
                 value == int8
                 first == 1
                 second == 1
                 next == pos + first
                 end == next + second
      <4>1. Decoded(infos, pos, llvm, head, first, 1) /\ next = pos + first
        BY <3>3
      <4>2. Decoded(infos, next, llvm, value, second, 0) /\ end = next + second
        BY <3>4
      <4>3. next \in Nat /\ end \in Nat /\ end = pos + 2
        BY <1>1
      <4> HIDE DEF head, value, first, second, next, end
      <4>4. From(infos, llvm, pos, owed) = AheadBoth(head, value, From(infos, llvm, end, Rest(owed)))
        BY <4>0, <4>1, <4>2, <4>3, TwoTypesDecoded
      <4> QED
        BY <4>3, <4>4 DEF head, value
    <3> HIDE DEF pointer, int8
    <3> QED
      BY <2>1, <3>2, <3>5 DEF TypeDecoded, AheadBoth
  <2>5. CASE type # "ptr_private"
    <3>1. codes = <<27, space, 2>>
      BY <1>7, <2>1, <2>5, NamesOfTypes, SMTT(30) DEF pointerTypesi8_map, AddressSpaceOf
    <3>2. /\ Byte(infos, pos) = 27 /\ Byte(infos, pos + 1) = space
          /\ Byte(infos, pos + 2) = 2 /\ Len(codes) = 3
      <4> HIDE DEF codes, space
      <4>1. Has(infos, pos, <<27, space, 2>>)
        BY <3>1 DEF codes
      <4> QED
        BY <3>1, <4>1, HasThree, SMTT(30)
    <3>3. Decoded(infos, pos, llvm, pointer, 2, 1)
      BY <3>1, <3>2, DecodedCases
    <3>4. Decoded(infos, pos + 2, llvm, int8, 1, 0)
      BY <1>1, <2>3, <3>2
    <3>5. From(infos, llvm, pos, owed) = AheadBoth(pointer, int8, after(3))
      <4>0. Byte(infos, pos) # 0
        BY <3>2
      <4> DEFINE head == pointer
                 value == int8
                 first == 2
                 second == 1
                 next == pos + first
                 end == next + second
      <4>1. Decoded(infos, pos, llvm, head, first, 1) /\ next = pos + first
        BY <3>3
      <4>2. Decoded(infos, next, llvm, value, second, 0) /\ end = next + second
        BY <3>4
      <4>3. next \in Nat /\ end \in Nat /\ end = pos + 3
        BY <1>1
      <4> HIDE DEF head, value, first, second, next, end
      <4>4. From(infos, llvm, pos, owed) = AheadBoth(head, value, From(infos, llvm, end, Rest(owed)))
        BY <4>0, <4>1, <4>2, <4>3, TwoTypesDecoded
      <4> QED
        BY <4>3, <4>4 DEF head, value
    <3> HIDE DEF pointer, int8
    <3> QED
      BY <2>1, <3>2, <3>5 DEF TypeDecoded, AheadBoth
  <2> QED
    BY <2>4, <2>5
<1> QED
  BY <1>2, <1>3, <1>4, <1>5, <1>6, <1>7 DEF TypeNames, NotEncoded, IsAny

-----------------------------------------------------------------------------
(* The generator and the meaning as joined sequences.                      *)

\* The codes of the first types of a signature.
Encodes(enc, types, prefix, llvm) ==
  /\ enc \in [0..Len(types) -> Seq(0..255)] /\ enc[0] = prefix
  /\ \A p \in 1..Len(types) : enc[p] = enc[p - 1] \o TypeCodes(types, p, llvm)

\* encodeTypeString is such a function, and its values are sequences of bytes.
LEMMA EncodingExists ==
  ASSUME NEW types, IsSignature(types), NEW llvm \in Nat, NEW prefix \in Seq(0..255)
  PROVE  \E enc : /\ Encodes(enc, types, prefix, llvm)
                  /\ encodeTypeString(types, prefix, llvm) = enc[Len(types)]
<1> DEFINE n == Len(types)
           part == [p \in 1..n |-> TypeCodes(types, p, llvm)]
           Fits(f) == f = [p \in 0..Len(types) |->
                             IF p = 0 THEN prefix ELSE f[p - 1] \o TypeCodes(types, p, llvm)]
           h == CHOOSE f : Fits(f)
<1>1. n \in Nat
  BY DEF IsSignature
<1>2. part \in [1..n -> Seq(0..255)]
  BY TypeCodesAreBytes
<1>3. \A p \in 1..n : part[p] = TypeCodes(types, p, llvm)
  OBVIOUS
<1>4. \A f : Fits(f) <=> Joins(f, n, prefix, part)
  <2> SUFFICES ASSUME NEW f
               PROVE  [p \in 0..n |-> IF p = 0 THEN prefix ELSE f[p - 1] \o TypeCodes(types, p, llvm)]
                      = [p \in 0..n |-> IF p = 0 THEN prefix ELSE f[p - 1] \o part[p]]
    BY DEF Joins
  <2>1. \A p \in 0..n : p # 0 => p \in 1..n
    BY <1>1
  <2> HIDE DEF n, part
  <2> QED
    BY <1>3, <2>1
<1>5. \E f : Joins(f, n, prefix, part)
  <2> HIDE DEF part, n
  <2> QED
    BY <1>1, <1>2, JoinsExist
<1>6. Fits(h)
  <2> HIDE DEF Fits
  <2> QED
    BY <1>4, <1>5
<1>7. Joins(h, n, prefix, part)
  BY <1>4, <1>6
<1>8. Joined(h, n, 0..255, prefix, part)
  <2> HIDE DEF part, n, h
  <2> QED
    BY <1>1, <1>2, <1>7, JoinsAre
<1>9. encodeTypeString(types, prefix, llvm) = h[Len(types)]
  BY DEF encodeTypeString
<1>10. Encodes(h, types, prefix, llvm)
  <2> HIDE DEF h
  <2> QED
    BY <1>3, <1>8 DEF Encodes, Joined
<1> QED
  BY <1>9, <1>10

\* The types of an encoded signature mean a value, with at most one descriptor
\* before it that begins a type.
OneValue(types, p) ==
  \E v : /\ v[1] \notin {"Struct", "Vector", "Pointer"}
         /\ \/ TypeMeaning(types, p) = <<v>>
            \/ \E h : h[1] \in {"Vector", "Pointer"} /\ TypeMeaning(types, p) = <<h, v>>
         /\ IF IsAny(types[p]) \/ types[p] \in DOMAIN MatchTypes
              THEN v[1] = "Overloaded" /\ v[2] = AnysBefore(types, AnyOf(types, p))
              ELSE v[1] # "Overloaded"

\* A type of a signature means one value.
LEMMA TypeMeaningShape ==
  ASSUME NEW types, IsSignature(types), NEW p \in 1..Len(types),
         \A q \in 1..Len(types) : types[q] \notin NotEncoded
  PROVE  OneValue(types, p)
<1> USE DEF OneValue
<1> DEFINE type == types[p]
           meaning == TypeMeaning(types, p)
<1>1. type \in TypeNames /\ type \notin NotEncoded
  BY DEF IsSignature
<1>2. \A s \in DOMAIN ScalarMeaning :
        ScalarMeaning[s][1] \notin {"Struct", "Vector", "Pointer", "Overloaded"}
  BY DEF ScalarMeaning
<1>3. CASE type \in DOMAIN type_map \cup {"vararg"}
  <2>1. meaning = <<ScalarMeaning[type]>>
    BY <1>3, TypeMeaningCases
  <2>2. ~IsAny(type) /\ type \notin DOMAIN MatchTypes /\ type \in DOMAIN ScalarMeaning
    BY <1>3, NamesOfTypes DEF IsAny
  <2> QED
    BY <1>2, <2>1, <2>2
<1>4. CASE type \in DOMAIN MatchTypes \/ IsAny(type)
  <2> DEFINE v == <<"Overloaded", AnysBefore(types, AnyOf(types, p)), any_map[types[AnyOf(types, p)]]>>
  <2>1. meaning = <<v>>
    BY <1>4, OverloadedTypes
  <2>2. v[1] = "Overloaded" /\ v[2] = AnysBefore(types, AnyOf(types, p))
    OBVIOUS
  <2> HIDE DEF v
  <2> QED
    BY <1>4, <2>1, <2>2
<1>5. CASE type \in DOMAIN VectorTypes
  <2> DEFINE v == ScalarMeaning[VectorTypes[type][1]]
             h == <<"Vector", VectorTypes[type][2]>>
  <2>1. meaning = <<h, v>> /\ h[1] = "Vector"
    BY <1>5, TypeMeaningCases
  <2>2. VectorTypes[type][1] \in DOMAIN ScalarMeaning
    BY <1>5, CodesOfNames, NamesOfTypes
  <2>3. ~IsAny(type) /\ type \notin DOMAIN MatchTypes
    BY <1>5, NamesOfTypes DEF IsAny
  <2>4. v[1] \notin {"Struct", "Vector", "Pointer", "Overloaded"}
    BY <1>2, <2>2
  <2> HIDE DEF h, v
  <2> QED
    BY <2>1, <2>3, <2>4
<1>6. CASE type \in DOMAIN pointerTypesi8_map
  <2> DEFINE v == <<"Integer", 8>>
             h == <<"Pointer", AddressSpaceOf[type]>>
  <2>1. meaning = <<h, v>> /\ h[1] = "Pointer"
    BY <1>6, TypeMeaningCases
  <2>2. v[1] = "Integer"
    OBVIOUS
  <2>3. ~IsAny(type) /\ type \notin DOMAIN MatchTypes
    BY <1>6, NamesOfTypes DEF IsAny
  <2> HIDE DEF h, v
  <2> QED
    BY <2>1, <2>2, <2>3
<1> QED
  BY <1>1, <1>3, <1>4, <1>5, <1>6 DEF TypeNames, NotEncoded, IsAny

\* The meaning of the first types of a signature.
MeaningParts(entry) ==
  LET types == entry.result \o entry.arguments
  IN  {<<"Struct", Len(entry.result)>>} \cup
        {TypeMeaning(types, x[1])[x[2]] : x \in (1..Len(types)) \X (1..2)}

\* mean[p] is the meaning of the first p types of a signature.
Means(mean, entry) ==
  LET types == entry.result \o entry.arguments
  IN  /\ mean \in [0..Len(types) -> Seq(MeaningParts(entry))]
      /\ mean[0] = IF Len(entry.result) = 1 THEN <<>> ELSE <<<<"Struct", Len(entry.result)>>>>
      /\ \A p \in 1..Len(types) : mean[p] = mean[p - 1] \o TypeMeaning(types, p)

\* The meaning of a type is a sequence of these descriptors.
LEMMA MeaningsIn ==
  ASSUME NEW entry, NEW types, types = entry.result \o entry.arguments,
         IsSignature(types), NEW p \in 1..Len(types),
         \A q \in 1..Len(types) : types[q] \notin NotEncoded
  PROVE  TypeMeaning(types, p) \in Seq(MeaningParts(entry))
<1> DEFINE V == MeaningParts(entry)
           t == TypeMeaning(types, p)
<1>1. \A k \in 1..2 : t[k] \in V
  <2> SUFFICES ASSUME NEW k \in 1..2 PROVE t[k] \in V
    OBVIOUS
  <2>1. <<p, k>> \in (1..Len(types)) \X (1..2) /\ <<p, k>>[1] = p /\ <<p, k>>[2] = k
    OBVIOUS
  <2> QED
    BY <2>1 DEF MeaningParts
<1>2. \E a, b : t = <<a>> \/ t = <<a, b>>
  <2>1. OneValue(types, p)
    BY TypeMeaningShape
  <2> QED
    BY <2>1 DEF OneValue
<1> HIDE DEF t, V
<1>3. PICK a, b : t = <<a>> \/ t = <<a, b>>
  BY <1>2
<1>4. CASE t = <<a>>
  <2>1. a \in V
    BY <1>1, <1>4
  <2>2. <<a>> \in Seq(V)
    BY <2>1
  <2> QED
    BY <1>4, <2>2 DEF t, V
<1>5. CASE t = <<a, b>>
  <2>1. a \in V /\ b \in V
    BY <1>1, <1>5
  <2>2. <<a, b>> \in Seq(V)
    BY <2>1
  <2> QED
    BY <1>5, <2>2 DEF t, V
<1> QED
  BY <1>3, <1>4, <1>5

\* Meaning is the last value of such a function.
LEMMA MeaningExists ==
  ASSUME NEW entry, IsSignature(entry.result \o entry.arguments), Encoded(entry)
  PROVE  \E mean : /\ Means(mean, entry)
                   /\ Meaning(entry) = mean[Len(entry.result \o entry.arguments)]
<1> DEFINE types == entry.result \o entry.arguments
           n == Len(types)
           V == MeaningParts(entry)
           base == IF Len(entry.result) = 1 THEN <<>> ELSE <<<<"Struct", Len(entry.result)>>>>
           part == [p \in 1..n |-> TypeMeaning(types, p)]
           Fits(f) == f = [p \in 0..Len(types) |->
                             IF p = 0 THEN IF Len(entry.result) = 1 THEN <<>>
                                               ELSE <<<<"Struct", Len(entry.result)>>>>
                             ELSE f[p - 1] \o TypeMeaning(types, p)]
           h == CHOOSE f : Fits(f)
<1>1. n \in Nat /\ \A q \in 1..n : types[q] \notin NotEncoded
  <2>1. n \in Nat
    <3>1. IsSignature(types)
      OBVIOUS
    <3> HIDE DEF types
    <3> QED
      BY <3>1 DEF IsSignature
  <2>2. \A q \in 1..n : types[q] \notin NotEncoded
    BY DEF Encoded
  <2> QED
    BY <2>1, <2>2
<1>2. part \in [1..n -> Seq(V)]
  <2> SUFFICES ASSUME NEW p \in 1..n PROVE TypeMeaning(types, p) \in Seq(V)
    OBVIOUS
  <2>1. IsSignature(types) /\ types = entry.result \o entry.arguments
    OBVIOUS
  <2> HIDE DEF types
  <2> QED
    BY <1>1, <2>1, MeaningsIn
<1>3. \A p \in 1..n : part[p] = TypeMeaning(types, p)
  OBVIOUS
<1>4. \A f : Fits(f) <=> Joins(f, n, base, part)
  <2> SUFFICES ASSUME NEW f
               PROVE  [p \in 0..n |-> IF p = 0 THEN base ELSE f[p - 1] \o TypeMeaning(types, p)]
                      = [p \in 0..n |-> IF p = 0 THEN base ELSE f[p - 1] \o part[p]]
    BY DEF Joins
  <2> HIDE DEF n, part, types, base
  <2>1. \A p \in 0..n : p # 0 => p \in 1..n
    BY <1>1
  <2> QED
    BY <1>3, <2>1
<1>5. base \in Seq(V)
  <2>1. <<"Struct", Len(entry.result)>> \in V
    BY DEF MeaningParts
  <2>2. <<>> \in Seq(V) /\ \A a \in V : <<a>> \in Seq(V)
    <3> HIDE DEF V
    <3>1. <<>> \in Seq(V)
      OBVIOUS
    <3>2. \A a \in V : <<a>> \in Seq(V)
      OBVIOUS
    <3> QED
      BY <3>1, <3>2
  <2> HIDE DEF V
  <2>3. CASE Len(entry.result) = 1
    BY <2>2, <2>3
  <2>4. CASE Len(entry.result) # 1
    BY <2>1, <2>2, <2>4
  <2> QED
    BY <2>3, <2>4
<1>6. \E f : Joins(f, n, base, part)
  <2> HIDE DEF part, n, base, V
  <2> QED
    BY <1>1, <1>2, <1>5, JoinsExist
<1>7. Fits(h)
  <2> HIDE DEF Fits
  <2> QED
    BY <1>4, <1>6
<1>8. Joins(h, n, base, part)
  <2> HIDE DEF h
  <2> QED
    BY <1>4, <1>7
<1>9. Joined(h, n, V, base, part)
  <2> HIDE DEF part, n, h, base, V
  <2> QED
    BY <1>1, <1>2, <1>5, <1>8, JoinsAre
<1>10. Meaning(entry) = h[Len(types)]
  BY DEF Meaning
<1>11. Means(h, entry)
  <2> HIDE DEF h
  <2> QED
    BY <1>3, <1>9 DEF Means, Joined
<1> QED
  BY <1>10, <1>11

-----------------------------------------------------------------------------
(* The reader over a signature.                                            *)

\* A signature that the generator gets through.
Prefix(entry) == IF Len(entry.result) > 1 THEN <<DestSizes(Len(entry.result))>> ELSE <<>>

\* What of WellFormed the proofs use.
WellFormedIs(entry) ==
  LET types == entry.result \o entry.arguments
  IN  /\ IsSignature(types) /\ Len(types) \in Nat
      /\ Len(entry.result) \in 1..5 /\ Len(entry.result) <= Len(types)
      /\ \A p \in 1..Len(types) : types[p] = "void" => p = 1 /\ Len(entry.result) = 1
      /\ Prefix(entry) \in Seq(0..255)

\* The codes of results of one to five values.
LEMMA DestSizesAre ==
  ASSUME NEW n \in 1..5
  PROVE  DestSizes(n) \in 20..24 /\ DestSizes(n) \in 0..255
BY DEF DestSizes

\* Every well formed entry is one.
LEMMA SignatureIs ==
  ASSUME NEW entry, WellFormed(entry)
  PROVE  WellFormedIs(entry)
<1> DEFINE result == entry.result
           arguments == entry.arguments
           types == result \o arguments
<1>1. /\ result \in Seq(TypeNames) /\ arguments \in Seq(TypeNames)
      /\ Len(result) \in 1..5
      /\ \A p \in 1..Len(types) :
           /\ types[p] = "void" => p = 1 /\ Len(result) = 1
           /\ types[p] \in DOMAIN MatchTypes => MatchTypes[types[p]] <= AnysBefore(types, p)
      /\ AnysBefore(types, Len(types) + 1) <= 32
  BY DEF WellFormed
<1>2. types \in Seq(TypeNames) /\ Len(types) \in Nat /\ Len(result) <= Len(types)
  <2> HIDE DEF result, arguments
  <2> QED
    BY <1>1
<1>3. Prefix(entry) \in Seq(0..255)
  <2>1. CASE Len(result) > 1
    <3>1. DestSizes(Len(result)) \in 0..255
      BY <1>1, DestSizesAre, ZenonT(60)
    <3>2. \A c \in 0..255 : <<c>> \in Seq(0..255)
      OBVIOUS
    <3>3. Prefix(entry) = <<DestSizes(Len(result))>>
      BY <2>1 DEF Prefix
    <3> QED
      BY <3>1, <3>2, <3>3
  <2>2. CASE ~(Len(result) > 1)
    <3>1. Prefix(entry) = <<>>
      BY <2>2 DEF Prefix
    <3> QED
      BY <3>1
  <2> QED
    BY <2>1, <2>2
<1>4. IsSignature(types)
  <2> HIDE DEF types
  <2> QED
    BY <1>1, <1>2 DEF IsSignature
<1> QED
  BY <1>1, <1>2, <1>3, <1>4 DEF WellFormedIs

\* The codes of a signature are bytes.
LEMMA SignatureCodes ==
  ASSUME NEW entry, WellFormed(entry), NEW llvm \in Nat
  PROVE  Signature(entry, llvm) \in Seq(0..255)
<1> DEFINE types == entry.result \o entry.arguments
<1>1. IsSignature(types) /\ Len(types) \in Nat /\ Prefix(entry) \in Seq(0..255)
  BY SignatureIs, ZenonT(60) DEF WellFormedIs
<1>2. Signature(entry, llvm) = encodeTypeString(types, Prefix(entry), llvm)
  BY DEF Signature, Prefix
<1> HIDE DEF types
<1>3. PICK enc : /\ Encodes(enc, types, Prefix(entry), llvm)
                 /\ encodeTypeString(types, Prefix(entry), llvm) = enc[Len(types)]
  BY <1>1, EncodingExists
<1>4. Len(types) \in 0..Len(types)
  BY <1>1
<1>5. enc[Len(types)] \in Seq(0..255)
  BY <1>3, <1>4 DEF Encodes
<1> QED
  BY <1>2, <1>3, <1>5

\* Where the codes of the signature are, the codes of each of its types are.
LEMMA TypesHeld ==
  ASSUME NEW types, IsSignature(types), Len(types) \in Nat, NEW llvm \in Nat,
         NEW prefix, NEW enc, Encodes(enc, types, prefix, llvm),
         NEW infos, NEW pos \in Nat, Has(infos, pos, enc[Len(types)])
  PROVE  /\ Has(infos, pos, prefix)
         /\ \A p \in 1..Len(types) :
              Has(infos, pos + Len(enc[p - 1]), TypeCodes(types, p, llvm))
<1> DEFINE n == Len(types)
           P == {d \in Nat : d <= n => Has(infos, pos, enc[n - d])}
<1>1. \A p \in 1..n : /\ enc[p] = enc[p - 1] \o TypeCodes(types, p, llvm)
                      /\ enc[p - 1] \in Seq(0..255) /\ TypeCodes(types, p, llvm) \in Seq(0..255)
  <2> SUFFICES ASSUME NEW p \in 1..n
               PROVE  /\ enc[p] = enc[p - 1] \o TypeCodes(types, p, llvm)
                      /\ enc[p - 1] \in Seq(0..255) /\ TypeCodes(types, p, llvm) \in Seq(0..255)
    OBVIOUS
  <2>1. p - 1 \in 0..n
    OBVIOUS
  <2> QED
    BY <2>1, TypeCodesAreBytes, ZenonT(60) DEF Encodes
<1>2. \A p \in 1..n : Has(infos, pos, enc[p]) =>
        Has(infos, pos, enc[p - 1]) /\ Has(infos, pos + Len(enc[p - 1]), TypeCodes(types, p, llvm))
  <2> SUFFICES ASSUME NEW p \in 1..n, Has(infos, pos, enc[p])
               PROVE  /\ Has(infos, pos, enc[p - 1])
                      /\ Has(infos, pos + Len(enc[p - 1]), TypeCodes(types, p, llvm))
    OBVIOUS
  <2> DEFINE a == enc[p - 1]
             b == TypeCodes(types, p, llvm)
  <2>1. a \in Seq(0..255) /\ b \in Seq(0..255) /\ Has(infos, pos, a \o b)
    BY <1>1, ZenonT(60)
  <2> HIDE DEF a, b
  <2>2. Has(infos, pos, a) /\ Has(infos, pos + Len(a), b)
    BY <2>1, HasBoth
  <2> QED
    BY <2>2 DEF a, b
<1>3. 0 \in P
  <2>1. n - 0 = n
    OBVIOUS
  <2> QED
    BY <2>1
<1>4. \A d \in Nat : d \in P => d + 1 \in P
  <2> SUFFICES ASSUME NEW d \in Nat, d + 1 <= n, Has(infos, pos, enc[n - d])
               PROVE  Has(infos, pos, enc[n - (d + 1)])
    OBVIOUS
  <2>1. n - d \in 1..n /\ n - (d + 1) = (n - d) - 1
    OBVIOUS
  <2> QED
    BY <2>1, <1>2
<1>5. Nat \subseteq P
  <2> HIDE DEF P
  <2> QED
    BY <1>3, <1>4, NumberInduction
<1>6. \A k \in 0..n : Has(infos, pos, enc[k])
  <2> SUFFICES ASSUME NEW k \in 0..n PROVE Has(infos, pos, enc[k])
    OBVIOUS
  <2>1. n - k \in Nat /\ n - k <= n /\ n - (n - k) = k
    OBVIOUS
  <2> QED
    BY <2>1, <1>5
<1>7. enc[0] = prefix /\ 0 \in 0..n /\ \A p \in 1..n : p \in 0..n
  BY DEF Encodes
<1> QED
  BY <1>2, <1>6, <1>7

\* How many of the types after the first k the reader still owes its first call.
Owed(entry, k) == IF k < Len(entry.result) THEN Len(entry.result) - k ELSE 0

\* How it changes from one type to the next.
OwedFor(entry) ==
  /\ \A k \in Nat : Owed(entry, k) \in Nat /\ Owed(entry, k + 1) = Rest(Owed(entry, k))
  /\ \A k \in Nat : Len(entry.result) <= k => Owed(entry, k) = 0
  /\ Owed(entry, 0) = Len(entry.result)

\* Arithmetic of the steps.
LEMMA NotOne ==
  ASSUME NEW r, r \in 1..5, r # 1
  PROVE  r \in 2..5 /\ r > 1
OBVIOUS

LEMMA StepNumbers ==
  ASSUME NEW n \in Nat, NEW k \in Nat, k + 1 <= n
  PROVE  k + 1 \in 1..n /\ (k + 1) - 1 = k /\ k \in 0..n /\ k + 1 \in 0..n
OBVIOUS

\* Induction up to a number.
LEMMA UpToInduction ==
  ASSUME NEW n \in Nat, NEW P, 0 \in P, \A k \in Nat : k + 1 <= n /\ k \in P => k + 1 \in P
  PROVE  n \in P
<1> DEFINE Q == {k \in Nat : k <= n => k \in P}
<1>1. 0 \in Q
  OBVIOUS
<1>2. \A k \in Nat : k \in Q => k + 1 \in Q
  OBVIOUS
<1>3. Nat \subseteq Q
  <2> HIDE DEF Q
  <2> QED
    BY <1>1, <1>2, NumberInduction
<1>4. n <= n
  OBVIOUS
<1> QED
  BY <1>3, <1>4

\* Concatenation is associative.
LEMMA JoinedTwice ==
  ASSUME NEW S, NEW T, NEW a \in Seq(S), NEW b \in Seq(S), NEW c \in Seq(T)
  PROVE  a \o (b \o c) = (a \o b) \o c
<1> DEFINE U == S \cup T
<1>1. S \subseteq U /\ T \subseteq U
  OBVIOUS
<1> HIDE DEF U
<1>2. a \in Seq(U) /\ b \in Seq(U) /\ c \in Seq(U)
  BY <1>1, SeqMonotonic
<1> QED
  BY <1>2, ConcatAssociative, SMTT(30)

\* It does so, from the number of values of the result to none.
LEMMA OwedIs ==
  ASSUME NEW entry, Len(entry.result) \in 1..5
  PROVE  OwedFor(entry)
<1> DEFINE r == Len(entry.result)
<1> HIDE DEF r
<1>1. r \in 1..5 /\ \A k : Owed(entry, k) = IF k < r THEN r - k ELSE 0
  BY DEF Owed, r
<1>2. \A k \in Nat : Owed(entry, k) \in Nat /\ Owed(entry, k + 1) = Rest(Owed(entry, k))
  <2> SUFFICES ASSUME NEW k \in Nat
               PROVE  Owed(entry, k) \in Nat /\ Owed(entry, k + 1) = Rest(Owed(entry, k))
    OBVIOUS
  <2>1. Owed(entry, k) = (IF k < r THEN r - k ELSE 0)
        /\ Owed(entry, k + 1) = (IF k + 1 < r THEN r - (k + 1) ELSE 0)
    BY <1>1
  <2> QED
    BY <1>1, <2>1 DEF Rest
<1>3. \A k \in Nat : r <= k => Owed(entry, k) = 0
  BY <1>1
<1>4. Owed(entry, 0) = r
  BY <1>1
<1> QED
  BY <1>2, <1>3, <1>4 DEF r, OwedFor

\* A structure is decoded from the code of its size.
LEMMA StructStep ==
  ASSUME NEW infos, Len(infos) \in Nat, NEW llvm, NEW first \in Nat,
         NEW struct, NEW more, NEW owed, owed \in Nat, owed # 0,
         NEW bytes, NEW pos2, pos2 = first + bytes, NEW owed2, owed2 = Rest(owed) + more,
         Decoded(infos, first, llvm, struct, bytes, more)
  PROVE  From(infos, llvm, first, owed) = Ahead(struct, From(infos, llvm, pos2, owed2))
BY OneDecoded

\* A result of several values: the structure, then as many types.
LEMMA StructDecoded ==
  ASSUME NEW infos, Len(infos) \in Nat, NEW llvm, NEW first \in Nat, NEW r, r \in 2..5,
         Byte(infos, first) = DestSizes(r)
  PROVE  From(infos, llvm, first, 1) = Ahead(<<"Struct", r>>, From(infos, llvm, first + 1, r))
<1> DEFINE begun == <<"Struct", r>>
           one == 1
           byte == 1
           next == first + byte
           owing == r
           elements == r
<1>1. DestSizes(r) \in 21..24 /\ StructCodes[DestSizes(r)] = r
  BY DEF DestSizes, StructCodes
<1>2. Decoded(infos, first, llvm, begun, byte, elements)
  BY <1>1, DecodedCases
<1>3. one \in Nat
  OBVIOUS
<1>4. one # 0
  OBVIOUS
<1>5. owing = Rest(one) + elements
  BY DEF Rest
<1>6. next = first + byte
  OBVIOUS
<1> HIDE DEF begun, one, next, owing, elements, byte
<1>7. From(infos, llvm, first, one) = Ahead(begun, From(infos, llvm, next, owing))
  BY <1>2, <1>3, <1>4, <1>5, <1>6, StructStep
<1> QED
  BY <1>7 DEF begun, one, next, owing, elements, byte

\* Where the codes of a signature are in the entries and a zero after them, the
\* reader decodes what the signature means.
LEMMA SignatureDecoded ==
  ASSUME NEW entry, WellFormed(entry), Encoded(entry), NEW llvm \in Nat,
         NEW infos, Len(infos) \in Nat, NEW first \in Nat,
         Has(infos, first, Signature(entry, llvm)),
         Byte(infos, first + Len(Signature(entry, llvm))) = 0
  PROVE  From(infos, llvm, first, 1) = Meaning(entry)
<1> DEFINE types == entry.result \o entry.arguments
           n == Len(types)
           V == MeaningParts(entry)
           W == DescriptorsIn(infos, llvm)
<1>1. /\ IsSignature(types) /\ n \in Nat /\ Prefix(entry) \in Seq(0..255)
      /\ Len(entry.result) \in 1..5 /\ Len(entry.result) <= n
      /\ \A p \in 1..n : types[p] = "void" => p = 1 /\ Len(entry.result) = 1
  BY SignatureIs, ZenonT(60) DEF WellFormedIs
<1>0. OwedFor(entry)
  BY <1>1, OwedIs
<1>01. /\ \A k \in Nat : Owed(entry, k) \in Nat /\ Owed(entry, k + 1) = Rest(Owed(entry, k))
       /\ \A k \in Nat : Len(entry.result) <= k => Owed(entry, k) = 0
       /\ Owed(entry, 0) = Len(entry.result)
  BY <1>0 DEF OwedFor
<1>2. Signature(entry, llvm) = encodeTypeString(types, Prefix(entry), llvm)
  BY DEF Signature, Prefix
<1>3. \A q \in 1..n : types[q] \notin NotEncoded
  BY DEF Encoded
<1>4. PICK mean : Means(mean, entry) /\ Meaning(entry) = mean[n]
  BY <1>1, MeaningExists
<1>5. /\ mean \in [0..n -> Seq(V)]
      /\ mean[0] = IF Len(entry.result) = 1 THEN <<>> ELSE <<<<"Struct", Len(entry.result)>>>>
      /\ \A p \in 1..n : mean[p] = mean[p - 1] \o TypeMeaning(types, p)
  BY <1>4 DEF Means
<1> HIDE DEF types, V, W, n
<1>6. PICK enc : /\ Encodes(enc, types, Prefix(entry), llvm)
                 /\ encodeTypeString(types, Prefix(entry), llvm) = enc[n]
  BY <1>1, EncodingExists DEF n
<1>7. /\ Has(infos, first, Prefix(entry))
      /\ \A p \in 1..n : Has(infos, first + Len(enc[p - 1]), TypeCodes(types, p, llvm))
  BY <1>1, <1>2, <1>6, TypesHeld, ZenonT(60) DEF n
<1>8. \A k \in 0..n : enc[k] \in Seq(0..255) /\ Len(enc[k]) \in Nat /\ first + Len(enc[k]) \in Nat
  <2> SUFFICES ASSUME NEW k, k \in 0..n
               PROVE  enc[k] \in Seq(0..255) /\ Len(enc[k]) \in Nat /\ first + Len(enc[k]) \in Nat
    OBVIOUS
  <2>1. enc[k] \in Seq(0..255)
    BY <1>6, ZenonT(60) DEF Encodes, n
  <2> QED
    BY <2>1
<1> DEFINE after(k) == From(infos, llvm, first + Len(enc[k]), Owed(entry, k))
           Claim(k) == From(infos, llvm, first, 1) = mean[k] \o after(k)
           P == {k \in Nat : Claim(k)}
<1>9. \A k \in 0..n : after(k) \in Seq(W)
  <2> SUFFICES ASSUME NEW k, k \in 0..n PROVE after(k) \in Seq(W)
    OBVIOUS
  <2>2. k \in Nat
    BY <1>1
  <2>3. first + Len(enc[k]) \in Nat
    BY <1>8
  <2>4. Owed(entry, k) \in Nat
    BY <2>2, <1>01
  <2>1. first + Len(enc[k]) \in Nat /\ Owed(entry, k) \in Nat
    BY <2>3, <2>4
  <2> QED
    BY <2>1, DecodesSequences DEF From, W
<1>10. Claim(0)
  <2>1. enc[0] = Prefix(entry)
    BY <1>6 DEF Encodes, n
  <2>2. CASE Len(entry.result) = 1
    <3>1. Prefix(entry) = <<>> /\ mean[0] = <<>> /\ Owed(entry, 0) = 1
      BY <2>2, <1>1, <1>5, <1>01 DEF Prefix
    <3>2. first + Len(enc[0]) = first
      BY <2>1, <3>1
    <3>3. after(0) = From(infos, llvm, first, 1) /\ after(0) \in Seq(W)
      BY <3>1, <3>2, <1>1, <1>9
    <3> HIDE DEF after
    <3>4. <<>> \o after(0) = after(0)
      BY <3>3
    <3> QED
      BY <3>1, <3>3, <3>4
  <2>3. CASE Len(entry.result) # 1
    <3> DEFINE r == Len(entry.result)
    <3>0. r \in 2..5 /\ r > 1
      <4> HIDE DEF r
      <4>1. r \in 1..5 /\ r # 1
        BY <1>1, <2>3 DEF r
      <4> QED
        BY <4>1, NotOne
    <3>1. Prefix(entry) = <<DestSizes(r)>> /\ mean[0] = <<<<"Struct", r>>>> /\ Owed(entry, 0) = r
      BY <2>3, <3>0, <1>5, <1>01 DEF Prefix
    <3>2. Byte(infos, first) = DestSizes(r) /\ Len(enc[0]) = 1
      <4>1. Has(infos, first, <<DestSizes(r)>>)
        BY <3>1, <1>7
      <4>2. Byte(infos, first) = DestSizes(r) /\ Len(<<DestSizes(r)>>) = 1
        BY <4>1, HasOne
      <4> QED
        BY <4>2, <3>1, <2>1
    <3> HIDE DEF r
    <3>3. after(0) = From(infos, llvm, first + 1, r)
      BY <3>1, <3>2
    <3>5. From(infos, llvm, first, 1) = Ahead(<<"Struct", r>>, after(0))
      BY <3>0, <3>2, <3>3, StructDecoded
    <3> QED
      BY <3>1, <3>5 DEF Ahead
  <2> QED
    BY <2>2, <2>3
<1>11. ASSUME NEW k, k \in Nat, k + 1 <= n, Claim(k) PROVE Claim(k + 1)
  <2> DEFINE p == k + 1
             t == TypeMeaning(types, p)
             c == TypeCodes(types, p, llvm)
  <2>1. p \in 1..n /\ p - 1 = k /\ k \in 0..n /\ p \in 0..n
    <3> HIDE DEF n
    <3> QED
      BY <1>1, <1>11, StepNumbers
  <2>2. mean[p] = mean[k] \o t /\ mean[k] \in Seq(V)
    <3> HIDE DEF p
    <3> QED
      BY <2>1, <1>5
  <2>3. enc[p] = enc[k] \o c /\ c \in Seq(0..255) /\ enc[k] \in Seq(0..255)
    <3> HIDE DEF p
    <3>1. enc[p] = enc[k] \o c
      BY <1>6, <2>1 DEF Encodes, n
    <3>2. c \in Seq(0..255)
      BY <1>1, <2>1, TypeCodesAreBytes DEF n
    <3> QED
      BY <3>1, <3>2, <2>1, <1>8
  <2>4. first + Len(enc[p]) = first + Len(enc[k]) + Len(c)
    <3> HIDE DEF p, c
    <3>1. Len(enc[p]) = Len(enc[k]) + Len(c) /\ Len(enc[k]) \in Nat /\ Len(c) \in Nat
      BY <2>3
    <3> QED
      BY <3>1
  <2>5. Owed(entry, k) \in Nat /\ Owed(entry, p) = Rest(Owed(entry, k))
    BY <1>11, <1>01
  <2>6. types[p] = "void" => Owed(entry, k) # 0
    <3>1. types[p] = "void" => k = 0
      BY <1>1, <2>1
    <3> QED
      <4>1. Owed(entry, 0) \in 1..5
        BY <1>1, <1>01
      <4>2. Owed(entry, 0) # 0
        BY <4>1
      <4> QED
        BY <3>1, <4>2
  <2>7. TypeDecoded(types, p, infos, llvm, first + Len(enc[k]), Owed(entry, k))
    <3> DEFINE pos == first + Len(enc[k])
               owed == Owed(entry, k)
    <3>1. pos \in Nat /\ owed \in Nat /\ (types[p] = "void" => owed # 0)
      BY <1>8, <2>1, <2>5, <2>6
    <3>2. Has(infos, pos, c)
      <4> HIDE DEF p
      <4> QED
        BY <1>7, <2>1
    <3> HIDE DEF pos, owed, p, n
    <3>3. \A q \in 1..Len(types) : types[q] \notin NotEncoded
      BY <1>3 DEF n
    <3>4. p \in 1..Len(types)
      BY <2>1 DEF n
    <3>5. TypeDecoded(types, p, infos, llvm, pos, owed)
      BY <1>1, <3>1, <3>2, <3>3, <3>4, TypeDecodes
    <3> QED
      BY <3>5 DEF pos, owed
  <2>8. after(k) = t \o after(p)
    <3> HIDE DEF p
    <3> QED
      BY <2>4, <2>5, <2>7 DEF TypeDecoded
  <2>9. t \in Seq(V) /\ after(p) \in Seq(W)
    <3>1. after(p) \in Seq(W)
      <4> HIDE DEF p, after
      <4> QED
        BY <1>9, <2>1
    <3>2. t \in Seq(V)
      <4> HIDE DEF p
      <4> QED
        BY <1>1, <1>3, <2>1, MeaningsIn DEF V, types, n
    <3> QED
      BY <3>1, <3>2
  <2> HIDE DEF p, t, after
  <2>10. mean[k] \o (t \o after(p)) = (mean[k] \o t) \o after(p)
    <3> DEFINE before == mean[k]
               rest == after(p)
    <3>1. before \in Seq(V) /\ t \in Seq(V) /\ rest \in Seq(W)
      BY <2>2, <2>9
    <3> HIDE DEF before, rest
    <3>2. before \o (t \o rest) = (before \o t) \o rest
      BY <3>1, JoinedTwice, SMTT(30)
    <3> QED
      BY <3>2 DEF before, rest
  <2> QED
    BY <1>11, <2>2, <2>8, <2>10 DEF p
<1>12. n \in P
  <2> HIDE DEF Claim
  <2>1. 0 \in P
    BY <1>10
  <2>2. ASSUME NEW k, k \in Nat, k + 1 <= n, k \in P PROVE k + 1 \in P
    <3>1. Claim(k)
      BY <2>2
    <3>2. Claim(k + 1)
      BY <1>11, <2>2, <3>1
    <3>3. k + 1 \in Nat
      BY <2>2
    <3> QED
      BY <3>2, <3>3
  <2> HIDE DEF P
  <2> QED
    BY <1>1, <2>1, <2>2, UpToInduction
<1>13. From(infos, llvm, first, 1) = mean[n] \o after(n)
  <2>1. Claim(n)
    <3> HIDE DEF Claim
    <3> QED
      BY <1>12
  <2> QED
    BY <2>1
<1>14. after(n) = <<>>
  <2>1. Owed(entry, n) = 0
    BY <1>1, <1>01
  <2>2. Byte(infos, first + Len(enc[n])) = 0
    BY <1>2, <1>6
  <2> DEFINE pos == first + Len(enc[n])
  <2>3. pos \in Nat /\ n \in 0..n
    BY <1>1, <1>8
  <2>4. DecodesFrom(DecodeTypes(infos, llvm), infos, llvm, pos, 0)
    <3> HIDE DEF pos
    <3> QED
      BY <2>3, DecodingExists
  <2> QED
    BY <2>1, <2>2, <2>4 DEF DecodesFrom, From
<1>15. mean[n] \in Seq(V)
  BY <1>1, <1>5
<1> HIDE DEF after
<1>16. mean[n] \o <<>> = mean[n]
  BY <1>15
<1> QED
  BY <1>4, <1>13, <1>14, <1>16

\* A bounded set of numbers has a greatest one.
LEMMA LastOf ==
  ASSUME NEW S, S \subseteq Nat, S # {}, NEW n \in Nat, \A k \in S : k <= n
  PROVE  \E m \in S : \A k \in S : k <= m
<1> DEFINE T == {n - k : k \in S}
<1>1. T \subseteq Nat /\ T # {}
  <2>1. PICK k \in S : TRUE
    OBVIOUS
  <2>2. n - k \in T
    OBVIOUS
  <2>3. ASSUME NEW j \in S PROVE n - j \in Nat
    OBVIOUS
  <2> QED
    BY <2>2, <2>3
<1>2. PICK d \in T : \A e \in T : d <= e
  <2> HIDE DEF T
  <2> QED
    BY <1>1, LeastNumber
<1>3. PICK m \in S : d = n - m
  OBVIOUS
<1>4. \A k \in S : k <= m
  <2> SUFFICES ASSUME NEW k \in S PROVE k <= m
    OBVIOUS
  <2>1. n - k \in T /\ k \in Nat /\ m \in Nat
    OBVIOUS
  <2> HIDE DEF T
  <2>2. n - m <= n - k
    BY <1>2, <1>3, <2>1
  <2> QED
    BY <2>1, <2>2
<1> QED
  BY <1>4

\* The digits of a word are the codes without the zeros at their end.
LEMMA InlineHolds ==
  ASSUME NEW codes \in Seq(0..255), NEW long
  PROVE  LET infos == IITEntries(Inline(codes), long)
         IN  /\ ~Inline(codes).sign
             /\ Len(infos) \in Nat
             /\ Has(infos, 1, codes)
             /\ Byte(infos, 1 + Len(codes)) = 0
<1> DEFINE last == {p \in 1..Len(codes) : codes[p] # 0}
           keep == IF last = {} THEN 0 ELSE CHOOSE p \in last : \A q \in last : q <= p
           low == SubSeq(codes, 1, keep)
           infos == IF low = <<>> THEN <<0>> ELSE low
<1>1. Len(codes) \in Nat
  OBVIOUS
<1>2. keep \in 0..Len(codes) /\ \A p \in 1..Len(codes) : p > keep => codes[p] = 0
  <2>1. CASE last = {}
    BY <2>1, <1>1
  <2>2. CASE last # {}
    <3>1. \E p \in last : \A q \in last : q <= p
      <4>1. last \subseteq Nat /\ \A p \in last : p <= Len(codes)
        OBVIOUS
      <4> HIDE DEF last
      <4> QED
        BY <4>1, <2>2, <1>1, LastOf
    <3>2. keep \in last /\ \A q \in last : q <= keep
      <4> HIDE DEF last
      <4> QED
        BY <3>1, <2>2
    <3> HIDE DEF keep
    <3> QED
      BY <3>2
  <2> QED
    BY <2>1, <2>2
<1> HIDE DEF keep
<1>3. low \in Seq(0..255) /\ Len(low) = keep /\ \A p \in 1..keep : low[p] = codes[p]
  <2>1. SubSeq(codes, 1, keep) \in Seq(0..255) /\ Len(SubSeq(codes, 1, keep)) = keep
        /\ \A p \in 1..keep : SubSeq(codes, 1, keep)[p] = codes[p]
    <3>1. keep \in Nat /\ keep <= Len(codes)
      BY <1>1, <1>2
    <3>2. \A p \in 1..keep : p \in 1..Len(codes) /\ codes[p] \in 0..255
      <4> SUFFICES ASSUME NEW p \in 1..keep PROVE p \in 1..Len(codes) /\ codes[p] \in 0..255
        OBVIOUS
      <4>1. p \in 1..Len(codes)
        BY <1>1, <3>1
      <4>2. codes[p] \in 0..255
        BY <4>1, ElementOfSeq, SMTT(30)
      <4> QED
        BY <4>1, <4>2
    <3> QED
      BY <1>1, <1>2, <3>1, <3>2
  <2> QED
    BY <2>1
<1> HIDE DEF low
<1>4. Len(infos) \in Nat /\ \A p \in Nat \ {0} : Byte(infos, p) = IF p <= keep THEN codes[p] ELSE 0
  <2>1. CASE low = <<>>
    <3>1. keep = 0 /\ infos = <<0>>
      BY <2>1, <1>3
    <3>2. Len(<<0>>) = 1 /\ <<0>>[1] = 0
      OBVIOUS
    <3>3. \A p \in Nat \ {0} : Byte(<<0>>, p) = 0
      BY <3>2 DEF Byte
    <3> HIDE DEF infos
    <3> QED
      BY <3>1, <3>2, <3>3
  <2>2. CASE low # <<>>
    <3>1. infos = low
      BY <2>2
    <3> HIDE DEF infos
    <3> QED
      BY <3>1, <1>2, <1>3 DEF Byte
  <2> QED
    BY <2>1, <2>2
<1>5. Inline(codes) = Word(FALSE, low)
  BY DEF Inline, low, keep
<1>6. ~Inline(codes).sign /\ IITEntries(Inline(codes), long) = infos
  <2>1. Word(FALSE, low).sign = FALSE /\ Word(FALSE, low).low = low
    BY DEF Word
  <2> QED
    BY <1>5, <2>1 DEF IITEntries
<1> HIDE DEF infos
<1>7. Has(infos, 1, codes)
  <2> SUFFICES ASSUME NEW k \in 1..Len(codes) PROVE Byte(infos, 1 + k - 1) = codes[k]
    BY DEF Has
  <2>1. 1 + k - 1 = k /\ k \in Nat \ {0}
    OBVIOUS
  <2> QED
    BY <2>1, <1>2, <1>4
<1>8. Byte(infos, 1 + Len(codes)) = 0
  <2>1. 1 + Len(codes) \in Nat \ {0} /\ ~(1 + Len(codes) <= keep)
    BY <1>1, <1>2
  <2> QED
    BY <2>1, <1>4
<1> QED
  BY <1>4, <1>6, <1>7, <1>8

-----------------------------------------------------------------------------
(* Where the values of a signature are among its descriptors.              *)

\* L leads from the types of a signature, in their order, to the places of their
\* values among the descriptors d.
Heads == {"Struct", "Vector", "Pointer"}

\* The value of a type is overloaded when the type is or refers to one, and has
\* the number of that one.
Laid(d, L, types) ==
  LET n == Len(types)
  IN  /\ L \in [0..n -> Nat]
      /\ \A p \in 1..n : L[p] \in 1..Len(d)
      /\ \A p, q \in 1..n : p < q => L[p] < L[q]
      /\ \A j \in 1..Len(d) : (\E p \in 1..n : j = L[p]) \/ d[j][1] \in Heads
      /\ \A p \in 1..n :
           /\ d[L[p]][1] \notin Heads
           /\ d[L[p]][1] = "Overloaded" <=> IsAny(types[p]) \/ types[p] \in DOMAIN MatchTypes
           /\ d[L[p]][1] = "Overloaded" => d[L[p]][2] = AnysBefore(types, AnyOf(types, p))

\* How many places come before one.
LEMMA FirstNumbers ==
  ASSUME NEW p \in Nat \ {0}
  PROVE  Cardinality(1..(p - 1)) = p - 1
<1>1. 1 \in Int /\ p - 1 \in Int
  OBVIOUS
<1>2. Cardinality(1..(p - 1)) = IF 1 <= p - 1 THEN (p - 1) - 1 + 1 ELSE 0
  BY <1>1, FS_Interval
<1> QED
  BY <1>2

\* There are as many places as types.
Climbs(L, S) ==
  /\ \A p \in S : p \in Int /\ L[p] \in Nat
  /\ \A p, q \in S : p < q => L[p] < L[q]
Places(L, S) == {L[p] : p \in S}
LEMMA CardinalityOfPlaces ==
  ASSUME NEW L, NEW S, IsFiniteSet(S), Climbs(L, S)
  PROVE  Cardinality(Places(L, S)) = Cardinality(S)
<1> DEFINE T == Places(L, S)
           f == [p \in S |-> L[p]]
<1> USE DEF Places
<1>2. \A p, q \in S : L[p] = L[q] => p = q
  <2> SUFFICES ASSUME NEW p \in S, NEW q \in S, L[p] = L[q], p # q PROVE FALSE
    OBVIOUS
  <2>1. p \in Int /\ q \in Int /\ L[p] \in Nat /\ L[q] \in Nat
    BY DEF Climbs
  <2>2. p < q \/ q < p
    BY <2>1
  <2> QED
    BY <2>1, <2>2 DEF Climbs
<1>3. f \in Injection(S, T)
  BY <1>2 DEF Injection, IsInjective
<1>4. f \in Surjection(S, T)
  BY DEF Surjection
<1> HIDE DEF f, T
<1>5. Cardinality(T) = Cardinality(S)
  BY <1>3, <1>4, FS_Surjection
<1> QED
  BY <1>5 DEF T

\* The places of values, and those where an overloaded type is introduced.
LEMMA PlacesOfValues ==
  ASSUME NEW d, NEW L, NEW types, IsSignature(types), Len(types) \in Nat, Len(d) \in Nat,
         Laid(d, L, types)
  PROVE  /\ ValuePlaces(d) = {L[p] : p \in 1..Len(types)}
         /\ {j \in 1..Len(d) : IntroducesOverload(d, j)} =
              {L[p] : p \in {q \in 1..Len(types) : IsAny(types[q])}}
<1> DEFINE n == Len(types)
<1>1. /\ \A p \in 1..n : L[p] \in 1..Len(d) /\ L[p] \in Nat
      /\ \A p, q \in 1..n : p < q => L[p] < L[q]
      /\ \A j \in 1..Len(d) : (\E p \in 1..n : j = L[p]) \/ d[j][1] \in Heads
      /\ \A p \in 1..n :
           /\ d[L[p]][1] \notin Heads
           /\ d[L[p]][1] = "Overloaded" <=> IsAny(types[p]) \/ types[p] \in DOMAIN MatchTypes
           /\ d[L[p]][1] = "Overloaded" => d[L[p]][2] = AnysBefore(types, AnyOf(types, p))
  BY DEF Laid
<1>2. ValuePlaces(d) = {L[p] : p \in 1..n}
  <2> HIDE DEF n
  <2> QED
    BY <1>1 DEF ValuePlaces, Heads
<1>3. ASSUME NEW p \in 1..n, IsAny(types[p]) PROVE IntroducesOverload(d, L[p])
  <2>1. d[L[p]][1] = "Overloaded" /\ AnyOf(types, p) = p
    BY <1>1, <1>3, NamesOfTypes DEF AnyOf, IsAny
  <2>2. d[L[p]][2] = AnysBefore(types, p)
    BY <1>1, <2>1
  <2>3. ASSUME NEW j \in 1..(L[p] - 1), d[j][1] = "Overloaded", d[j][2] = d[L[p]][2]
        PROVE  FALSE
    <3>1. j \in 1..Len(d) /\ j < L[p] /\ L[p] \in Nat
      BY <1>1
    <3>2. PICK q \in 1..n : j = L[q]
      BY <3>1, <2>3, <1>1 DEF Heads
    <3>3. q < p
      <4>1. p \in Nat /\ q \in Nat /\ L[q] < L[p] /\ L[q] \in Nat
        BY <3>1, <3>2, <1>1
      <4>2. ~(p < q) /\ p # q
        BY <4>1, <3>1, <1>1
      <4> QED
        BY <4>1, <4>2
    <3> DEFINE a == AnyOf(types, q)
    <3>4. a \in 1..n /\ IsAny(types[a]) /\ (a = q \/ a < q) /\ d[L[q]][2] = AnysBefore(types, a)
      <4>1. IsAny(types[q]) \/ types[q] \in DOMAIN MatchTypes
        BY <1>1, <2>3, <3>2
      <4>2. a \in 1..n /\ IsAny(types[a]) /\ (a = q \/ a < q)
        BY <4>1, AnyOfIs
      <4>3. d[L[q]][2] = AnysBefore(types, a)
        BY <1>1, <2>3, <3>2
      <4> QED
        BY <4>2, <4>3
    <3> HIDE DEF a
    <3>5. a < p /\ a \in Nat \ {0} /\ p \in Nat
      BY <3>3, <3>4
    <3>6. AnysBefore(types, a) + 1 <= AnysBefore(types, p)
      BY <3>4, <3>5, AnysGrow
    <3>7. AnysBefore(types, a) \in Nat /\ AnysBefore(types, p) \in Nat
      <4>1. a \in Nat \ {0} /\ p \in Nat \ {0}
        BY <3>5
      <4> QED
        BY <4>1, AnysCounted
    <3>8. AnysBefore(types, a) = AnysBefore(types, p)
      BY <2>2, <2>3, <3>2, <3>4
    <3> QED
      BY <3>6, <3>7, <3>8
  <2> QED
    BY <2>1, <2>3 DEF IntroducesOverload
<1>4. ASSUME NEW j \in 1..Len(d), IntroducesOverload(d, j)
      PROVE  \E p \in 1..n : IsAny(types[p]) /\ j = L[p]
  <2>1. d[j][1] = "Overloaded" /\ \A k \in 1..(j - 1) : d[k][1] = "Overloaded" => d[k][2] # d[j][2]
    BY <1>4 DEF IntroducesOverload
  <2>2. PICK p \in 1..n : j = L[p]
    BY <1>1, <2>1 DEF Heads
  <2>3. IsAny(types[p]) \/ types[p] \in DOMAIN MatchTypes
    BY <1>1, <2>1, <2>2
  <2>4. ASSUME ~IsAny(types[p]) PROVE FALSE
    <3> DEFINE a == AnyOf(types, p)
    <3>1. a \in 1..n /\ IsAny(types[a]) /\ (a = p \/ a < p)
      BY <2>3, AnyOfIs
    <3>2. a < p
      BY <3>1, <2>4
    <3>3. d[L[p]][2] = AnysBefore(types, a)
      BY <1>1, <2>1, <2>2
    <3> HIDE DEF a
    <3>4. L[a] < L[p] /\ L[a] \in Nat /\ L[p] \in Nat /\ L[a] \in 1..Len(d)
      BY <1>1, <3>1, <3>2
    <3>5. L[a] \in 1..(j - 1)
      BY <3>4, <2>2
    <3>6. d[L[a]][1] = "Overloaded" /\ AnyOf(types, a) = a
      BY <1>1, <3>1, NamesOfTypes DEF AnyOf, IsAny
    <3>7. d[L[a]][2] = AnysBefore(types, a)
      BY <1>1, <3>1, <3>6
    <3> QED
      BY <2>1, <2>2, <3>3, <3>5, <3>6, <3>7
  <2> QED
    BY <2>2, <2>4
<1>5. {j \in 1..Len(d) : IntroducesOverload(d, j)} =
        {L[p] : p \in {q \in 1..n : IsAny(types[q])}}
  <2> HIDE DEF n
  <2> QED
    BY <1>1, <1>3, <1>4
<1> QED
  BY <1>2, <1>5

\* How many values and how many introductions come before the value of a type.
LEMMA PlacesBefore ==
  ASSUME NEW d, NEW L, NEW types, IsSignature(types), Len(types) \in Nat, Len(d) \in Nat,
         Laid(d, L, types), NEW p \in 1..Len(types)
  PROVE  /\ Cardinality({j \in ValuePlaces(d) : j < L[p]}) = p - 1
         /\ Cardinality({j \in {k \in 1..Len(d) : IntroducesOverload(d, k)} : j < L[p]}) =
              AnysBefore(types, p)
<1> DEFINE n == Len(types)
           S == 1..(p - 1)
           A == {q \in 1..(p - 1) : IsAny(types[q])}
           B == {q \in 1..n : IsAny(types[q])}
<1>1. /\ \A q \in 1..n : L[q] \in Nat
      /\ \A q, r \in 1..n : q < r => L[q] < L[r]
  BY DEF Laid
<1>2. \A q \in 1..n : L[q] < L[p] <=> q \in S
  <2> SUFFICES ASSUME NEW q \in 1..n PROVE L[q] < L[p] <=> q \in S
    OBVIOUS
  <2>1. L[q] \in Nat /\ L[p] \in Nat /\ (q < p => L[q] < L[p]) /\ (p < q => L[p] < L[q])
    BY <1>1
  <2>2. q < p \/ q = p \/ p < q
    OBVIOUS
  <2> QED
    BY <2>1, <2>2
<1>3. S \subseteq 1..n /\ A \subseteq 1..n /\ \A q \in 1..n : q \in A <=> q \in B /\ q \in S
  OBVIOUS
<1> HIDE DEF S
<1>4. {j \in ValuePlaces(d) : j < L[p]} = {L[q] : q \in S}
  <2> HIDE DEF n
  <2>1. ValuePlaces(d) = {L[q] : q \in 1..n}
    BY PlacesOfValues DEF n
  <2> QED
    BY <2>1, <1>2, <1>3
<1>5. {j \in {k \in 1..Len(d) : IntroducesOverload(d, k)} : j < L[p]} = {L[q] : q \in A}
  <2>1. {k \in 1..Len(d) : IntroducesOverload(d, k)} = {L[q] : q \in B}
    BY PlacesOfValues
  <2>2. B \subseteq 1..n
    OBVIOUS
  <2> HIDE DEF A, B, n
  <2> QED
    BY <2>1, <2>2, <1>2, <1>3
<1>6. Cardinality({L[q] : q \in S}) = Cardinality(S)
  <2>1. IsFiniteSet(1..n)
    BY FS_Interval
  <2>2. \A q \in S : q \in 1..n /\ q \in Int
    BY <1>3
  <2> HIDE DEF n
  <2>3. IsFiniteSet(S)
    BY <2>1, <1>3, FS_Subset
  <2>4. Climbs(L, S)
    BY <1>1, <2>2 DEF Climbs
  <2>5. Cardinality(Places(L, S)) = Cardinality(S)
    BY <2>3, <2>4, CardinalityOfPlaces
  <2> QED
    BY <2>5 DEF Places
<1>7. Cardinality({L[q] : q \in A}) = Cardinality(A)
  <2>1. IsFiniteSet(1..n)
    BY FS_Interval
  <2>2. \A q \in A : q \in 1..n /\ q \in Int
    BY <1>3
  <2> HIDE DEF n, A
  <2>3. IsFiniteSet(A)
    BY <2>1, <1>3, FS_Subset
  <2>4. Climbs(L, A)
    BY <1>1, <2>2 DEF Climbs
  <2>5. Cardinality(Places(L, A)) = Cardinality(A)
    BY <2>3, <2>4, CardinalityOfPlaces
  <2> QED
    BY <2>5 DEF Places
<1>8. Cardinality(S) = p - 1
  BY FirstNumbers DEF S
<1>9. Cardinality(A) = AnysBefore(types, p)
  BY DEF AnysBefore
<1> QED
  BY <1>4, <1>5, <1>6, <1>7, <1>8, <1>9

\* v is the value of the type at p.
ValueAt(v, types, p) ==
  /\ v[1] \notin Heads
  /\ v[1] = "Overloaded" <=> IsAny(types[p]) \/ types[p] \in DOMAIN MatchTypes
  /\ v[1] = "Overloaded" => v[2] = AnysBefore(types, AnyOf(types, p))

\* m is laid out for the first k types.
LaidTo(m, L, types, k) ==
  /\ Len(m) = L[k]
  /\ \A p \in 1..k : L[p] \in 1..L[k]
  /\ \A p, q \in 1..k : p < q => L[p] < L[q]
  /\ \A j \in 1..L[k] : (\E p \in 1..k : j = L[p]) \/ m[j][1] \in Heads
  /\ \A p \in 1..k : ValueAt(m[L[p]], types, p)

\* One type more ends with its value.
LEMMA AfterJoin ==
  ASSUME NEW S, NEW m \in Seq(S), NEW t \in Seq(S), NEW v,
         t = <<v>> \/ \E h : h[1] \in Heads /\ t = <<h, v>>
  PROVE  /\ Len(m \o t) \in Nat /\ Len(m) \in Nat /\ Len(m \o t) > Len(m)
         /\ \A j \in 1..Len(m) : (m \o t)[j] = m[j]
         /\ (m \o t)[Len(m \o t)] = v
         /\ \A j \in 1..Len(m \o t) : j > Len(m) /\ j # Len(m \o t) => (m \o t)[j][1] \in Heads
<1> DEFINE x == m \o t
<1>1. /\ Len(m) \in Nat /\ Len(t) \in Nat /\ Len(x) = Len(m) + Len(t)
      /\ \A j \in 1..Len(m) + Len(t) : x[j] = IF j <= Len(m) THEN m[j] ELSE t[j - Len(m)]
  BY ConcatProperties
<1>2. CASE t = <<v>>
  <2>1. Len(t) = 1 /\ t[1] = v
    BY <1>2
  <2> HIDE DEF x
  <2>2. Len(x) = Len(m) + 1 /\ Len(m) + 1 - Len(m) = 1 /\ ~(Len(m) + 1 <= Len(m))
    BY <1>1, <2>1
  <2>3. x[Len(x)] = v
    BY <1>1, <2>1, <2>2
  <2>4. \A j \in 1..Len(x) : j > Len(m) => j = Len(x)
    BY <1>1, <2>2
  <2>5. \A j \in 1..Len(m) : x[j] = m[j]
    BY <1>1
  <2> QED
    BY <1>1, <2>2, <2>3, <2>4, <2>5 DEF x
<1>3. ASSUME NEW h, h[1] \in Heads, t = <<h, v>>
      PROVE  /\ Len(x) \in Nat /\ Len(m) \in Nat /\ Len(x) > Len(m)
             /\ \A j \in 1..Len(m) : x[j] = m[j]
             /\ x[Len(x)] = v
             /\ \A j \in 1..Len(x) : j > Len(m) /\ j # Len(x) => x[j][1] \in Heads
  <2>1. Len(t) = 2 /\ t[1] = h /\ t[2] = v
    BY <1>3
  <2> HIDE DEF x
  <2>2. /\ Len(x) = Len(m) + 2 /\ Len(m) + 1 - Len(m) = 1 /\ ~(Len(m) + 1 <= Len(m))
        /\ Len(m) + 2 - Len(m) = 2 /\ ~(Len(m) + 2 <= Len(m))
    BY <1>1, <2>1
  <2>3. x[Len(x)] = v
    BY <1>1, <2>1, <2>2
  <2>4. \A j \in 1..Len(x) : j > Len(m) /\ j # Len(x) => j = Len(m) + 1
    BY <1>1, <2>2
  <2>5. \A j \in 1..Len(m) : x[j] = m[j]
    BY <1>1
  <2>6. x[Len(m) + 1] = h
    BY <1>1, <2>1, <2>2
  <2> QED
    BY <1>1, <1>3, <2>2, <2>3, <2>4, <2>5, <2>6
<1> QED
  BY <1>2, <1>3

LEMMA LaidStep ==
  ASSUME NEW S, NEW m \in Seq(S), NEW t \in Seq(S), NEW v, NEW types, NEW L,
         t = <<v>> \/ \E h : h[1] \in Heads /\ t = <<h, v>>,
         NEW k \in Nat, LaidTo(m, L, types, k), L[k + 1] = Len(m \o t), ValueAt(v, types, k + 1)
  PROVE  LaidTo(m \o t, L, types, k + 1)
<1> DEFINE x == m \o t
<1>1. /\ Len(x) \in Nat /\ Len(m) \in Nat /\ Len(x) > Len(m)
      /\ \A j \in 1..Len(m) : x[j] = m[j]
      /\ x[Len(x)] = v
      /\ \A j \in 1..Len(x) : j > Len(m) /\ j # Len(x) => x[j][1] \in Heads
  BY AfterJoin, ZenonT(60)
<1>2. /\ Len(m) = L[k] /\ L[k + 1] = Len(x)
      /\ \A p \in 1..k : L[p] \in 1..L[k]
      /\ \A p, q \in 1..k : p < q => L[p] < L[q]
      /\ \A j \in 1..L[k] : (\E p \in 1..k : j = L[p]) \/ m[j][1] \in Heads
      /\ \A p \in 1..k : ValueAt(m[L[p]], types, p)
  BY DEF LaidTo
<1> HIDE DEF x
<1>3. \A p \in 1..(k + 1) : p \in 1..k \/ p = k + 1
  OBVIOUS
<1>4. \A p \in 1..(k + 1) : L[p] \in 1..L[k + 1]
  <2> SUFFICES ASSUME NEW p \in 1..(k + 1) PROVE L[p] \in 1..L[k + 1]
    OBVIOUS
  <2>1. CASE p \in 1..k
    <3>1. L[p] \in 1..Len(m)
      BY <1>2, <2>1
    <3> QED
      BY <3>1, <1>1, <1>2
  <2>2. CASE p = k + 1
    <3>1. Len(x) \in 1..Len(x)
      BY <1>1
    <3> QED
      BY <1>2, <2>2, <3>1
  <2> QED
    BY <1>3, <2>1, <2>2
<1>5. \A p, q \in 1..(k + 1) : p < q => L[p] < L[q]
  <2> SUFFICES ASSUME NEW p \in 1..(k + 1), NEW q \in 1..(k + 1), p < q PROVE L[p] < L[q]
    OBVIOUS
  <2>1. p \in 1..k
    OBVIOUS
  <2>2. CASE q \in 1..k
    BY <1>2, <2>1, <2>2
  <2>3. CASE q = k + 1
    <3>1. L[p] \in 1..Len(m)
      BY <1>2, <2>1
    <3>2. L[p] < Len(x)
      BY <3>1, <1>1
    <3> QED
      BY <3>2, <1>2, <2>3
  <2> QED
    BY <1>3, <2>2, <2>3
<1>6. \A j \in 1..L[k + 1] : (\E p \in 1..(k + 1) : j = L[p]) \/ x[j][1] \in Heads
  <2> SUFFICES ASSUME NEW j \in 1..L[k + 1]
               PROVE  (\E p \in 1..(k + 1) : j = L[p]) \/ x[j][1] \in Heads
    OBVIOUS
  <2>1. j \in 1..Len(x) /\ k + 1 \in 1..(k + 1) /\ \A p \in 1..k : p \in 1..(k + 1)
    BY <1>2
  <2>2. CASE j = Len(x)
    BY <2>1, <2>2, <1>2
  <2>3. CASE j # Len(x) /\ j > Len(m)
    BY <2>1, <2>3, <1>1
  <2>4. CASE j <= Len(m)
    <3>1. j \in 1..Len(m)
      BY <2>1, <2>4, <1>1
    <3>2. (\E p \in 1..k : j = L[p]) \/ m[j][1] \in Heads
      BY <3>1, <1>2
    <3> QED
      BY <3>1, <3>2, <2>1, <1>1
  <2>5. j \in Nat /\ Len(m) \in Nat /\ Len(x) \in Nat
    BY <2>1, <1>1
  <2>6. j <= Len(m) \/ j > Len(m)
    BY <2>5
  <2> QED
    BY <2>2, <2>3, <2>4, <2>6
<1>7. \A p \in 1..(k + 1) : ValueAt(x[L[p]], types, p)
  <2> SUFFICES ASSUME NEW p \in 1..(k + 1) PROVE ValueAt(x[L[p]], types, p)
    OBVIOUS
  <2>1. CASE p \in 1..k
    <3>1. L[p] \in 1..Len(m) /\ ValueAt(m[L[p]], types, p)
      BY <1>2, <2>1
    <3>2. x[L[p]] = m[L[p]]
      BY <3>1, <1>1
    <3> QED
      BY <3>1, <3>2
  <2>2. CASE p = k + 1
    <3>1. x[L[p]] = v
      BY <1>1, <1>2, <2>2
    <3> QED
      BY <3>1, <2>2
  <2> QED
    BY <1>3, <2>1, <2>2
<1>8. LaidTo(x, L, types, k + 1)
  BY <1>2, <1>4, <1>5, <1>6, <1>7 DEF LaidTo
<1> QED
  BY <1>8 DEF x

\* The descriptors that a signature means are laid out as its types are.
LEMMA MeaningLaid ==
  ASSUME NEW entry, WellFormed(entry), Encoded(entry)
  PROVE  /\ Len(Meaning(entry)) \in Nat
         /\ \E L : Laid(Meaning(entry), L, entry.result \o entry.arguments)
<1> DEFINE types == entry.result \o entry.arguments
           n == Len(types)
           V == MeaningParts(entry)
<1>1. IsSignature(types) /\ n \in Nat /\ Len(entry.result) \in 1..5
  BY SignatureIs, ZenonT(60) DEF WellFormedIs
<1>2. \A q \in 1..n : types[q] \notin NotEncoded
  BY DEF Encoded
<1>3. PICK mean : Means(mean, entry) /\ Meaning(entry) = mean[n]
  BY <1>1, MeaningExists
<1>4. /\ mean \in [0..n -> Seq(V)]
      /\ mean[0] = IF Len(entry.result) = 1 THEN <<>> ELSE <<<<"Struct", Len(entry.result)>>>>
      /\ \A p \in 1..n : mean[p] = mean[p - 1] \o TypeMeaning(types, p)
  BY <1>3 DEF Means
<1> DEFINE L == [p \in 0..n |-> Len(mean[p])]
<1>5. ASSUME NEW p \in 1..n PROVE TypeMeaning(types, p) \in Seq(V) /\ OneValue(types, p)
  <2> DEFINE ts == types
  <2>1. IsSignature(ts) /\ ts = entry.result \o entry.arguments
        /\ p \in 1..Len(ts) /\ \A q \in 1..Len(ts) : ts[q] \notin NotEncoded
    BY <1>1, <1>2
  <2> HIDE DEF ts, V
  <2>2. TypeMeaning(ts, p) \in Seq(V)
    BY <2>1, MeaningsIn DEF V
  <2>3. OneValue(ts, p)
    BY <2>1, TypeMeaningShape
  <2> QED
    BY <2>2, <2>3 DEF ts
<1> HIDE DEF types, V, n
<1>6. \A k \in 0..n : mean[k] \in Seq(V) /\ L[k] = Len(mean[k]) /\ L[k] \in Nat
  <2> SUFFICES ASSUME NEW k \in 0..n
               PROVE  mean[k] \in Seq(V) /\ L[k] = Len(mean[k]) /\ L[k] \in Nat
    OBVIOUS
  <2>1. mean[k] \in Seq(V)
    BY <1>4
  <2> QED
    BY <2>1
<1>7. L \in [0..n -> Nat]
  BY <1>6
<1> HIDE DEF L
<1> DEFINE Claim(k) == LaidTo(mean[k], L, types, k)
           P == {k \in Nat : Claim(k)}
<1>8. Claim(0)
  <2>1. Len(mean[0]) = L[0] /\ L[0] \in Nat
    BY <1>1, <1>6
  <2>2. \A j \in 1..L[0] : mean[0][j][1] \in Heads
    <3>1. CASE Len(entry.result) = 1
      <4>1. L[0] = 0
        BY <3>1, <2>1, <1>4
      <4> QED
        BY <4>1
    <3>2. CASE Len(entry.result) # 1
      <4> DEFINE struct == <<"Struct", Len(entry.result)>>
      <4>1. mean[0] = <<struct>> /\ struct[1] = "Struct"
        BY <3>2, <1>4
      <4> HIDE DEF struct
      <4>2. Len(<<struct>>) = 1 /\ <<struct>>[1] = struct
        OBVIOUS
      <4>3. L[0] = 1 /\ mean[0][1] = struct
        BY <4>1, <4>2, <2>1
      <4>4. \A j \in 1..1 : j = 1
        OBVIOUS
      <4> QED
        BY <4>1, <4>3, <4>4 DEF Heads
    <3> QED
      BY <3>1, <3>2
  <2>3. \A p \in 1..0 : FALSE
    OBVIOUS
  <2> QED
    BY <2>1, <2>2, <2>3 DEF LaidTo
<1>9. ASSUME NEW k, k \in Nat, k + 1 <= n, Claim(k) PROVE Claim(k + 1)
  <2> DEFINE p == k + 1
             t == TypeMeaning(types, p)
  <2>1. p \in 1..n /\ p - 1 = k /\ k \in 0..n /\ p \in 0..n
    BY <1>1, <1>9, StepNumbers
  <2> HIDE DEF p
  <2>2. mean[p] = mean[k] \o t /\ mean[k] \in Seq(V) /\ L[p] = Len(mean[p])
    BY <2>1, <1>4, <1>6
  <2>3. t \in Seq(V) /\ OneValue(types, p)
    BY <2>1, <1>5
  <2>4. PICK v : /\ v[1] \notin {"Struct", "Vector", "Pointer"}
                 /\ \/ t = <<v>>
                    \/ \E h : h[1] \in {"Vector", "Pointer"} /\ t = <<h, v>>
                 /\ IF IsAny(types[p]) \/ types[p] \in DOMAIN MatchTypes
                      THEN v[1] = "Overloaded" /\ v[2] = AnysBefore(types, AnyOf(types, p))
                      ELSE v[1] # "Overloaded"
    BY <2>3 DEF OneValue
  <2>5. ValueAt(v, types, p)
    BY <2>4 DEF ValueAt, Heads
  <2>6. t = <<v>> \/ \E h : h[1] \in Heads /\ t = <<h, v>>
    BY <2>4 DEF Heads
  <2> DEFINE m == mean[k]
  <2>7. m \in Seq(V) /\ L[k + 1] = Len(m \o t) /\ LaidTo(m, L, types, k) /\ ValueAt(v, types, k + 1)
    BY <2>2, <2>5, <1>9 DEF p
  <2> HIDE DEF m, t
  <2>8. LaidTo(m \o t, L, types, k + 1)
    BY <2>3, <2>6, <2>7, <1>9, LaidStep
  <2> QED
    BY <2>2, <2>8 DEF m, p
<1>10. n \in P
  <2> HIDE DEF Claim
  <2>1. 0 \in P
    BY <1>8
  <2>2. ASSUME NEW k, k \in Nat, k + 1 <= n, k \in P PROVE k + 1 \in P
    <3>1. Claim(k)
      BY <2>2
    <3>2. Claim(k + 1)
      BY <1>9, <2>2, <3>1
    <3>3. k + 1 \in Nat
      BY <2>2
    <3> QED
      BY <3>2, <3>3
  <2> HIDE DEF P
  <2> QED
    BY <1>1, <2>1, <2>2, UpToInduction
<1>11. LaidTo(mean[n], L, types, n)
  <2>1. Claim(n)
    <3> HIDE DEF Claim
    <3> QED
      BY <1>10
  <2> QED
    BY <2>1
<1>12. Laid(mean[n], L, types)
  BY <1>7, <1>11 DEF Laid, LaidTo, ValueAt, n
<1>13. Len(mean[n]) \in Nat
  BY <1>1, <1>6
<1> QED
  BY <1>3, <1>12, <1>13 DEF types

\* The places among the descriptors d where an overloaded type is introduced, and
\* the number of values before a place.
Fresh(d) == {p \in 1..Len(d) : IntroducesOverload(d, p)}
ValuesBefore(d, p) == Cardinality({q \in ValuePlaces(d) : q < p})

\* OverloadTablesAgree for one intrinsic, of what the tables say of it.
Tell(d, results, overloaded, ret, args) ==
  /\ overloaded <=> Fresh(d) # {}
  /\ ret <=> \E p \in Fresh(d) : ValuesBefore(d, p) < results
  /\ \A p \in ValuePlaces(d) :
       ValuesBefore(d, p) >= results =>
         (ValuesBefore(d, p) - results \in args <=> p \in Fresh(d))
  /\ \A p \in Fresh(d) : d[p][2] = Cardinality({q \in Fresh(d) : q < p})

\* The types of a signature are those of its results, then those of its arguments.
LEMMA TypesOfEntry ==
  ASSUME NEW entry, WellFormed(entry)
  PROVE  LET types == entry.result \o entry.arguments
             results == Len(entry.result)
             args == Len(entry.arguments)
         IN  /\ results \in Nat /\ args \in Nat /\ Len(types) = results + args
             /\ \A p \in 1..results : types[p] = entry.result[p]
             /\ \A p \in 1..args : types[results + p] = entry.arguments[p]
<1> DEFINE result == entry.result
           arguments == entry.arguments
<1>1. result \in Seq(TypeNames) /\ arguments \in Seq(TypeNames)
  BY DEF WellFormed
<1> HIDE DEF result, arguments
<1>2. /\ Len(result) \in Nat /\ Len(arguments) \in Nat
      /\ Len(result \o arguments) = Len(result) + Len(arguments)
      /\ \A k \in 1..Len(result) + Len(arguments) :
           (result \o arguments)[k] = IF k <= Len(result) THEN result[k]
                                                        ELSE arguments[k - Len(result)]
  BY <1>1, ConcatProperties
<1>3. \A p \in 1..Len(result) : (result \o arguments)[p] = result[p]
  BY <1>2
<1>4. ASSUME NEW p \in 1..Len(arguments)
      PROVE  (result \o arguments)[Len(result) + p] = arguments[p]
  <2>1. /\ Len(result) + p \in 1..Len(result) + Len(arguments)
        /\ ~(Len(result) + p <= Len(result)) /\ Len(result) + p - Len(result) = p
    BY <1>2
  <2> QED
    BY <1>2, <2>1
<1> QED
  BY <1>2, <1>3, <1>4 DEF result, arguments

\* The overload tables say what the layout of the values says.
LEMMA TablesTell ==
  ASSUME NEW entry, WellFormed(entry), NEW d, NEW L, Len(d) \in Nat,
         Laid(d, L, entry.result \o entry.arguments)
  PROVE  Tell(d, Len(entry.result), HasAny(entry), OverloadableRet(entry), argNums(entry))
<1> DEFINE types == entry.result \o entry.arguments
           n == Len(types)
           results == Len(entry.result)
           args == Len(entry.arguments)
<1>1. IsSignature(types) /\ n \in Nat
  BY SignatureIs, ZenonT(60) DEF WellFormedIs
<1>2. /\ results \in Nat /\ args \in Nat /\ n = results + args
      /\ \A p \in 1..results : types[p] = entry.result[p]
      /\ \A p \in 1..args : types[results + p] = entry.arguments[p]
  BY TypesOfEntry
<1>3. Laid(d, L, types)
  OBVIOUS
<1> HIDE DEF types
<1>4. /\ ValuePlaces(d) = {L[p] : p \in 1..n}
      /\ Fresh(d) = {L[p] : p \in {q \in 1..n : IsAny(types[q])}}
  BY <1>1, <1>3, PlacesOfValues DEF Fresh
<1>5. ASSUME NEW p \in 1..n
      PROVE  /\ ValuesBefore(d, L[p]) = p - 1
             /\ Cardinality({q \in Fresh(d) : q < L[p]}) = AnysBefore(types, p)
  BY <1>1, <1>3, PlacesBefore, ZenonT(60) DEF ValuesBefore, Fresh
<1>6. /\ \A p, q \in 1..n : L[p] = L[q] => p = q
      /\ \A p \in 1..n : IsAny(types[p]) => d[L[p]][2] = AnysBefore(types, p)
  <2>1. /\ \A p \in 1..n : L[p] \in 1..Len(d)
        /\ \A p, q \in 1..n : p < q => L[p] < L[q]
        /\ \A p \in 1..n :
             /\ d[L[p]][1] = "Overloaded" <=> IsAny(types[p]) \/ types[p] \in DOMAIN MatchTypes
             /\ d[L[p]][1] = "Overloaded" => d[L[p]][2] = AnysBefore(types, AnyOf(types, p))
    BY <1>3 DEF Laid
  <2> HIDE DEF n
  <2>2. ASSUME NEW p \in 1..n, NEW q \in 1..n, L[p] = L[q], p # q PROVE FALSE
    <3>1. p < q \/ q < p
      BY <2>2
    <3>2. L[p] \in Nat /\ L[q] \in Nat
      BY <2>1
    <3> QED
      BY <2>1, <2>2, <3>1, <3>2
  <2>3. ASSUME NEW p \in 1..n, IsAny(types[p]) PROVE AnyOf(types, p) = p
    BY <2>3, NamesOfTypes DEF AnyOf, IsAny
  <2> QED
    BY <2>1, <2>2, <2>3
<1>7. ASSUME NEW p \in 1..n PROVE L[p] \in Fresh(d) <=> IsAny(types[p])
  BY <1>4, <1>6
<1> HIDE DEF n, results, args
<1>8. OverloadableRet(entry) <=> \E p \in 1..n : p <= results /\ IsAny(types[p])
  <2>1. \A p \in 1..results : p \in 1..n /\ p <= results
    BY <1>2
  <2>2. \A p \in 1..n : p <= results => p \in 1..results
    BY <1>2
  <2>3. OverloadableRet(entry) <=> \E p \in 1..results : IsAny(entry.result[p])
    BY DEF OverloadableRet, results
  <2> QED
    BY <2>1, <2>2, <2>3, <1>2
<1>9. HasAny(entry) <=> \E p \in 1..n : IsAny(types[p])
  <2>1. /\ \A p \in 1..results : p \in 1..n
        /\ \A p \in 1..args : results + p \in 1..n
        /\ \A p \in 1..n : p \in 1..results \/ (p - results \in 1..args /\ results + (p - results) = p)
    BY <1>2
  <2>2. HasAny(entry) <=> \/ \E p \in 1..results : IsAny(entry.result[p])
                          \/ \E p \in 1..args : IsAny(entry.arguments[p])
    BY DEF HasAny, results, args
  <2>3. ASSUME NEW p \in 1..n, IsAny(types[p]) PROVE HasAny(entry)
    <3>1. CASE p \in 1..results
      BY <2>2, <2>3, <3>1, <1>2
    <3>2. CASE p - results \in 1..args /\ results + (p - results) = p
      <4> DEFINE z == p - results
      <4>1. z \in 1..args /\ types[results + z] = types[p]
        BY <3>2
      <4> HIDE DEF z
      <4>2. IsAny(entry.arguments[z])
        BY <4>1, <2>3, <1>2
      <4> QED
        BY <2>2, <4>1, <4>2
    <3> QED
      BY <2>1, <3>1, <3>2
  <2>4. ASSUME HasAny(entry) PROVE \E p \in 1..n : IsAny(types[p])
    <3>1. CASE \E p \in 1..results : IsAny(entry.result[p])
      BY <3>1, <2>1, <1>2
    <3>2. CASE \E p \in 1..args : IsAny(entry.arguments[p])
      BY <3>2, <2>1, <1>2
    <3> QED
      BY <2>2, <2>4, <3>1, <3>2
  <2> QED
    BY <2>3, <2>4
<1>10. ASSUME NEW p \in 1..n, p - 1 >= results
       PROVE  p - 1 - results \in argNums(entry) <=> IsAny(types[p])
  <2> DEFINE z == p - 1 - results
  <2>1. z \in 0..(args - 1) /\ z + 1 \in 1..args /\ results + (z + 1) = p
    BY <1>2, <1>10
  <2> HIDE DEF z
  <2>2. types[p] = entry.arguments[z + 1]
    BY <2>1, <1>2
  <2>3. z \in argNums(entry) <=> IsAny(entry.arguments[z + 1])
    BY <2>1 DEF argNums, args
  <2> QED
    BY <2>2, <2>3 DEF z
<1>11. HasAny(entry) <=> Fresh(d) # {}
  BY <1>4, <1>9
<1>12. OverloadableRet(entry) <=> \E p \in Fresh(d) : ValuesBefore(d, p) < results
  <2>1. \A p \in 1..n : p - 1 < results <=> p <= results
    BY <1>1, <1>2
  <2>2. ASSUME NEW p \in 1..n, p <= results, IsAny(types[p])
        PROVE  \E q \in Fresh(d) : ValuesBefore(d, q) < results
    <3>1. L[p] \in Fresh(d) /\ ValuesBefore(d, L[p]) < results
      BY <2>1, <2>2, <1>5, <1>7
    <3> QED
      BY <3>1
  <2>3. ASSUME NEW q \in Fresh(d), ValuesBefore(d, q) < results
        PROVE  \E p \in 1..n : p <= results /\ IsAny(types[p])
    <3>1. PICK p \in 1..n : q = L[p] /\ IsAny(types[p])
      BY <1>4
    <3> QED
      BY <2>1, <2>3, <3>1, <1>5
  <2> QED
    BY <1>8, <2>2, <2>3
<1>13. ASSUME NEW q \in ValuePlaces(d), ValuesBefore(d, q) >= results
       PROVE  ValuesBefore(d, q) - results \in argNums(entry) <=> q \in Fresh(d)
  <2>1. PICK p \in 1..n : q = L[p]
    BY <1>4
  <2>2. ValuesBefore(d, q) = p - 1
    BY <1>5, <2>1
  <2> QED
    BY <1>7, <1>10, <1>13, <2>1, <2>2
<1>14. ASSUME NEW q \in Fresh(d) PROVE d[q][2] = Cardinality({j \in Fresh(d) : j < q})
  <2>1. PICK p \in 1..n : q = L[p] /\ IsAny(types[p])
    BY <1>4
  <2> QED
    BY <1>5, <1>6, <2>1
<1> QED
  BY <1>11, <1>12, <1>13, <1>14 DEF Tell, results

-----------------------------------------------------------------------------
(***************************************************************************)
(* The strengthening: the tables are sequences of what they are made from, *)
(* the type strings are those of the table once they are there, and the    *)
(* attributes are numbered for the intrinsics that have been passed.       *)
(***************************************************************************)
Codes == Seq(0..255)
Words == {Inline(codes) : codes \in Codes} \cup {LongWord(offset) : offset \in Nat}
Lists == {Intrinsics[n].attributes : n \in Ids}

StringsSet == phase = "TypeTable" \/ TypesDone

TableTypes ==
  /\ IIT_Table \in Seq(Words)
  /\ IIT_Long \in Codes
  /\ ~StringsSet => IIT_Table = <<>>
  /\ StringsSet => IIT_Basic = [n \in Ids |-> Signature(Intrinsics[n], llvm_version_major)]
  /\ \A n \in 1..Len(IIT_Table) : ~FitsWord(IIT_Basic[n]) => IIT_Table[n].low \in Nat

AttributeTypes ==
  /\ IntrinsicsToAttributesMap \in Seq(Nat)
  /\ attribute_Array \in Seq(Lists)
  /\ Len(IntrinsicsToAttributesMap) =
       IF phase = "AttributeTable" THEN i
       ELSE IF TypesDone THEN Len(Intrinsics) ELSE 0

IInv == TypeOK /\ TableTypes /\ AttributeTypes /\ EntriesIntact /\ AttributesOwn

-----------------------------------------------------------------------------
(* Lemmas about the steps that add to a table.                             *)

\* The codes of an intrinsic are bytes.
LEMMA CodesOf ==
  ASSUME TypeOK, TableTypes, StringsSet, NEW n \in Ids
  PROVE  IIT_Basic[n] \in Codes /\ Len(IIT_Basic[n]) \in Nat
<1>1. IIT_Basic[n] = Signature(Intrinsics[n], llvm_version_major)
  BY DEF TableTypes
<1>2. IIT_Basic[n] \in Codes
  <2>1. WellFormed(Intrinsics[n]) /\ llvm_version_major \in Nat
    BY TablesAssumption DEF TypeOK, Ids
  <2>2. QED
    BY <1>1, <2>1, SignatureCodes DEF Codes
<1>3. QED
  BY <1>2, LenProperties DEF Codes

LEMMA InitIInv == Init => IInv
<1> SUFFICES ASSUME Init PROVE IInv
  OBVIOUS
<1> USE DEF Init
<1>1. Len(Intrinsics) \in Nat
  BY TablesAssumption
<1>2. TypeOK
  BY <1>1 DEF TypeOK, Phases, TypesDone
<1>3. TableTypes
  BY DEF TableTypes, Codes, StringsSet, TypesDone
<1>4. AttributeTypes
  BY DEF AttributeTypes, TypesDone
<1>5. EntriesIntact /\ AttributesOwn
  BY DEF EntriesIntact, AttributesOwn
<1>6. QED
  BY <1>2, <1>3, <1>4, <1>5 DEF IInv

\* The long table after a step of the second loop: what was there stays, the codes
\* follow and a zero ends them.
LEMMA LongTableGrows ==
  ASSUME NEW long \in Codes, NEW codes \in Codes
  PROVE  LET longer == long \o codes \o <<0>>
         IN  /\ longer \in Codes
             /\ Len(longer) = Len(long) + Len(codes) + 1
             /\ \A k \in 1..Len(long) : longer[k] = long[k]
             /\ \A k \in 1..Len(codes) : longer[Len(long) + k] = codes[k]
             /\ longer[Len(long) + Len(codes) + 1] = 0
<1> USE DEF Codes
<1>1. <<0>> \in Seq(0..255) /\ Len(<<0>>) = 1 /\ <<0>>[1] = 0
  OBVIOUS
<1>2. Len(long) \in Nat /\ Len(codes) \in Nat
  BY LenProperties
<1> DEFINE both == long \o codes
<1>3. /\ both \in Seq(0..255)
      /\ Len(both) = Len(long) + Len(codes)
      /\ \A k \in 1..(Len(long) + Len(codes)) :
           both[k] = IF k <= Len(long) THEN long[k] ELSE codes[k - Len(long)]
  BY ConcatProperties
<1> HIDE DEF both
<1> DEFINE longer == both \o <<0>>
<1>4. /\ longer \in Seq(0..255)
      /\ Len(longer) = Len(both) + 1
      /\ \A k \in 1..(Len(both) + 1) :
           longer[k] = IF k <= Len(both) THEN both[k] ELSE <<0>>[k - Len(both)]
  BY <1>1, <1>3, ConcatProperties
<1> HIDE DEF longer
<1>5. \A k \in 1..Len(long) : longer[k] = long[k]
  BY <1>2, <1>3, <1>4
<1>6. \A k \in 1..Len(codes) : longer[Len(long) + k] = codes[k]
  BY <1>2, <1>3, <1>4
<1>7. longer[Len(long) + Len(codes) + 1] = 0
  BY <1>1, <1>2, <1>3, <1>4, SMTT(30)
<1>8. QED
  BY <1>3, <1>4, <1>5, <1>6, <1>7 DEF longer, both

-----------------------------------------------------------------------------
(* The steps, one lemma for each that touches what the invariant is about. *)

\* The words of earlier intrinsics stay good when the long table grows, whether
\* by an entry or by the last byte: each ends before what is added.
LEMMA EarlierEntries ==
  ASSUME IInv, NEW longer \in Codes,
         Len(longer) >= Len(IIT_Long),
         \A k \in 1..Len(IIT_Long) : longer[k] = IIT_Long[k],
         NEW n \in 1..Len(IIT_Table), ~FitsWord(IIT_Basic[n])
  PROVE  LET codes == IIT_Basic[n]
             word  == IIT_Table[n]
         IN  /\ word.sign
             /\ word.low + Len(codes) < Len(longer)
             /\ \A k \in 1..Len(codes) : longer[word.low + k] = codes[k]
             /\ longer[word.low + Len(codes) + 1] = 0
<1> DEFINE codes == IIT_Basic[n]
           word  == IIT_Table[n]
<1>1. StringsSet /\ n \in Ids
  BY LenProperties DEF IInv, TableTypes, TypeOK, StringsSet, TypesDone, Ids
<1>2. Len(codes) \in Nat
  BY <1>1, CodesOf DEF IInv
<1>3. word.low \in Nat
  BY DEF IInv, TableTypes
<1>4. /\ word.sign
      /\ word.low + Len(codes) < Len(IIT_Long)
      /\ \A k \in 1..Len(codes) : IIT_Long[word.low + k] = codes[k]
      /\ IIT_Long[word.low + Len(codes) + 1] = 0
  BY DEF IInv, EntriesIntact
<1>5. Len(IIT_Long) \in Nat /\ Len(longer) \in Nat
  BY LenProperties DEF IInv, TableTypes, Codes
<1> HIDE DEF codes, word
<1>6. \A k \in 1..Len(codes) : word.low + k \in 1..Len(IIT_Long)
  BY <1>2, <1>3, <1>4, <1>5, SMTT(30)
<1>7. word.low + Len(codes) + 1 \in 1..Len(IIT_Long)
  BY <1>2, <1>3, <1>4, <1>5
<1>8. \A k \in 1..Len(codes) : longer[word.low + k] = codes[k]
  BY <1>4, <1>6
<1>9. longer[word.low + Len(codes) + 1] = 0
  BY <1>4, <1>7
<1>10. word.low + Len(codes) < Len(longer)
  BY <1>2, <1>3, <1>4, <1>5
<1>11. QED
  BY <1>4, <1>8, <1>9, <1>10 DEF codes, word

LEMMA PackEntryKeeps == IInv /\ PackEntry => TypeOK' /\ TableTypes' /\ EntriesIntact'
<1> SUFFICES ASSUME IInv, PackEntry PROVE TypeOK' /\ TableTypes' /\ EntriesIntact'
  OBVIOUS
<1> DEFINE codes == IIT_Basic[i + 1]
           n == i + 1
           longer == IIT_Long \o codes \o <<0>>
<1>1. /\ phase = "TypeTable" /\ StringsSet /\ StringsSet' /\ ~TypesDone /\ ~TypesDone'
      /\ UNCHANGED <<Intrinsics, llvm_version_major, IIT_Basic, phase>>
      /\ i' = n /\ Len(Intrinsics) \in Nat /\ i \in Nat /\ n \in Ids /\ Ids' = Ids
  BY TablesAssumption DEF PackEntry, Given, tables, IInv, TypeOK, StringsSet, TypesDone, Ids
<1>2. codes \in Codes /\ Len(codes) \in Nat
  BY <1>1, CodesOf DEF IInv
<1>3. /\ IIT_Table \in Seq(Words) /\ Len(IIT_Table) = i
      /\ IIT_Long \in Codes /\ Len(IIT_Long) = pos_counter /\ pos_counter \in Nat
  BY <1>1 DEF IInv, TypeOK, TableTypes
<1>4. \E word \in Words :
        /\ IIT_Table' = Append(IIT_Table, word)
        /\ \/ /\ FitsWord(codes) /\ word = Inline(codes)
              /\ UNCHANGED <<IIT_Long, pos_counter>>
           \/ /\ ~FitsWord(codes) /\ word = LongWord(pos_counter)
              /\ IIT_Long' = longer
              /\ pos_counter' = pos_counter + Len(codes) + 1
  <2>1. Inline(codes) \in Words /\ LongWord(pos_counter) \in Words
    BY <1>2, <1>3 DEF Words
  <2>2. CASE FitsWord(codes)
    <3>1. IIT_Table' = Append(IIT_Table, Inline(codes)) /\ UNCHANGED <<IIT_Long, pos_counter>>
      BY <2>2 DEF PackEntry
    <3>2. QED
      BY <2>1, <2>2, <3>1
  <2>3. CASE ~FitsWord(codes)
    <3>1. /\ IIT_Table' = Append(IIT_Table, LongWord(pos_counter))
          /\ IIT_Long' = longer
          /\ pos_counter' = pos_counter + (Len(codes) + 1)
      BY <2>3 DEF PackEntry, BytesOf
    <3>2. pos_counter' = pos_counter + Len(codes) + 1
      BY <1>2, <1>3, <3>1
    <3> HIDE DEF codes, longer
    <3>3. QED
      BY <2>1, <2>3, <3>1, <3>2
  <2>4. QED
    BY <2>2, <2>3
<1>5. PICK word \in Words :
        /\ IIT_Table' = Append(IIT_Table, word)
        /\ \/ /\ FitsWord(codes) /\ word = Inline(codes)
              /\ UNCHANGED <<IIT_Long, pos_counter>>
           \/ /\ ~FitsWord(codes) /\ word = LongWord(pos_counter)
              /\ IIT_Long' = longer
              /\ pos_counter' = pos_counter + Len(codes) + 1
  BY <1>4
<1>6. /\ longer \in Codes
      /\ Len(longer) = Len(IIT_Long) + Len(codes) + 1
      /\ \A k \in 1..Len(IIT_Long) : longer[k] = IIT_Long[k]
      /\ \A k \in 1..Len(codes) : longer[Len(IIT_Long) + k] = codes[k]
      /\ longer[Len(IIT_Long) + Len(codes) + 1] = 0
  BY <1>2, <1>3, LongTableGrows, ZenonT(60)
<1> HIDE DEF codes, longer
<1>7. /\ IIT_Table' \in Seq(Words) /\ Len(IIT_Table') = n
      /\ \A k \in 1..i : IIT_Table'[k] = IIT_Table[k]
      /\ IIT_Table'[n] = word
  BY <1>1, <1>3, <1>5
<1>8. /\ IIT_Long' \in Codes
      /\ Len(IIT_Long') >= Len(IIT_Long) /\ Len(IIT_Long) \in Nat
      /\ \A k \in 1..Len(IIT_Long) : IIT_Long'[k] = IIT_Long[k]
      /\ Len(IIT_Long') = pos_counter' /\ pos_counter' \in Nat
  BY <1>2, <1>3, <1>5, <1>6
<1>9. TypeOK'
  <2>1. i' \in 0..Len(Intrinsics')
    BY <1>1 DEF Ids
  <2>2. Len(IIT_Table') = i' /\ phase' = "TypeTable"
    BY <1>1, <1>7
  <2>3. Intrinsics' \in Tables /\ llvm_version_major' \in LLVMVersions /\ phase' \in Phases
    BY <1>1 DEF IInv, TypeOK
  <2>4. pos_counter' \in Nat /\ pos_counter' = Len(IIT_Long')
    BY <1>8
  <2>5. QED
    BY <1>1, <2>1, <2>2, <2>3, <2>4 DEF TypeOK
<1>10. ASSUME NEW k \in 1..Len(IIT_Table')
       PROVE  \/ k \in 1..Len(IIT_Table) /\ IIT_Table'[k] = IIT_Table[k]
              \/ k = n
  BY <1>1, <1>3, <1>7
<1>11. ~FitsWord(codes) => word.sign /\ word.low = pos_counter
  BY <1>5 DEF LongWord, Word
<1>12. TableTypes'
  <2>1. \A k \in 1..Len(IIT_Table') : ~FitsWord(IIT_Basic'[k]) => IIT_Table'[k].low \in Nat
    BY <1>1, <1>3, <1>7, <1>10, <1>11 DEF codes, IInv, TableTypes
  <2>2. IIT_Basic' = [k \in Ids' |-> Signature(Intrinsics'[k], llvm_version_major')]
    BY <1>1 DEF IInv, TableTypes
  <2>3. QED
    BY <1>1, <1>7, <1>8, <2>1, <2>2 DEF TableTypes
<1>13. ASSUME NEW k \in 1..Len(IIT_Table')
       PROVE  IF FitsWord(IIT_Basic[k]) THEN IIT_Table'[k] = Inline(IIT_Basic[k])
              ELSE /\ IIT_Table'[k].sign
                   /\ IIT_Table'[k].low + Len(IIT_Basic[k]) < Len(IIT_Long')
                   /\ \A j \in 1..Len(IIT_Basic[k]) :
                        IIT_Long'[IIT_Table'[k].low + j] = IIT_Basic[k][j]
                   /\ IIT_Long'[IIT_Table'[k].low + Len(IIT_Basic[k]) + 1] = 0
  <2>1. CASE k \in 1..Len(IIT_Table) /\ IIT_Table'[k] = IIT_Table[k]
    <3>1. CASE FitsWord(IIT_Basic[k])
      BY <2>1, <3>1 DEF IInv, EntriesIntact
    <3>2. CASE ~FitsWord(IIT_Basic[k])
      BY <2>1, <3>2, <1>8, EarlierEntries, SMTT(30)
    <3>3. QED
      BY <3>1, <3>2
  <2>2. CASE k = n
    BY <2>2, <1>2, <1>3, <1>5, <1>6, <1>7, <1>11, SMTT(30) DEF codes
  <2>3. QED
    BY <1>10, <2>1, <2>2
<1>14. EntriesIntact'
  BY <1>1, <1>13 DEF EntriesIntact
<1>15. QED
  BY <1>9, <1>12, <1>14

LEMMA WriteTypeTableKeeps ==
  IInv /\ WriteTypeTable => TypeOK' /\ TableTypes' /\ EntriesIntact'
<1> SUFFICES ASSUME IInv, WriteTypeTable PROVE TypeOK' /\ TableTypes' /\ EntriesIntact'
  OBVIOUS
<1>1. /\ phase = "TypeTable" /\ phase' = "AttributeTable" /\ i' = 0 /\ i = Len(Intrinsics)
      /\ StringsSet /\ StringsSet' /\ ~TypesDone /\ TypesDone'
      /\ UNCHANGED <<Intrinsics, llvm_version_major, IIT_Basic, IIT_Table, pos_counter>>
      /\ Len(Intrinsics) \in Nat /\ Ids' = Ids
  BY TablesAssumption DEF WriteTypeTable, Given, Call, IInv, TypeOK, StringsSet, TypesDone, Ids
<1>2. /\ IIT_Table \in Seq(Words) /\ Len(IIT_Table) = Len(Intrinsics)
      /\ IIT_Long \in Codes /\ Len(IIT_Long) = pos_counter /\ pos_counter \in Nat
      /\ IIT_Long' = Append(IIT_Long, 255)
  BY <1>1 DEF IInv, TypeOK, TableTypes, WriteTypeTable
<1>3. /\ IIT_Long' \in Codes
      /\ Len(IIT_Long') = pos_counter + 1
      /\ \A k \in 1..Len(IIT_Long) : IIT_Long'[k] = IIT_Long[k]
  BY <1>2 DEF Codes
<1>4. TypeOK'
  <2>1. pos_counter' = Len(IIT_Long') - 1 /\ i' \in 0..Len(Intrinsics')
    BY <1>1, <1>2, <1>3
  <2>2. phase' \in Phases
    BY <1>1 DEF Phases
  <2>3. QED
    BY <1>1, <1>2, <2>1, <2>2 DEF IInv, TypeOK
<1>5. TableTypes'
  BY <1>1, <1>3 DEF IInv, TableTypes
<1>6. Len(IIT_Long') >= Len(IIT_Long)
  BY <1>2, <1>3
<1>7. EntriesIntact'
  BY <1>1, <1>3, <1>6, EarlierEntries, SMTT(30) DEF EntriesIntact, IInv
<1>8. QED
  BY <1>4, <1>5, <1>7

LEMMA NumberAttributesKeeps ==
  IInv /\ NumberAttributes => AttributeTypes' /\ AttributesOwn'
<1> SUFFICES ASSUME IInv, NumberAttributes PROVE AttributeTypes' /\ AttributesOwn'
  OBVIOUS
<1> DEFINE n == i + 1
           attrs == Intrinsics[n].attributes
           number == NumberOf(attrs)
           found == {j \in 1..Len(attribute_Array) : attribute_Array[j] = attrs}
<1>1. /\ phase = "AttributeTable" /\ UNCHANGED <<phase, Intrinsics>> /\ i' = n
      /\ i \in Nat /\ n \in Ids /\ Lists' = Lists /\ attrs \in Lists
      /\ IntrinsicsToAttributesMap' = Append(IntrinsicsToAttributesMap, number)
      /\ attribute_Array' = IF number > Len(attribute_Array)
                              THEN Append(attribute_Array, attrs) ELSE attribute_Array
  BY TablesAssumption, SMTT(30) DEF NumberAttributes, Given, IInv, TypeOK, Ids, Lists
<1>2. /\ IntrinsicsToAttributesMap \in Seq(Nat) /\ Len(IntrinsicsToAttributesMap) = i
      /\ attribute_Array \in Seq(Lists) /\ Len(attribute_Array) \in Nat
  BY <1>1, LenProperties DEF IInv, AttributeTypes
<1>3. \A j, k \in 1..Len(attribute_Array) : attribute_Array[j] = attribute_Array[k] => j = k
  BY DEF IInv, AttributesOwn
<1>4. IF found = {} THEN number = Len(attribute_Array) + 1 ELSE number \in found
  <2>1. CASE found = {}
    BY <2>1 DEF NumberOf
  <2>2. CASE found # {}
    <3>1. PICK j \in found : TRUE
      BY <2>2
    <3>2. \A k \in found : j <= k
      BY <1>2, <1>3, <3>1
    <3>3. number = CHOOSE h \in found : \A k \in found : h <= k
      BY <2>2 DEF NumberOf
    <3>4. QED
      BY <2>2, <3>1, <3>2, <3>3
  <2>3. QED
    BY <2>1, <2>2
<1> HIDE DEF number
<1>5. /\ attribute_Array' \in Seq(Lists) /\ Len(attribute_Array') \in Nat
      /\ Len(attribute_Array') >= Len(attribute_Array)
      /\ \A j \in 1..Len(attribute_Array) : attribute_Array'[j] = attribute_Array[j]
      /\ number \in 1..Len(attribute_Array') /\ attribute_Array'[number] = attrs
  <2>1. CASE found = {}
    <3>1. attribute_Array' = Append(attribute_Array, attrs) /\ number = Len(attribute_Array) + 1
      BY <1>1, <1>2, <1>4, <2>1
    <3> HIDE DEF attrs
    <3>2. QED
      BY <1>1, <1>2, <3>1
  <2>2. CASE found # {}
    <3>1. number \in 1..Len(attribute_Array) /\ attribute_Array[number] = attrs
      BY <1>4, <2>2
    <3>2. attribute_Array' = attribute_Array
      BY <1>1, <1>2, <3>1
    <3>3. QED
      BY <1>2, <3>1, <3>2
  <2>3. QED
    BY <2>1, <2>2
<1>6. /\ IntrinsicsToAttributesMap' \in Seq(Nat)
      /\ Len(IntrinsicsToAttributesMap') = n
      /\ \A k \in 1..i : IntrinsicsToAttributesMap'[k] = IntrinsicsToAttributesMap[k]
      /\ IntrinsicsToAttributesMap'[n] = number
  <2>1. number \in Nat
    BY <1>5
  <2>2. QED
    BY <1>1, <1>2, <2>1
<1>7. AttributeTypes'
  BY <1>1, <1>5, <1>6 DEF AttributeTypes, TypesDone
<1>8. ASSUME NEW k \in 1..Len(IntrinsicsToAttributesMap')
      PROVE  /\ IntrinsicsToAttributesMap'[k] \in 1..Len(attribute_Array')
             /\ attribute_Array'[IntrinsicsToAttributesMap'[k]] = Intrinsics'[k].attributes
  <2>1. CASE k = n
    BY <1>1, <1>5, <1>6, <2>1
  <2>2. CASE k # n
    <3>1. k \in 1..i
      BY <1>1, <1>6, <2>2
    <3>2. /\ IntrinsicsToAttributesMap[k] \in 1..Len(attribute_Array)
          /\ attribute_Array[IntrinsicsToAttributesMap[k]] = Intrinsics[k].attributes
      BY <1>2, <3>1 DEF IInv, AttributesOwn
    <3>3. IntrinsicsToAttributesMap'[k] = IntrinsicsToAttributesMap[k]
      BY <1>6, <3>1
    <3>4. QED
      BY <1>1, <1>2, <1>5, <3>2, <3>3
  <2>3. QED
    BY <2>1, <2>2
<1>9. ASSUME NEW j \in 1..Len(attribute_Array'), NEW k \in 1..Len(attribute_Array'),
             attribute_Array'[j] = attribute_Array'[k]
      PROVE  j = k
  <2>1. CASE found = {}
    <3>1. attribute_Array' = Append(attribute_Array, attrs)
      BY <1>1, <1>2, <1>4, <2>1
    <3>2. \A h \in 1..Len(attribute_Array) : attribute_Array[h] # attrs
      BY <2>1
    <3> HIDE DEF attrs, found
    <3>3. /\ Len(attribute_Array') = Len(attribute_Array) + 1
          /\ attribute_Array'[Len(attribute_Array) + 1] = attrs
      BY <1>1, <1>2, <3>1
    <3>4. QED
      BY <1>2, <1>3, <1>5, <1>9, <3>2, <3>3, SMTT(30)
  <2>2. CASE found # {}
    <3>1. attribute_Array' = attribute_Array
      BY <1>1, <1>2, <1>4, <2>2
    <3>2. QED
      BY <1>3, <1>9, <3>1
  <2>3. QED
    BY <2>1, <2>2
<1>10. AttributesOwn'
  BY <1>8, <1>9 DEF AttributesOwn
<1>11. QED
  BY <1>7, <1>10

\* The steps that write neither types nor attributes.
LEMMA OthersKeep ==
  ASSUME IInv,
         \/ createOverloadTable \/ createOverloadArgsTable \/ createOverloadRetTable
         \/ EncodeTypes \/ WriteAttributeTable \/ FillSupport \/ WritePlatformTable
  PROVE  IInv'
<1>1. /\ UNCHANGED <<Intrinsics, llvm_version_major, IIT_Table, IIT_Long, pos_counter,
                     IntrinsicsToAttributesMap, attribute_Array>>
      /\ Ids' = Ids /\ Lists' = Lists /\ Len(Intrinsics) \in Nat
  BY TablesAssumption DEF createOverloadTable, createOverloadArgsTable, createOverloadRetTable,
     EncodeTypes, WriteAttributeTable, FillSupport, WritePlatformTable,
     Given, strings, attributes, IInv, TypeOK, Ids, Lists
<1>2. CASE EncodeTypes
  <2>1. /\ phase = "TypeStrings" /\ phase' = "TypeTable" /\ i' = 0
        /\ ~TypesDone /\ ~TypesDone' /\ ~StringsSet /\ StringsSet'
        /\ IIT_Basic' = [n \in Ids |-> Signature(Intrinsics[n], llvm_version_major)]
    BY <1>2 DEF EncodeTypes, Call, StringsSet, TypesDone
  <2>2. IIT_Table = <<>> /\ Len(IIT_Table) = 0
    BY <2>1 DEF IInv, TableTypes
  <2>3. TypeOK'
    BY <1>1, <2>1, <2>2 DEF IInv, TypeOK, Phases
  <2>4. TableTypes' /\ EntriesIntact'
    BY <1>1, <2>1, <2>2 DEF IInv, TableTypes, EntriesIntact
  <2>5. AttributeTypes' /\ AttributesOwn'
    BY <1>1, <2>1 DEF IInv, AttributeTypes, AttributesOwn
  <2>6. QED
    BY <2>3, <2>4, <2>5 DEF IInv
<1>3. CASE WriteAttributeTable
  <2>1. /\ phase = "AttributeTable" /\ phase' = "PlatformTable" /\ i = Len(Intrinsics)
        /\ i' = 0 /\ TypesDone /\ TypesDone' /\ StringsSet /\ StringsSet'
        /\ UNCHANGED IIT_Basic
    BY <1>3 DEF WriteAttributeTable, Call, strings, StringsSet, TypesDone
  <2>2. TypeOK'
    BY <1>1, <2>1 DEF IInv, TypeOK, Phases
  <2>3. TableTypes' /\ EntriesIntact'
    BY <1>1, <2>1 DEF IInv, TableTypes, EntriesIntact
  <2>4. AttributeTypes' /\ AttributesOwn'
    BY <1>1, <2>1 DEF IInv, AttributeTypes, AttributesOwn
  <2>5. QED
    BY <2>2, <2>3, <2>4 DEF IInv
<1>4. CASE FillSupport \/ WritePlatformTable
  <2>1. /\ phase = "PlatformTable" /\ phase' \in {"PlatformTable", "done", "NameError"}
        /\ i' \in 0..Len(Intrinsics) /\ UNCHANGED IIT_Basic
        /\ TypesDone /\ TypesDone' /\ StringsSet /\ StringsSet'
    BY <1>1, <1>4 DEF FillSupport, WritePlatformTable, Call, strings, StringsSet, TypesDone,
       IInv, TypeOK
  <2>2. TypeOK'
    BY <1>1, <2>1 DEF IInv, TypeOK, Phases
  <2>3. TableTypes' /\ EntriesIntact'
    BY <1>1, <2>1, ZenonT(60) DEF IInv, TableTypes, EntriesIntact
  <2>4. AttributeTypes' /\ AttributesOwn'
    BY <1>1, <2>1 DEF IInv, AttributeTypes, AttributesOwn
  <2>5. QED
    BY <2>2, <2>3, <2>4 DEF IInv
<1>5. CASE createOverloadTable \/ createOverloadArgsTable \/ createOverloadRetTable
  <2>1. /\ phase \in {"OverloadTable", "OverloadArgsTable", "OverloadRetTable"}
        /\ phase' \in {"OverloadArgsTable", "OverloadRetTable", "TypeStrings"}
        /\ i' = 0 /\ UNCHANGED IIT_Basic
        /\ ~TypesDone /\ ~TypesDone' /\ ~StringsSet /\ ~StringsSet'
    BY <1>5 DEF createOverloadTable, createOverloadArgsTable, createOverloadRetTable,
       Call, strings, StringsSet, TypesDone
  <2>2. TypeOK'
    BY <1>1, <2>1 DEF IInv, TypeOK, Phases
  <2>3. TableTypes' /\ EntriesIntact'
    BY <1>1, <2>1 DEF IInv, TableTypes, EntriesIntact
  <2>4. AttributeTypes' /\ AttributesOwn'
    BY <1>1, <2>1 DEF IInv, AttributeTypes, AttributesOwn
  <2>5. QED
    BY <2>2, <2>3, <2>4 DEF IInv
<1>6. QED
  BY <1>2, <1>3, <1>4, <1>5

LEMMA NextIInv == IInv /\ [Next]_vars => IInv'
<1> SUFFICES ASSUME IInv, [Next]_vars PROVE IInv'
  OBVIOUS
<1>1. CASE PackEntry
  <2>1. UNCHANGED <<phase, Intrinsics, IntrinsicsToAttributesMap, attribute_Array>>
    BY <1>1 DEF PackEntry, Given, attributes
  <2>2. phase = "TypeTable"
    BY <1>1 DEF PackEntry
  <2>3. AttributeTypes' /\ AttributesOwn'
    BY <2>1, <2>2 DEF IInv, AttributeTypes, AttributesOwn, Lists, Ids, TypesDone
  <2>4. QED
    BY <1>1, <2>3, PackEntryKeeps DEF IInv
<1>2. CASE WriteTypeTable
  <2>1. /\ phase = "TypeTable" /\ phase' = "AttributeTable" /\ i' = 0
        /\ UNCHANGED <<Intrinsics, IntrinsicsToAttributesMap, attribute_Array>>
    BY <1>2 DEF WriteTypeTable, Given, Call, attributes
  <2>2. AttributeTypes' /\ AttributesOwn'
    BY <2>1 DEF IInv, AttributeTypes, AttributesOwn, Lists, Ids, TypesDone
  <2>3. QED
    BY <1>2, <2>2, WriteTypeTableKeeps DEF IInv
<1>3. CASE NumberAttributes
  <2>1. /\ phase = "AttributeTable" /\ i < Len(Intrinsics) /\ i' = i + 1
        /\ UNCHANGED <<phase, Intrinsics, llvm_version_major,
                       IIT_Basic, IIT_Table, IIT_Long, pos_counter>>
    BY <1>3 DEF NumberAttributes, Given, strings
  <2>2. i' \in 0..Len(Intrinsics')
    BY <2>1, TablesAssumption DEF IInv, TypeOK
  <2>3. TypeOK'
    BY <2>1, <2>2 DEF IInv, TypeOK, TypesDone
  <2>4. TableTypes' /\ EntriesIntact'
    BY <2>1, ZenonT(60) DEF IInv, TableTypes, EntriesIntact, StringsSet, TypesDone, Ids
  <2>5. QED
    BY <1>3, <2>3, <2>4, NumberAttributesKeeps DEF IInv
<1>4. CASE UNCHANGED vars
  <2>1. UNCHANGED <<Intrinsics, llvm_version_major, phase, i, IIT_Basic, IIT_Table, IIT_Long,
                    pos_counter, IntrinsicsToAttributesMap, attribute_Array>>
    BY <1>4 DEF vars, strings, attributes
  <2>2. TypeOK' /\ EntriesIntact' /\ AttributesOwn'
    BY <2>1 DEF IInv, TypeOK, EntriesIntact, AttributesOwn, TypesDone
  <2>3. TableTypes' /\ AttributeTypes'
    BY <2>1 DEF IInv, TableTypes, AttributeTypes, StringsSet, TypesDone, Lists, Ids
  <2>4. QED
    BY <2>2, <2>3 DEF IInv
<1>5. QED
  BY <1>1, <1>2, <1>3, <1>4, OthersKeep DEF Next

-----------------------------------------------------------------------------
(* The theorems.                                                           *)

\* createTypeTable and the rest: the counters fit the tables at every step; the
\* position that is written in a word is the length of the long table.
THEOREM TypeCorrect == Spec => []TypeOK
<1>1. IInv => TypeOK
  BY DEF IInv
<1>2. QED
  BY <1>1, InitIInv, NextIInv, PTL DEF Spec

\* createTypeTable: a word of IIT_Table leads to the codes of its own intrinsic
\* and to no more, in every table and at every step.
THEOREM EntriesStayIntact == Spec => []EntriesIntact
<1>1. IInv => EntriesIntact
  BY DEF IInv
<1>2. QED
  BY <1>1, InitIInv, NextIInv, PTL DEF Spec

\* createAttributeTable: getAttributes gives every intrinsic its own attributes,
\* and no list of attributes is in the table twice.
THEOREM AttributesAreOwn == Spec => []AttributesOwn
<1>1. IInv => AttributesOwn
  BY DEF IInv
<1>2. QED
  BY <1>1, InitIInv, NextIInv, PTL DEF Spec

-----------------------------------------------------------------------------
(***************************************************************************)
(* Platforms. The row of an intrinsic is a fold over its expressions, and  *)
(* what it says of a platform is what the last of the expressions says     *)
(* that names the platform: an induction over the expressions. The         *)
(* invariant is that the matrix has the rows of the intrinsics that have   *)
(* been passed, and that no expression of theirs is without a meaning.     *)
(***************************************************************************)
Meant(exprs) == \A k \in 1..Len(exprs) : ~BadExpression(exprs[k])

\* The signs of the expressions that have a meaning.
LEMMA SignsOf ==
  ASSUME NEW expr, ~BadExpression(expr)
  PROVE  expr[1] \in {"", "+", "-", "~", "ALL"}
BY DEF BadExpression

\* platformExprProcess, one platform.
LEMMA OneExpression ==
  ASSUME NEW expr, ~BadExpression(expr), NEW row \in [Platforms -> BOOLEAN]
  PROVE  /\ platformExprProcess(row, expr) \in [Platforms -> BOOLEAN]
         /\ \A p \in Platforms :
              platformExprProcess(row, expr)[p] <=>
                IF Mentions(expr, p) THEN expr[1] # "~" ELSE row[p]
<1> DEFINE id == PlatformId(expr[2])
           sign == expr[1]
           new == platformExprProcess(row, expr)
           value(p) == CASE sign = ""    -> p = id \/ row[p]
                         [] sign = "+"   -> p >= id \/ row[p]
                         [] sign = "-"   -> p < id \/ row[p]
                         [] sign = "~"   -> p # id /\ row[p]
                         [] sign = "ALL" -> TRUE
           mentions(p) == CASE sign \in {"", "~"} -> p = id
                            [] sign = "+"         -> p >= id
                            [] sign = "-"         -> p < id
                            [] OTHER              -> TRUE
<1>1. sign \in {"", "+", "-", "~", "ALL"}
  BY SignsOf
<1>2. new = [p \in Platforms |-> value(p)]
  BY DEF platformExprProcess
<1>3. \A p \in Platforms : Mentions(expr, p) <=> mentions(p)
  BY DEF Mentions
<1> HIDE DEF id, new
<1>4. \A p \in Platforms : /\ value(p) \in BOOLEAN
                           /\ value(p) <=> IF mentions(p) THEN sign # "~" ELSE row[p]
  <2> SUFFICES ASSUME NEW p \in Platforms
               PROVE  /\ value(p) \in BOOLEAN
                      /\ value(p) <=> IF mentions(p) THEN sign # "~" ELSE row[p]
    OBVIOUS
  <2>1. row[p] \in BOOLEAN
    OBVIOUS
  <2> HIDE DEF sign
  <2>2. QED
    BY <1>1, <2>1
<1> HIDE DEF value, mentions, sign
<1>5. new \in [Platforms -> BOOLEAN]
  BY <1>2, <1>4
<1>6. QED
  BY <1>2, <1>3, <1>4, <1>5 DEF new, sign

\* The fold of PlatformRow, as a function.
Rows(exprs, row) ==
  row = [k \in 0..Len(exprs) |->
           IF k = 0 THEN [p \in Platforms |-> exprs = <<>>]
                    ELSE platformExprProcess(row[k - 1], exprs[k])]

LEMMA RowsOf ==
  ASSUME NEW exprs, Len(exprs) \in Nat, Meant(exprs)
  PROVE  \E row : Rows(exprs, row) /\ PlatformRow(exprs) = row[Len(exprs)]
<1> DEFINE N == Len(exprs)
           V == [Platforms -> BOOLEAN]
           base == [p \in Platforms |-> exprs = <<>>]
           step == [z \in (0..N) \X V |->
                      IF z[1] = 0 THEN base ELSE platformExprProcess(z[2], exprs[z[1]])]
<1>1. base \in V /\ N \in Nat
  OBVIOUS
<1>2. step \in [(0..N) \X V -> V]
  <2> SUFFICES ASSUME NEW k \in 0..N, NEW r \in V
               PROVE  (IF k = 0 THEN base ELSE platformExprProcess(r, exprs[k])) \in V
    OBVIOUS
  <2>1. CASE k = 0
    BY <1>1, <2>1
  <2>2. CASE k # 0
    <3>1. k \in 1..N
      BY <2>2
    <3>2. ~BadExpression(exprs[k])
      BY <3>1 DEF Meant
    <3>3. platformExprProcess(r, exprs[k]) \in V
      BY <3>2, OneExpression
    <3>4. QED
      BY <2>2, <3>3
  <2>3. QED
    BY <2>1, <2>2
<1>3. PICK row \in [0..N -> V] : Fold(row, N, base, step)
  <2> HIDE DEF N, V, base, step
  <2>1. QED
    BY <1>1, <1>2, FoldExists
<1>4. ASSUME NEW k \in 0..N, k # 0
      PROVE  step[<<k, row[k - 1]>>] = platformExprProcess(row[k - 1], exprs[k])
  <2>1. k - 1 \in 0..N /\ row[k - 1] \in V
    BY <1>4
  <2>2. <<k, row[k - 1]>> \in (0..N) \X V
    BY <2>1
  <2> HIDE DEF V, base
  <2>3. QED
    BY <1>4, <2>2
<1>5. Rows(exprs, row)
  <2> HIDE DEF step
  <2>1. QED
    BY <1>3, <1>4 DEF Rows, Fold
<1> DEFINE h == CHOOSE g : Rows(exprs, g)
<1>6. PlatformRow(exprs) = h[N]
  BY DEF PlatformRow, Rows
<1>7. Rows(exprs, h)
  BY <1>5
<1>8. QED
  BY <1>6, <1>7

\* createPlatformTable for one intrinsic: the last of the expressions that name a
\* platform decides on it.
LEMMA RowAsDeclared ==
  ASSUME NEW entry, entry.platforms \in Seq(STRING \X STRING), Meant(entry.platforms),
         NEW p \in Platforms
  PROVE  PlatformRow(entry.platforms)[p] <=> DeclaredSupport(entry, p)
<1> DEFINE exprs == entry.platforms
           N == Len(exprs)
           V == [Platforms -> BOOLEAN]
           naming(k) == {j \in 1..k : Mentions(exprs[j], p)}
           Last(k, j) == j \in naming(k) /\ \A l \in naming(k) : l <= j
           Right(row, k) ==
             /\ row[k] \in V
             /\ naming(k) = {} => (row[k][p] <=> exprs = <<>>)
             /\ \A j \in naming(k) : Last(k, j) => (row[k][p] <=> exprs[j][1] # "~")
<1>1. N \in Nat
  OBVIOUS
<1>2. PICK row : Rows(exprs, row) /\ PlatformRow(exprs) = row[N]
  BY <1>1, RowsOf
<1>3. Right(row, 0)
  <2>1. row[0] = [q \in Platforms |-> exprs = <<>>]
    BY <1>1, <1>2 DEF Rows
  <2>2. naming(0) = {}
    OBVIOUS
  <2> HIDE DEF exprs, naming
  <2>3. QED
    BY <2>1, <2>2
<1>4. ASSUME NEW k \in Nat, k + 1 <= N, Right(row, k)
      PROVE  Right(row, k + 1)
  <2> DEFINE expr == exprs[k + 1]
  <2>1. /\ k + 1 \in 0..N /\ k + 1 \in 1..N /\ k + 1 # 0 /\ (k + 1) - 1 = k
        /\ ~BadExpression(expr)
    BY <1>1, <1>4 DEF Meant
  <2>2. row[k + 1] = platformExprProcess(row[k], expr)
    BY <1>2, <2>1 DEF Rows
  <2>3. row[k] \in V
    BY <1>4
  <2>4. /\ row[k + 1] \in V
        /\ row[k + 1][p] <=> IF Mentions(expr, p) THEN expr[1] # "~" ELSE row[k][p]
    BY <2>1, <2>2, <2>3, OneExpression
  <2>5. CASE Mentions(expr, p)
    <3>1. k + 1 \in naming(k + 1)
      BY <2>5
    <3>2. \A j \in naming(k + 1) : Last(k + 1, j) => j = k + 1
      BY <3>1
    <3> HIDE DEF exprs, naming, Last, V
    <3>3. QED
      BY <2>4, <2>5, <3>1, <3>2
  <2>6. CASE ~Mentions(expr, p)
    <3>1. naming(k + 1) = naming(k)
      <4> HIDE DEF exprs
      <4>1. 1..(k + 1) = 1..k \cup {k + 1}
        OBVIOUS
      <4>2. QED
        BY <2>6, <4>1
    <3>2. \A j : Last(k + 1, j) <=> Last(k, j)
      BY <3>1
    <3> HIDE DEF exprs, naming, Last, V
    <3>3. QED
      BY <1>4, <2>4, <2>6, <3>1, <3>2
  <2>7. QED
    BY <2>5, <2>6
<1>5. Right(row, N)
  <2> DEFINE P == {k \in Nat : k <= N => Right(row, k)}
  <2> HIDE DEF Right, N
  <2>1. 0 \in P /\ \A k \in Nat : k \in P => k + 1 \in P
    BY <1>1, <1>3, <1>4
  <2>2. Nat \subseteq P
    <3> HIDE DEF P
    <3>1. QED
      BY <2>1, NumberInduction
  <2>3. QED
    BY <1>1, <2>2
<1>6. CASE naming(N) = {}
  BY <1>2, <1>5, <1>6 DEF DeclaredSupport
<1>7. CASE naming(N) # {}
  <2> DEFINE Largest(j) == \A l \in naming(N) : l <= j
             last == CHOOSE j \in naming(N) : Largest(j)
  <2>1. \E j \in naming(N) : Largest(j)
    <3> DEFINE T == {N - j : j \in naming(N)}
    <3>1. T \subseteq Nat /\ T # {}
      <4>1. naming(N) \subseteq 1..N
        OBVIOUS
      <4> HIDE DEF naming
      <4>2. \A j \in naming(N) : N - j \in Nat
        BY <1>1, <4>1
      <4>3. QED
        BY <1>7, <4>2
    <3>2. PICK n \in T : \A l \in T : n <= l
      <4> HIDE DEF T
      <4>1. QED
        BY <3>1, LeastNumber
    <3>3. PICK j \in naming(N) : n = N - j
      OBVIOUS
    <3>4. \A l \in naming(N) : l \in Int /\ N - j <= N - l
      BY <3>2, <3>3
    <3>5. j \in Int
      OBVIOUS
    <3> HIDE DEF naming
    <3>6. Largest(j)
      BY <1>1, <3>4, <3>5
    <3>7. QED
      BY <3>3, <3>6
  <2>2. last \in naming(N) /\ Largest(last)
    <3> HIDE DEF naming, Largest
    <3>1. QED
      BY <2>1
  <2>3. Last(N, last)
    BY <2>2
  <2>4. last = CHOOSE k \in naming(N) : \A j \in naming(N) : j <= k
    OBVIOUS
  <2>5. DeclaredSupport(entry, p) <=> exprs = <<>> \/ exprs[last][1] # "~"
    <3>1. naming(N) = {k \in 1..Len(entry.platforms) : Mentions(entry.platforms[k], p)}
      OBVIOUS
    <3> HIDE DEF naming, Last, Right
    <3>2. QED
      BY <1>7, <2>4, <3>1 DEF DeclaredSupport
  <2>6. exprs # <<>>
    BY <1>7
  <2> HIDE DEF naming, last, Last
  <2>7. QED
    BY <1>2, <1>5, <2>2, <2>3, <2>5, <2>6
<1>8. QED
  BY <1>6, <1>7

RowOf(n) == PlatformRow(Intrinsics[n].platforms)
PassedRows == {RowOf(n) : n \in Ids}

\* Before createPlatformTable writes.
RowsToCome == phase \in {"OverloadTable", "OverloadArgsTable", "OverloadRetTable",
                         "TypeStrings", "TypeTable", "AttributeTable"}

SupportRows ==
  /\ support_matrix \in Seq(PassedRows)
  /\ RowsToCome => support_matrix = <<>>
  /\ phase = "PlatformTable" => Len(support_matrix) = i
  /\ phase = "done" => Len(support_matrix) = Len(Intrinsics)
  /\ \A n \in 1..Len(support_matrix) :
       n \in Ids /\ support_matrix[n] = RowOf(n) /\ Meant(Intrinsics[n].platforms)

\* createPlatformTable, one intrinsic more.
LEMMA FillSupportKeeps == TypeOK /\ SupportRows /\ FillSupport => SupportRows'
<1> SUFFICES ASSUME TypeOK, SupportRows, FillSupport PROVE SupportRows'
  OBVIOUS
<1>1. /\ Intrinsics' = Intrinsics /\ Ids' = Ids /\ PassedRows' = PassedRows
      /\ \A n : RowOf(n)' = RowOf(n)
  BY DEF FillSupport, Given, Ids, PassedRows, RowOf
<1> DEFINE exprs == Intrinsics[i + 1].platforms
<1>2. CASE Meant(exprs)
  <2>1. /\ phase = "PlatformTable" /\ phase' = phase /\ i < Len(Intrinsics)
        /\ i' = i + 1
        /\ support_matrix' = Append(support_matrix, RowOf(i + 1))
    BY <1>2 DEF FillSupport, Meant, RowOf
  <2>2. Len(Intrinsics) \in Nat /\ i \in Nat /\ i + 1 \in Ids
    BY <2>1, TablesAssumption DEF TypeOK, Ids
  <2>3. /\ support_matrix \in Seq(PassedRows) /\ Len(support_matrix) = i
        /\ RowOf(i + 1) \in PassedRows
    BY <2>1, <2>2 DEF SupportRows, PassedRows
  <2> DEFINE M == support_matrix
             new == RowOf(i + 1)
  <2> HIDE DEF new
  <2>4. /\ support_matrix' \in Seq(PassedRows) /\ Len(support_matrix') = i + 1
        /\ support_matrix'[i + 1] = new
        /\ \A n \in 1..i : support_matrix'[n] = M[n]
    BY <2>1, <2>2, <2>3, AppendProperties DEF new
  <2>5. ASSUME NEW n \in 1..(i + 1)
        PROVE  n \in Ids /\ support_matrix'[n] = RowOf(n) /\ Meant(Intrinsics[n].platforms)
    <3>1. CASE n = i + 1
      BY <1>2, <2>2, <2>4, <3>1 DEF new
    <3>2. CASE n # i + 1
      <4>1. n \in 1..i
        BY <2>2, <3>2
      <4>2. QED
        BY <2>3, <2>4, <4>1 DEF SupportRows
    <3>3. QED
      BY <3>1, <3>2
  <2>6. ~RowsToCome'
    BY <2>1 DEF RowsToCome
  <2> HIDE DEF M, exprs
  <2>7. QED
    BY <1>1, <2>1, <2>4, <2>5, <2>6 DEF SupportRows
<1>3. CASE ~Meant(exprs)
  <2>1. phase' = "NameError" /\ support_matrix' = support_matrix
    BY <1>3 DEF FillSupport, Meant
  <2>2. ~RowsToCome'
    BY <2>1 DEF RowsToCome
  <2>3. QED
    BY <1>1, <2>1, <2>2 DEF SupportRows
<1>4. QED
  BY <1>2, <1>3

LEMMA SupportRowsStay == TypeOK /\ SupportRows /\ [Next]_vars => SupportRows'
<1> SUFFICES ASSUME TypeOK, SupportRows, [Next]_vars PROVE SupportRows'
  OBVIOUS
<1>1. CASE FillSupport
  BY <1>1, FillSupportKeeps
<1>2. CASE ~FillSupport
  <2>1. /\ Intrinsics' = Intrinsics /\ Ids' = Ids /\ PassedRows' = PassedRows
        /\ \A n : RowOf(n)' = RowOf(n)
        /\ support_matrix' = support_matrix
    BY <1>2 DEF Next, createOverloadTable, createOverloadArgsTable, createOverloadRetTable,
       EncodeTypes, PackEntry, WriteTypeTable, NumberAttributes, WriteAttributeTable,
       WritePlatformTable, Given, vars, Ids, PassedRows, RowOf
  <2>2. CASE WritePlatformTable
    BY <2>1, <2>2 DEF WritePlatformTable, Call, SupportRows, RowsToCome
  <2>3. CASE WriteAttributeTable
    <3>1. /\ RowsToCome /\ phase' = "PlatformTable" /\ i' = 0 /\ ~RowsToCome'
      BY <2>3 DEF WriteAttributeTable, Call, RowsToCome
    <3>2. support_matrix = <<>>
      BY <3>1 DEF SupportRows
    <3>3. QED
      BY <2>1, <3>1, <3>2 DEF SupportRows
  <2>4. CASE UNCHANGED vars
    <3>1. UNCHANGED <<phase, i>> /\ RowsToCome' = RowsToCome
      BY <2>4 DEF vars, RowsToCome
    <3>2. QED
      BY <2>1, <3>1 DEF SupportRows
  <2>5. CASE createOverloadTable \/ createOverloadArgsTable \/ createOverloadRetTable
             \/ EncodeTypes \/ PackEntry \/ WriteTypeTable \/ NumberAttributes
    <3>1. /\ RowsToCome
          /\ phase' \in {"OverloadArgsTable", "OverloadRetTable", "TypeStrings",
                         "TypeTable", "AttributeTable"}
      BY <2>5 DEF createOverloadTable, createOverloadArgsTable, createOverloadRetTable,
         EncodeTypes, PackEntry, WriteTypeTable, NumberAttributes, Call, RowsToCome
    <3>2. RowsToCome' /\ support_matrix = <<>>
      BY <3>1 DEF SupportRows, RowsToCome
    <3>3. QED
      BY <2>1, <3>1, <3>2 DEF SupportRows
  <2>6. QED
    BY <1>2, <2>2, <2>3, <2>4, <2>5 DEF Next
<1>3. QED
  BY <1>1, <1>2

\* createPlatformTable: an intrinsic is supported on a platform when the last of its
\* expressions that names the platform says so, whatever the table.
THEOREM SupportIsDeclared == Spec => []SupportedAsDeclared
<1>1. Init => SupportRows
  <2> SUFFICES ASSUME Init PROVE SupportRows
    OBVIOUS
  <2>1. phase = "OverloadTable" /\ support_matrix = <<>>
    BY DEF Init
  <2>2. QED
    BY <2>1 DEF SupportRows, RowsToCome
<1>2. IInv => TypeOK
  BY DEF IInv
<1>3. TypeOK /\ SupportRows => SupportedAsDeclared
  <2> SUFFICES ASSUME TypeOK, SupportRows, phase = "done",
                      NEW n \in Ids, NEW p \in Platforms
               PROVE  isSupportedPlatform(p, n) <=> DeclaredSupport(Intrinsics[n], p)
    BY DEF SupportedAsDeclared
  <2>1. n \in 1..Len(support_matrix)
    BY DEF SupportRows, Ids
  <2>2. support_matrix[n] = PlatformRow(Intrinsics[n].platforms)
        /\ Meant(Intrinsics[n].platforms)
    BY <2>1 DEF SupportRows, RowOf
  <2>3. Intrinsics[n].platforms \in Seq(STRING \X STRING)
    BY PlatformsAssumption DEF TypeOK, Ids
  <2>4. PlatformRow(Intrinsics[n].platforms)[p] <=> DeclaredSupport(Intrinsics[n], p)
    BY <2>2, <2>3, RowAsDeclared
  <2>5. QED
    BY <2>1, <2>2, <2>4 DEF isSupportedPlatform
<1>4. QED
  BY <1>1, <1>2, <1>3, InitIInv, NextIInv, SupportRowsStay, PTL DEF Spec

-----------------------------------------------------------------------------
(* The types that are read are those that were declared.                   *)

\* What an intrinsic's entry leads to is its signature.
LEMMA EntryDecoded ==
  ASSUME TypeOK, TableTypes, EntriesIntact, TypesDone, NEW n \in Ids, Encoded(Intrinsics[n])
  PROVE  Descriptors(n) = Meaning(Intrinsics[n])
<1> DEFINE entry == Intrinsics[n]
           word == IIT_Table[n]
           codes == Signature(entry, llvm_version_major)
           infos == IITEntries(word, IIT_Long)
           first == IF word.sign THEN word.low + 1 ELSE 1
<1>1. /\ WellFormed(entry) /\ llvm_version_major \in Nat /\ IIT_Basic[n] = codes
      /\ n \in 1..Len(IIT_Table) /\ IIT_Long \in Seq(0..255)
      /\ ~FitsWord(IIT_Basic[n]) => word.low \in Nat
  <2>1. WellFormed(entry) /\ llvm_version_major \in Nat
    BY TablesAssumption DEF TypeOK, Ids
  <2>2. IIT_Basic[n] = codes
    BY DEF TableTypes, StringsSet
  <2>3. n \in 1..Len(IIT_Table)
    BY DEF TypeOK, Ids
  <2> QED
    BY <2>1, <2>2, <2>3 DEF TableTypes, Codes
<1>2. codes \in Seq(0..255)
  BY <1>1, SignatureCodes
<1>3. Descriptors(n) = From(infos, llvm_version_major, first, 1)
  BY DEF Descriptors, getIntrinsicInfoTableEntries, From
<1>4. Len(infos) \in Nat /\ first \in Nat /\ Has(infos, first, codes)
      /\ Byte(infos, first + Len(codes)) = 0
  <2>1. CASE FitsWord(codes)
    <3>1. word = Inline(codes)
      BY <1>1, <2>1 DEF EntriesIntact
    <3> HIDE DEF codes, word
    <3>2. /\ ~Inline(codes).sign
          /\ Len(IITEntries(Inline(codes), IIT_Long)) \in Nat
          /\ Has(IITEntries(Inline(codes), IIT_Long), 1, codes)
          /\ Byte(IITEntries(Inline(codes), IIT_Long), 1 + Len(codes)) = 0
      BY <1>2, InlineHolds
    <3>3. first = 1
      BY <3>1, <3>2
    <3> QED
      BY <3>1, <3>2, <3>3
  <2>2. CASE ~FitsWord(codes)
    <3>1. /\ word.sign /\ word.low + Len(codes) < Len(IIT_Long)
          /\ \A k \in 1..Len(codes) : IIT_Long[word.low + k] = codes[k]
          /\ IIT_Long[word.low + Len(codes) + 1] = 0
          /\ word.low \in Nat
      <4> HIDE DEF codes, word
      <4>1. /\ IIT_Table[n].sign /\ IIT_Table[n].low + Len(IIT_Basic[n]) < Len(IIT_Long)
            /\ \A k \in 1..Len(IIT_Basic[n]) :
                 IIT_Long[IIT_Table[n].low + k] = IIT_Basic[n][k]
            /\ IIT_Long[IIT_Table[n].low + Len(IIT_Basic[n]) + 1] = 0
        BY <1>1, <2>2 DEF EntriesIntact
      <4>2. word = IIT_Table[n] /\ IIT_Basic[n] = codes
        BY <1>1 DEF word
      <4> QED
        BY <1>1, <2>2, <4>1, <4>2
    <3> DEFINE low == word.low
    <3>2. first = low + 1 /\ infos = IIT_Long
      BY <3>1 DEF IITEntries
    <3> HIDE DEF codes, word, infos, first, low
    <3>3. Len(codes) \in Nat /\ Len(IIT_Long) \in Nat /\ low \in Nat
      BY <1>1, <1>2, <3>1 DEF low
    <3>4. low + Len(codes) < Len(IIT_Long)
      BY <3>1 DEF low
    <3>5. Has(IIT_Long, low + 1, codes)
      <4> SUFFICES ASSUME NEW k \in 1..Len(codes) PROVE Byte(IIT_Long, low + 1 + k - 1) = codes[k]
        BY DEF Has
      <4>1. low + 1 + k - 1 = low + k /\ ~(low + k > Len(IIT_Long))
        BY <3>3, <3>4
      <4>2. IIT_Long[low + k] = codes[k]
        BY <3>1 DEF low
      <4> QED
        BY <4>1, <4>2 DEF Byte
    <3>6. Byte(IIT_Long, low + 1 + Len(codes)) = 0
      <4>1. low + 1 + Len(codes) = low + Len(codes) + 1 /\ ~(low + Len(codes) + 1 > Len(IIT_Long))
        BY <3>3, <3>4
      <4>2. IIT_Long[low + Len(codes) + 1] = 0
        BY <3>1 DEF low
      <4> QED
        BY <4>1, <4>2 DEF Byte
    <3>7. low + 1 \in Nat
      BY <3>3
    <3> QED
      BY <3>2, <3>3, <3>5, <3>6, <3>7
  <2> QED
    BY <2>1, <2>2
<1> HIDE DEF infos, first
<1>5. From(infos, llvm_version_major, first, 1) = Meaning(entry)
  BY <1>1, <1>4, SignatureDecoded, ZenonT(60)
<1> QED
  BY <1>3, <1>5

\* encodeTypeString against DecodeIITType: what the generator has written for an
\* intrinsic is read as the signature of its declaration.
THEOREM SignaturesRoundTrip == Spec => []SignatureRoundTrip
<1>1. IInv => SignatureRoundTrip
  BY EntryDecoded DEF IInv, SignatureRoundTrip, TypesDone
<1> QED
  BY <1>1, InitIInv, NextIInv, PTL DEF Spec

\* The overload tables are those of the table, once they are written.
ArgsToCome == phase \in {"OverloadTable", "OverloadArgsTable"}
OverloadsSet ==
  /\ phase # "OverloadTable" => OTable = OverloadBytes(Intrinsics)
  /\ ~ArgsToCome => OverloadedArgs = [n \in Ids |-> argNums(Intrinsics[n])]
  /\ ~ArgsToCome /\ phase # "OverloadRetTable" =>
       OverloadedRet = {n \in Ids : OverloadableRet(Intrinsics[n])}

LEMMA OverloadsStaySet == OverloadsSet /\ [Next]_vars => OverloadsSet'
<1> SUFFICES ASSUME OverloadsSet, [Next]_vars PROVE OverloadsSet'
  OBVIOUS
<1>1. Intrinsics' = Intrinsics /\ Ids' = Ids
  BY DEF Next, createOverloadTable, createOverloadArgsTable, createOverloadRetTable,
     EncodeTypes, PackEntry, WriteTypeTable, NumberAttributes, WriteAttributeTable,
     FillSupport, WritePlatformTable, Given, vars, Ids
<1>2. CASE createOverloadTable
  BY <1>1, <1>2 DEF createOverloadTable, Call, OverloadsSet, ArgsToCome
<1>3. CASE createOverloadArgsTable
  BY <1>1, <1>3 DEF createOverloadArgsTable, Call, OverloadsSet, ArgsToCome
<1>4. CASE createOverloadRetTable
  BY <1>1, <1>4 DEF createOverloadRetTable, Call, OverloadsSet, ArgsToCome
<1>5. CASE \/ EncodeTypes \/ PackEntry \/ WriteTypeTable \/ NumberAttributes
           \/ WriteAttributeTable \/ FillSupport \/ WritePlatformTable
  <2>1. UNCHANGED tables
    BY <1>5 DEF EncodeTypes, PackEntry, WriteTypeTable, NumberAttributes,
       WriteAttributeTable, FillSupport, WritePlatformTable
  <2>2. /\ phase \notin {"OverloadTable", "OverloadArgsTable", "OverloadRetTable"}
    BY <1>5 DEF EncodeTypes, PackEntry, WriteTypeTable, NumberAttributes,
       WriteAttributeTable, FillSupport, WritePlatformTable
  <2> QED
    BY <1>1, <2>1, <2>2 DEF OverloadsSet, ArgsToCome, tables
<1>6. CASE UNCHANGED vars
  BY <1>1, <1>6 DEF vars, tables, OverloadsSet, ArgsToCome
<1> QED
  BY <1>2, <1>3, <1>4, <1>5, <1>6 DEF Next

\* The overload tables and the decoded signatures of createTypeTable tell the same.
THEOREM OverloadTablesDoAgree == Spec => []OverloadTablesAgree
<1>1. Init => OverloadsSet
  BY DEF Init, OverloadsSet, ArgsToCome
<1>2. IInv /\ OverloadsSet => OverloadTablesAgree
  <2> SUFFICES ASSUME IInv, OverloadsSet, phase = "done", NEW n \in Ids, Encoded(Intrinsics[n])
               PROVE  LET d         == Descriptors(n)
                          results   == Len(Intrinsics[n].result)
                          V(p)      == Cardinality({q \in ValuePlaces(d) : q < p})
                          fresh     == {p \in 1..Len(d) : IntroducesOverload(d, p)}
                      IN  /\ isOverloaded(n) <=> fresh # {}
                          /\ isOverloadedRet(n) <=> \E p \in fresh : V(p) < results
                          /\ \A p \in ValuePlaces(d) :
                               V(p) >= results =>
                                 (isOverloadedArg(n, V(p) - results) <=> p \in fresh)
                          /\ \A p \in fresh : d[p][2] = Cardinality({q \in fresh : q < p})
    BY DEF OverloadTablesAgree
  <2> DEFINE entry == Intrinsics[n]
             d == Descriptors(n)
  <2>1. d = Meaning(entry)
    BY EntryDecoded DEF IInv, TypesDone
  <2>2. WellFormed(entry) /\ Len(Intrinsics) \in Nat /\ n \in 1..Len(Intrinsics)
    BY TablesAssumption DEF IInv, TypeOK, Ids
  <2>3. /\ isOverloaded(n) <=> HasAny(entry)
        /\ isOverloadedRet(n) <=> OverloadableRet(entry)
        /\ OverloadedArgs[n] = argNums(entry)
    <3>1. /\ OTable = OverloadBytes(Intrinsics)
          /\ OverloadedArgs = [k \in Ids |-> argNums(Intrinsics[k])]
          /\ OverloadedRet = {k \in Ids : OverloadableRet(Intrinsics[k])}
      BY DEF OverloadsSet, ArgsToCome
    <3>2. isOverloaded(n) <=> HasAny(entry)
      BY <2>2, <3>1, OverloadBits DEF isOverloaded
    <3> QED
      BY <3>1, <3>2 DEF isOverloadedRet
  <2> HIDE DEF entry, d
  <2>4. Tell(d, Len(entry.result), HasAny(entry), OverloadableRet(entry), argNums(entry))
    <3>1. PICK L : Len(d) \in Nat /\ Laid(d, L, entry.result \o entry.arguments)
      BY <2>1, <2>2, MeaningLaid DEF entry
    <3> QED
      BY <2>2, <3>1, TablesTell
  <2>5. Tell(d, Len(entry.result), isOverloaded(n), isOverloadedRet(n), OverloadedArgs[n])
    BY <2>3, <2>4 DEF Tell
  <2> QED
    BY <2>5 DEF Tell, Fresh, ValuesBefore, isOverloadedArg, d, entry
<1> QED
  BY <1>1, <1>2, InitIInv, NextIInv, OverloadsStaySet, PTL DEF Spec

-----------------------------------------------------------------------------
(* Calls that are made for their effect.                                   *)

\* The attributes that LLVM is given say what the declared ones say.
LEMMA EffectsKept ==
  ASSUME NEW attrs \in Seq(DOMAIN attribute_map), HasEffect(attrs)
  PROVE  ~Removable(getAttributeListModRef(attrs))
<1> DEFINE s == UNION {attribute_map[attrs[k]] : k \in 1..Len(attrs)}
<1>1. ASSUME NEW k \in 1..Len(attrs)
      PROVE  /\ "WillReturn" \notin attribute_map[attrs[k]]
             /\ attrs[k] = "NoReturn" => "NoReturn" \in attribute_map[attrs[k]]
             /\ attrs[k] \notin {"NoMem", "ReadMem", "ReadArgMem"} =>
                  attribute_map[attrs[k]] \cap {"ReadNone", "ReadOnly"} = {}
  <2>1. attrs[k] \in DOMAIN attribute_map
    OBVIOUS
  <2>2. attrs[k] \in {"None", "NoMem", "ReadMem", "ReadArgMem", "ReadWriteArgMem",
                     "NoReturn", "NoDuplicate", "Convergent", "InaccessibleMemOnly",
                     "WriteMem", "SideEffects", "NoWillReturn"}
    BY <2>1 DEF attribute_map
  <2> QED
    BY <2>2 DEF attribute_map
<1>2. CASE \E k \in 1..Len(attrs) : attrs[k] \in {"NoReturn", "NoWillReturn"}
  <2>1. "WillReturn" \notin s
    BY <1>1
  <2>2. "NoReturn" \in s \/ \E k \in 1..Len(attrs) : attrs[k] = "NoWillReturn"
    BY <1>1, <1>2
  <2>3. "WillReturn" \notin getAttributeListModRef(attrs)
    BY <2>1, <2>2 DEF getAttributeListModRef
  <2> QED
    BY <2>3 DEF Removable
<1>3. CASE \A k \in 1..Len(attrs) : attrs[k] \notin {"NoMem", "ReadMem", "ReadArgMem"}
  <2>1. s \cap {"ReadNone", "ReadOnly"} = {}
    BY <1>1, <1>3
  <2>2. getAttributeListModRef(attrs) \subseteq s \cup {"WillReturn"}
    BY DEF getAttributeListModRef
  <2> HIDE DEF s
  <2> QED
    BY <2>1, <2>2 DEF Removable
<1> QED
  BY <1>2, <1>3 DEF HasEffect

\* createAttributeTable and getAttributes: whatever shares a list of attributes with
\* it, a call of an intrinsic without a result is not one that LLVM deletes.
THEOREM VoidCallsDoSurvive == Spec => []VoidCallsSurvive
<1>1. IInv => VoidCallsSurvive
  <2> SUFFICES ASSUME IInv, phase = "done", NEW n \in Ids,
                      Intrinsics[n].result = <<"void">>,
                      Intrinsics[n].name # ReadOnlyPrefetch
               PROVE  ~Removable(getAttributes(n))
    BY DEF VoidCallsSurvive
  <2>1. n \in 1..Len(IntrinsicsToAttributesMap)
    BY DEF IInv, AttributeTypes, TypesDone, Ids
  <2>2. getAttributes(n) = getAttributeListModRef(Intrinsics[n].attributes)
    BY <2>1 DEF IInv, AttributesOwn, getAttributes
  <2>3. /\ Intrinsics[n].attributes \in Seq(DOMAIN attribute_map)
        /\ HasEffect(Intrinsics[n].attributes)
    BY EffectsAssumption DEF IInv, TypeOK, Ids
  <2> QED
    BY <2>2, <2>3, EffectsKept
<1> QED
  BY <1>1, InitIInv, NextIInv, PTL DEF Spec
=============================================================================
