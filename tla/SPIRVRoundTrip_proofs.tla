------------------------- MODULE SPIRVRoundTrip_proofs -------------------------
(***************************************************************************)
(* Proofs about the names of intrinsics, for every library: what the       *)
(* lookup finds and where cached numbers and attributes come from; about   *)
(* the adaptors, for every module of a front end; and about the whole way  *)
(* of a module, which treats the declarations of intrinsics as             *)
(* IntrinsicNames says and kernels as KernelArguments does, whichever      *)
(* version of the library is where and whatever else is declared.          *)
(***************************************************************************)
EXTENDS SPIRVRoundTrip, Recursion, FiniteSetTheorems, SequenceTheorems,
        WellFoundedInduction, TLAPS

-----------------------------------------------------------------------------
(***************************************************************************)
(* The strengthening, for one declaration: its number is what the lookup   *)
(* of its writer gives, and its attributes are those of the intrinsic that *)
(* getGenXIntrinsicID gives the version that set them.                     *)
(***************************************************************************)
Lookup(lib, m) == lookupGenXIntrinsicID[lib][m]
Numbers == {0} \cup {Lookup(lib, m) : lib \in Libraries, m \in Names}
Writers == {{}} \cup Libraries
Lists == {<<>>} \cup {ID_array[lib][n] : lib \in Libraries, n \in Numbers}
Declarations == [attributes : Lists, attributes_by : Writers,
                 genx_intrinsic_id : Numbers, md_by : Writers]

NumberGood(m, F) ==
  F.genx_intrinsic_id # 0 =>
    F.md_by \in Libraries /\ F.genx_intrinsic_id = Lookup(F.md_by, m)

AttributesGood(m, F) ==
  \A lib \in Libraries :
    F.attributes_by = lib => F.attributes = ID_array[lib][getGenXIntrinsicID(lib, m, F)]

Good(m, F) == F \in Declarations /\ NumberGood(m, F) /\ AttributesGood(m, F)

IInv ==
  /\ library \in Libraries
  /\ EnableGenXIntrinsicsCache \in BOOLEAN
  /\ DOMAIN declarations \subseteq Names
  /\ declarations = [m \in DOMAIN declarations |-> declarations[m]]
  /\ \A m \in DOMAIN declarations : Good(m, declarations[m])

-----------------------------------------------------------------------------
(* One declaration.                                                        *)

\* Number 0 is no number of an intrinsic.
LEMMA ZeroIsNone == ASSUME NEW lib \in Libraries PROVE 0 \notin 1..Cardinality(lib)
<1>1. Cardinality(lib) \in Nat
  BY NamesAssumption, FS_CardinalityType
<1>2. QED
  BY <1>1

\* Without a number of another version, the cache changes nothing.
LEMMA NumberIsLookup ==
  ASSUME NEW lib \in Libraries, NEW m \in Names, NEW F, Good(m, F),
         F.genx_intrinsic_id # 0 => F.md_by = lib
  PROVE  getGenXIntrinsicID(lib, m, F) = Lookup(lib, m)
<1>1. CASE F.genx_intrinsic_id = 0
  BY <1>1, ZeroIsNone DEF getGenXIntrinsicID, Lookup
<1>2. CASE F.genx_intrinsic_id # 0
  <2>1. F.genx_intrinsic_id = Lookup(lib, m)
    BY <1>2 DEF Good, NumberGood
  <2>2. QED
    BY <2>1 DEF getGenXIntrinsicID, Lookup
<1>3. QED
  BY <1>1, <1>2

\* What getGenXIntrinsicID gives is a number.
LEMMA NumberType ==
  ASSUME NEW lib \in Libraries, NEW m \in Names, NEW F \in Declarations
  PROVE  getGenXIntrinsicID(lib, m, F) \in Numbers
<1>1. F.genx_intrinsic_id \in Numbers
  BY DEF Declarations
<1>2. Lookup(lib, m) \in Numbers
  BY DEF Numbers
<1>3. QED
  BY <1>1, <1>2 DEF getGenXIntrinsicID, Lookup

LEMMA SetAttributesGood ==
  ASSUME NEW lib \in Libraries, NEW m \in Names, NEW F, Good(m, F)
  PROVE  LET G == SetAttributes(lib, m, F)
         IN  /\ Good(m, G)
             /\ G.attributes_by = lib
             /\ G.genx_intrinsic_id = F.genx_intrinsic_id /\ G.md_by = F.md_by
<1> DEFINE G == SetAttributes(lib, m, F)
           n == getGenXIntrinsicID(lib, m, F)
<1>1. F \in Declarations
  BY DEF Good
<1>2. n \in Numbers
  BY <1>1, NumberType
<1>3. /\ G = [F EXCEPT !.attributes = ID_array[lib][n], !.attributes_by = lib]
      /\ ID_array[lib][n] \in Lists /\ lib \in Writers
  BY <1>2 DEF SetAttributes, Lists, Writers
<1> HIDE DEF G, n
<1>4. /\ G \in Declarations
      /\ G.attributes = ID_array[lib][n] /\ G.attributes_by = lib
      /\ G.genx_intrinsic_id = F.genx_intrinsic_id /\ G.md_by = F.md_by
  BY <1>1, <1>3 DEF Declarations
<1>5. NumberGood(m, G)
  BY <1>4 DEF Good, NumberGood
<1>6. AttributesGood(m, G)
  <2>1. getGenXIntrinsicID(lib, m, G) = n
    BY <1>4 DEF n, getGenXIntrinsicID
  <2>2. QED
    BY <1>4, <2>1 DEF AttributesGood
<1>7. QED
  BY <1>4, <1>5, <1>6 DEF Good, G

LEMMA ResetGood ==
  ASSUME NEW lib \in Libraries, NEW m \in Names, NEW F, Good(m, F), NEW cached \in BOOLEAN
  PROVE  Good(m, resetGenXAttributes(lib, cached, m, F))
<1> DEFINE G == SetAttributes(lib, m, F)
           n == getGenXIntrinsicID(lib, m, F)
           H == [G EXCEPT !.genx_intrinsic_id = n, !.md_by = lib]
<1>1. /\ Good(m, G) /\ G.attributes_by = lib
      /\ G.genx_intrinsic_id = F.genx_intrinsic_id /\ G.md_by = F.md_by
  BY SetAttributesGood
<1>2. CASE ~(cached /\ F.genx_intrinsic_id = 0)
  BY <1>1, <1>2 DEF resetGenXAttributes
<1>3. CASE cached /\ F.genx_intrinsic_id = 0
  <2>1. n = Lookup(lib, m)
    BY <1>3, NumberIsLookup
  <2>2. G.attributes = ID_array[lib][n]
    <3>1. F \in Declarations
      BY DEF Good
    <3>2. QED
      BY <3>1 DEF SetAttributes, Declarations
  <2>3. n \in Numbers /\ lib \in Writers
    BY <2>1 DEF Numbers, Writers
  <2>4. resetGenXAttributes(lib, cached, m, F) = H
    BY <1>3 DEF resetGenXAttributes
  <2> HIDE DEF G, n
  <2>5. G \in Declarations
    BY <1>1 DEF Good
  <2>6. /\ H \in Declarations
        /\ H.attributes = ID_array[lib][Lookup(lib, m)] /\ H.attributes_by = lib
        /\ H.genx_intrinsic_id = Lookup(lib, m) /\ H.md_by = lib
    BY <1>1, <2>1, <2>2, <2>3, <2>5 DEF Declarations
  <2> HIDE DEF H
  <2>7. NumberGood(m, H)
    BY <2>6 DEF NumberGood
  <2>8. getGenXIntrinsicID(lib, m, H) = Lookup(lib, m)
    BY <2>6 DEF getGenXIntrinsicID, Lookup
  <2>9. AttributesGood(m, H)
    BY <2>6, <2>8 DEF AttributesGood
  <2>10. QED
    BY <2>4, <2>6, <2>7, <2>9 DEF Good
<1>4. QED
  BY <1>2, <1>3

LEMMA NewGood == ASSUME NEW m \in Names PROVE Good(m, New)
<1>1. New = [attributes |-> <<>>, attributes_by |-> {}, genx_intrinsic_id |-> 0, md_by |-> {}]
  BY DEF New, Declaration
<1>2. New \in Declarations
  BY <1>1 DEF Declarations, Lists, Writers, Numbers
<1>3. QED
  BY <1>1, <1>2, NamesAssumption DEF Good, NumberGood, AttributesGood

-----------------------------------------------------------------------------
(* The module.                                                             *)

LEMMA NamesInitIInv == NamesInit => IInv
<1> SUFFICES ASSUME NamesInit PROVE IInv
  OBVIOUS
<1>1. DOMAIN declarations = {} /\ declarations = [m \in {} |-> declarations[m]]
  BY DEF NamesInit
<1>2. QED
  BY <1>1, NamesAssumption DEF NamesInit, IInv

LEMMA NamesNextIInv == IInv /\ [NamesNext]_names => IInv'
<1> SUFFICES ASSUME IInv, [NamesNext]_names PROVE IInv'
  OBVIOUS
<1>1. ASSUME NEW id \in library, NEW Tys \in Types(id), getGenXDeclaration(id, Tys)
      PROVE  IInv'
  <2> DEFINE Name == getGenXName(id, Tys)
             F == IF Name \in DOMAIN declarations THEN declarations[Name] ELSE New
             G == resetGenXAttributes(library, EnableGenXIntrinsicsCache, Name, F)
             D == DOMAIN declarations \cup {Name}
  <2>1. Name \in Names
    BY DEF IInv, Names
  <2>2. /\ library' = library /\ EnableGenXIntrinsicsCache' = EnableGenXIntrinsicsCache
        /\ declarations' = [m \in D |-> IF m = Name THEN G ELSE declarations[m]]
    BY <1>1 DEF getGenXDeclaration
  <2>3. Good(Name, F)
    BY <2>1, NewGood DEF IInv
  <2>4. Good(Name, G)
    BY <2>1, <2>3, ResetGood DEF IInv
  <2> HIDE DEF G
  <2>5. /\ DOMAIN declarations' = D /\ D \subseteq Names
        /\ declarations' = [m \in D |-> declarations'[m]]
    BY <2>1, <2>2 DEF IInv
  <2>6. \A m \in D : Good(m, declarations'[m])
    BY <2>2, <2>4 DEF IInv
  <2> HIDE DEF D
  <2>7. \A m \in DOMAIN declarations' : Good(m, declarations'[m])
    BY <2>5, <2>6
  <2>8. library' \in Libraries /\ EnableGenXIntrinsicsCache' \in BOOLEAN
    BY <2>2 DEF IInv
  <2>9. DOMAIN declarations' \subseteq Names
        /\ declarations' = [m \in DOMAIN declarations' |-> declarations'[m]]
    BY <2>5
  <2>10. QED
    BY <2>7, <2>8, <2>9 DEF IInv
<1>2. CASE RestoreIntrAttr
  <2>1. /\ library' = library /\ EnableGenXIntrinsicsCache' = EnableGenXIntrinsicsCache
        /\ declarations' = [m \in DOMAIN declarations |->
                              SetAttributes(library, m, declarations[m])]
    BY <1>2 DEF RestoreIntrAttr
  <2>2. \A m \in DOMAIN declarations : Good(m, SetAttributes(library, m, declarations[m]))
    BY SetAttributesGood DEF IInv
  <2>3. QED
    BY <2>1, <2>2 DEF IInv
<1>3. CASE LoseAttributes
  <2>1. /\ library' = library /\ EnableGenXIntrinsicsCache' = EnableGenXIntrinsicsCache
        /\ declarations' = [m \in DOMAIN declarations |-> New]
    BY <1>3 DEF LoseAttributes
  <2>2. \A m \in DOMAIN declarations : Good(m, New)
    BY NewGood DEF IInv
  <2>3. QED
    BY <2>1, <2>2 DEF IInv
<1>4. CASE ChangeLibrary
  BY <1>4 DEF ChangeLibrary, IInv
<1>5. CASE UNCHANGED names
  BY <1>5 DEF names, IInv
<1>6. QED
  BY <1>1, <1>2, <1>3, <1>4, <1>5 DEF NamesNext

-----------------------------------------------------------------------------
(* The theorems.                                                           *)

\* resetGenXAttributes: the number in the metadata is what the lookup of the
\* version that wrote it gives, whatever has been cached, lost and read since.
THEOREM CachedNumbers == NamesSpec => []CacheIsLookup
<1>1. IInv => CacheIsLookup
  BY DEF IInv, CacheIsLookup, Good, NumberGood, Lookup
<1>2. QED
  BY <1>1, NamesInitIInv, NamesNextIInv, PTL DEF NamesSpec

\* getGenXIntrinsicID: with a number that this version has written, or none, the
\* cache gives what the lookup gives.
THEOREM CacheTransparent == NamesSpec => []CacheCoherent
<1>1. IInv => CacheCoherent
  <2> SUFFICES ASSUME IInv, NEW m \in DOMAIN declarations,
                      declarations[m].md_by \in {{}, library}
               PROVE  getGenXIntrinsicID(library, m, declarations[m]) = Lookup(library, m)
    BY DEF CacheCoherent, Lookup
  <2>1. m \in Names /\ library \in Libraries /\ Good(m, declarations[m])
    BY DEF IInv
  <2>2. declarations[m].genx_intrinsic_id # 0 => declarations[m].md_by = library
    BY <2>1, NamesAssumption DEF Good, NumberGood
  <2>3. QED
    BY <2>1, <2>2, NumberIsLookup
<1>2. QED
  BY <1>1, NamesInitIInv, NamesNextIInv, PTL DEF NamesSpec

-----------------------------------------------------------------------------
(***************************************************************************)
(* The order of strings. A string is followed by a character that is less  *)
(* than every other, as the C strings of the table are: one string is      *)
(* before another when it has the lesser character where they first        *)
(* differ, and strncmp looks no further than some place.                   *)
(***************************************************************************)
Texts == Seq(Nat)
At(s, k) == IF k <= Len(s) THEN s[k] ELSE -1

DiffersAt(s, t, k) == At(s, k) < At(t, k) /\ \A j \in 1..(k - 1) : At(s, j) = At(t, j)
Precedes(s, t) == \E k \in Nat \ {0} : DiffersAt(s, t, k)
Below(s, t, end) == \E k \in 1..end : DiffersAt(s, t, k)
Agree(s, t, end) == \A k \in 1..end : At(s, k) = At(t, k)

LEMMA AtType ==
  ASSUME NEW s \in Texts, NEW k \in Nat \ {0}
  PROVE  /\ At(s, k) \in Int /\ At(s, k) >= -1
         /\ k <= Len(s) <=> At(s, k) # -1
         /\ k <= Len(s) => At(s, k) = s[k]
<1>1. Len(s) \in Nat /\ \A j \in 1..Len(s) : s[j] \in Nat
  BY DEF Texts
<1>2. CASE k <= Len(s)
  <2>1. k \in 1..Len(s)
    BY <1>1, <1>2
  <2>2. s[k] \in Nat
    BY <1>1, <2>1
  <2>3. QED
    BY <1>2, <2>2 DEF At
<1>3. CASE ~(k <= Len(s))
  BY <1>1, <1>3 DEF At
<1>4. QED
  BY <1>2, <1>3

\* Less is the order.
LEMMA LessIsPrecedes ==
  ASSUME NEW s \in Texts, NEW t \in Texts
  PROVE  Less(s, t) <=> Precedes(s, t)
<1>1. Len(s) \in Nat /\ Len(t) \in Nat
  BY DEF Texts
<1> DEFINE Stop(k) == /\ \A j \in 1..(k - 1) : j <= Len(s) /\ s[j] = t[j]
                      /\ k > Len(s) \/ s[k] < t[k]
<1>2. ASSUME NEW k \in 1..Len(t) PROVE Stop(k) <=> DiffersAt(s, t, k)
  <2>1. ASSUME NEW j \in 1..(k - 1)
        PROVE  (j <= Len(s) /\ s[j] = t[j]) <=> At(s, j) = At(t, j)
    <3>1. j \in Nat \ {0} /\ j <= Len(t)
      BY <1>1
    <3>2. At(t, j) = t[j] /\ At(t, j) # -1
      BY <3>1, AtType
    <3>3. j <= Len(s) <=> At(s, j) # -1
      BY <3>1, AtType
    <3>4. j <= Len(s) => At(s, j) = s[j]
      BY <3>1, AtType
    <3>5. QED
      BY <3>2, <3>3, <3>4
  <2>2. (k > Len(s) \/ s[k] < t[k]) <=> At(s, k) < At(t, k)
    <3>1. k \in Nat \ {0} /\ k <= Len(t)
      BY <1>1
    <3>2. At(t, k) = t[k] /\ At(t, k) # -1 /\ At(t, k) \in Int /\ At(t, k) >= -1
      BY <3>1, AtType
    <3>3. CASE k <= Len(s)
      <4>1. At(s, k) = s[k]
        BY <3>1, <3>3, AtType
      <4>2. QED
        BY <1>1, <3>1, <3>2, <3>3, <4>1
    <3>4. CASE k > Len(s)
      <4>1. At(s, k) = -1
        BY <3>1, <3>4 DEF At
      <4>2. QED
        BY <3>2, <3>4, <4>1
    <3>5. QED
      BY <1>1, <3>3, <3>4
  <2>3. QED
    BY <2>1, <2>2 DEF DiffersAt
<1>3. ASSUME NEW k \in Nat \ {0}, DiffersAt(s, t, k) PROVE k \in 1..Len(t)
  <2>1. At(s, k) >= -1 /\ At(s, k) \in Int /\ At(t, k) \in Int /\ At(s, k) < At(t, k)
    BY <1>3, AtType DEF DiffersAt
  <2>2. At(t, k) # -1
    BY <2>1
  <2>3. k <= Len(t)
    BY <2>2, AtType
  <2>4. QED
    BY <1>1, <2>3
<1>4. Less(s, t) <=> \E k \in 1..Len(t) : Stop(k)
  BY DEF Less
<1>5. 1..Len(t) \subseteq Nat \ {0}
  BY <1>1
<1> HIDE DEF Stop
<1>6. QED
  BY <1>2, <1>3, <1>4, <1>5 DEF Precedes

\* The first place where strings differ decides, in each of the orders.
LEMMA DiffersTransitive ==
  ASSUME NEW s \in Texts, NEW t \in Texts, NEW u \in Texts,
         NEW k \in Nat \ {0}, NEW l \in Nat \ {0},
         DiffersAt(s, t, k), DiffersAt(t, u, l)
  PROVE  \E n \in {k, l} : n <= k /\ n <= l /\ DiffersAt(s, u, n)
<1>1. ASSUME NEW j \in Nat \ {0}
      PROVE  At(s, j) \in Int /\ At(t, j) \in Int /\ At(u, j) \in Int
  BY AtType
<1>2. CASE k <= l
  <2>1. \A j \in 1..(k - 1) : At(s, j) = At(u, j)
    BY <1>2 DEF DiffersAt
  <2>2. At(s, k) < At(t, k) /\ (k < l => At(t, k) = At(u, k)) /\ (k = l => At(t, k) < At(u, k))
    BY <1>2 DEF DiffersAt
  <2>3. At(s, k) < At(u, k)
    BY <1>1, <1>2, <2>2
  <2>4. QED
    BY <1>2, <2>1, <2>3 DEF DiffersAt
<1>3. CASE l < k
  <2>1. \A j \in 1..(l - 1) : At(s, j) = At(u, j)
    BY <1>3 DEF DiffersAt
  <2>2. At(t, l) < At(u, l) /\ At(s, l) = At(t, l)
    BY <1>3 DEF DiffersAt
  <2>3. At(s, l) < At(u, l)
    BY <1>1, <2>2
  <2>4. QED
    BY <1>3, <2>1, <2>3 DEF DiffersAt
<1>4. QED
  BY <1>2, <1>3

LEMMA PrecedesTransitive ==
  ASSUME NEW s \in Texts, NEW t \in Texts, NEW u \in Texts, Precedes(s, t), Precedes(t, u)
  PROVE  Precedes(s, u)
<1>1. PICK k \in Nat \ {0} : DiffersAt(s, t, k)
  BY DEF Precedes
<1>2. PICK l \in Nat \ {0} : DiffersAt(t, u, l)
  BY DEF Precedes
<1>3. QED
  BY <1>1, <1>2, DiffersTransitive DEF Precedes

LEMMA PrecedesIrreflexive == ASSUME NEW s \in Texts PROVE ~Precedes(s, s)
BY AtType DEF Precedes, DiffersAt

LEMMA PrecedesBelow ==
  ASSUME NEW s \in Texts, NEW t \in Texts, NEW u \in Texts, NEW end \in Nat,
         Precedes(s, t), Below(t, u, end)
  PROVE  Below(s, u, end)
<1>1. PICK k \in Nat \ {0} : DiffersAt(s, t, k)
  BY DEF Precedes
<1>2. PICK l \in 1..end : DiffersAt(t, u, l)
  BY DEF Below
<1>3. PICK n \in {k, l} : n <= k /\ n <= l /\ DiffersAt(s, u, n)
  BY <1>1, <1>2, DiffersTransitive
<1>4. n \in 1..end
  BY <1>3
<1>5. QED
  BY <1>3, <1>4 DEF Below

LEMMA BelowPrecedes ==
  ASSUME NEW s \in Texts, NEW t \in Texts, NEW u \in Texts, NEW end \in Nat,
         Below(s, t, end), Precedes(t, u)
  PROVE  Below(s, u, end)
<1>1. PICK k \in 1..end : DiffersAt(s, t, k)
  BY DEF Below
<1>2. PICK l \in Nat \ {0} : DiffersAt(t, u, l)
  BY DEF Precedes
<1>3. PICK n \in {k, l} : n <= k /\ n <= l /\ DiffersAt(s, u, n)
  BY <1>1, <1>2, DiffersTransitive
<1>4. n \in 1..end
  BY <1>3
<1>5. QED
  BY <1>3, <1>4 DEF Below

\* Strings of which neither is below the other agree.
LEMMA NeitherBelow ==
  ASSUME NEW s \in Texts, NEW t \in Texts, NEW end \in Nat
  PROVE  Agree(s, t, end) <=> ~Below(s, t, end) /\ ~Below(t, s, end)
<1>1. ASSUME NEW j \in Nat \ {0} PROVE At(s, j) \in Int /\ At(t, j) \in Int
  BY AtType
<1>2. ASSUME Agree(s, t, end) PROVE ~Below(s, t, end) /\ ~Below(t, s, end)
  BY <1>1, <1>2 DEF Agree, Below, DiffersAt
<1>3. ASSUME ~Agree(s, t, end) PROVE Below(s, t, end) \/ Below(t, s, end)
  <2> DEFINE T == {k \in 1..end : At(s, k) # At(t, k)}
  <2>1. T \subseteq Nat /\ T # {}
    BY <1>3 DEF Agree
  <2>2. PICK k \in T : \A j \in T : k <= j
    <3> HIDE DEF T
    <3>1. QED
      BY <2>1, LeastNumber
  <2>3. \A j \in 1..(k - 1) : At(s, j) = At(t, j)
    BY <2>2
  <2>4. At(s, k) < At(t, k) \/ At(t, k) < At(s, k)
    BY <1>1, <2>2
  <2>5. k \in 1..end
    BY <2>2
  <2> HIDE DEF T
  <2>6. QED
    BY <2>3, <2>4, <2>5 DEF Below, DiffersAt
<1>4. QED
  BY <1>2, <1>3

\* The order is total.
LEMMA PrecedesTotal ==
  ASSUME NEW s \in Texts, NEW t \in Texts, s # t
  PROVE  Precedes(s, t) \/ Precedes(t, s)
<1>1. Len(s) \in Nat /\ Len(t) \in Nat
  BY DEF Texts
<1> DEFINE end == Len(s) + Len(t) + 1
<1>2. end \in Nat /\ Len(s) < end /\ Len(t) < end
  BY <1>1
<1> HIDE DEF end
<1>3. SUFFICES ASSUME Agree(s, t, end) PROVE s = t
  <2>1. Below(s, t, end) \/ Below(t, s, end)
    BY <1>2, <1>3, NeitherBelow
  <2>2. QED
    BY <1>2, <2>1 DEF Below, Precedes
<1>4. ASSUME NEW k \in 1..end PROVE (k <= Len(s) <=> k <= Len(t)) /\ At(s, k) = At(t, k)
  <2>1. k \in Nat \ {0} /\ At(s, k) = At(t, k)
    BY <1>2, <1>3 DEF Agree
  <2>2. k <= Len(s) <=> At(s, k) # -1
    BY <2>1, AtType
  <2>3. k <= Len(t) <=> At(t, k) # -1
    BY <2>1, AtType
  <2>4. QED
    BY <2>1, <2>2, <2>3
<1>5. Len(s) = Len(t)
  <2>1. ~(Len(s) < Len(t))
    BY <1>1, <1>2, <1>4
  <2>2. ~(Len(t) < Len(s))
    BY <1>1, <1>2, <1>4
  <2>3. QED
    BY <1>1, <2>1, <2>2
<1>6. ASSUME NEW k \in 1..Len(s) PROVE s[k] = t[k]
  <2>1. k \in 1..end /\ k \in Nat \ {0} /\ k <= Len(s) /\ k <= Len(t)
    BY <1>1, <1>2, <1>5
  <2>2. At(s, k) = s[k] /\ At(t, k) = t[k]
    BY <2>1, AtType
  <2>3. QED
    BY <1>4, <2>1, <2>2
<1>7. QED
  BY <1>5, <1>6, SeqEqual DEF Texts


\* strncmp of what follows the characters that agree looks as far as the end.
LEMMA PartLessIsBelow ==
  ASSUME NEW s \in Texts, NEW t \in Texts, NEW from \in Nat, NEW n \in Nat,
         Agree(s, t, from), from <= Len(s), from <= Len(t)
  PROVE  PartLess(s, t, from, n) <=> Below(s, t, from + n)
<1> DEFINE end(u) == IF from + n <= Len(u) THEN from + n ELSE Len(u)
           part(u) == SubSeq(u, from + 1, end(u))
<1>1. ASSUME NEW u \in Texts, from <= Len(u)
      PROVE  /\ part(u) \in Texts
             /\ \A k \in Nat \ {0} :
                  At(part(u), k) = IF k <= n THEN At(u, from + k) ELSE -1
  <2>1. Len(u) \in Nat /\ \A j \in 1..Len(u) : u[j] \in Nat
    BY DEF Texts
  <2>2. end(u) \in Nat /\ from <= end(u) /\ end(u) <= Len(u) /\ end(u) <= from + n
    BY <1>1, <2>1
  <2>3. end(u) < from + n => end(u) = Len(u)
    BY <2>1
  <2> DEFINE e == end(u)
  <2> HIDE DEF end
  <2>4. \A j \in (from + 1)..e : u[j] \in Nat
    BY <2>1, <2>2
  <2>5. /\ part(u) \in Texts
        /\ Len(part(u)) = e - from
        /\ \A k \in 1..(e - from) : part(u)[k] = u[from + k]
    <3>1. /\ SubSeq(u, from + 1, e) \in Seq(Nat)
          /\ Len(SubSeq(u, from + 1, e)) = IF from + 1 <= e THEN e - (from + 1) + 1 ELSE 0
          /\ \A k \in 1..(e - (from + 1) + 1) :
               SubSeq(u, from + 1, e)[k] = u[(from + 1) + k - 1]
      <4>1. from + 1 \in Int /\ e \in Int
        BY <2>2
      <4> HIDE DEF e
      <4>2. QED
        BY <2>4, <4>1, SubSeqProperties, SMTT(30)
    <3>2. e - (from + 1) + 1 = e - from
      BY <2>2
    <3>3. (IF from + 1 <= e THEN e - (from + 1) + 1 ELSE 0) = e - from
      BY <2>2
    <3> DEFINE p == SubSeq(u, from + 1, e)
    <3>4. \A k \in 1..(e - from) : p[k] = u[from + k]
      <4>1. \A k \in 1..(e - from) : (from + 1) + k - 1 = from + k
        BY <2>2
      <4> HIDE DEF e
      <4>2. QED
        BY <3>1, <3>2, <4>1
    <3> HIDE DEF p
    <3>5. QED
      BY <3>1, <3>3, <3>4, SMTT(30) DEF Texts, p
  <2> HIDE DEF part
  <2>6. ASSUME NEW k \in Nat \ {0}
        PROVE  At(part(u), k) = IF k <= n THEN At(u, from + k) ELSE -1
    <3>1. CASE k <= e - from
      <4>1. k <= n /\ from + k <= Len(u) /\ k \in 1..(e - from)
        BY <2>1, <2>2, <3>1
      <4>2. QED
        BY <2>5, <3>1, <4>1 DEF At
    <3>2. CASE ~(k <= e - from)
      <4>1. k <= n => e < from + n
        BY <2>2, <3>2
      <4>2. k <= n => ~(from + k <= Len(u))
        BY <2>1, <2>2, <2>3, <3>2, <4>1
      <4>3. QED
        BY <2>5, <3>2, <4>2 DEF At
    <3>3. QED
      BY <3>1, <3>2
  <2>7. QED
    BY <2>5, <2>6
<1> DEFINE ps == part(s)
           pt == part(t)
<1>2. PartLess(s, t, from, n) <=> Precedes(ps, pt)
  <2>1. PartLess(s, t, from, n) <=> Less(ps, pt)
    BY DEF PartLess
  <2>2. QED
    BY <1>1, <2>1, LessIsPrecedes
<1>3. \A k \in Nat \ {0} : /\ At(ps, k) = IF k <= n THEN At(s, from + k) ELSE -1
                           /\ At(pt, k) = IF k <= n THEN At(t, from + k) ELSE -1
  BY <1>1
<1> HIDE DEF ps, pt
<1>4. ASSUME NEW k \in Nat \ {0}, DiffersAt(ps, pt, k)
      PROVE  k <= n /\ DiffersAt(s, t, from + k)
  <2>1. k <= n
    BY <1>3, <1>4 DEF DiffersAt
  <2>2. At(s, from + k) < At(t, from + k)
    BY <1>3, <1>4, <2>1 DEF DiffersAt
  <2>3. ASSUME NEW j \in 1..(from + k - 1) PROVE At(s, j) = At(t, j)
    <3>1. CASE j <= from
      BY <3>1 DEF Agree
    <3>2. CASE j > from
      <4>1. j - from \in 1..(k - 1) /\ j - from \in Nat \ {0} /\ j - from <= n
            /\ from + (j - from) = j
        BY <2>1, <3>2
      <4>2. QED
        BY <1>3, <1>4, <4>1 DEF DiffersAt
    <3>3. QED
      BY <3>1, <3>2
  <2>4. QED
    BY <2>1, <2>2, <2>3 DEF DiffersAt
<1>5. ASSUME NEW l \in 1..(from + n), DiffersAt(s, t, l)
      PROVE  \E k \in Nat \ {0} : DiffersAt(ps, pt, k)
  <2> DEFINE k == l - from
  <2>1. l > from
    <3>1. ~(l <= from)
      BY <1>5, AtType, SMTT(30) DEF DiffersAt, Agree
    <3>2. QED
      BY <3>1
  <2>2. k \in Nat \ {0} /\ k <= n /\ from + k = l
    BY <2>1
  <2>3. \A j \in 1..(k - 1) : j \in Nat \ {0} /\ j <= n /\ from + j \in 1..(l - 1)
    BY <2>2
  <2> HIDE DEF k
  <2>4. At(ps, k) < At(pt, k)
    BY <1>3, <1>5, <2>2 DEF DiffersAt
  <2>5. \A j \in 1..(k - 1) : At(ps, j) = At(pt, j)
    BY <1>3, <1>5, <2>3 DEF DiffersAt
  <2>6. QED
    BY <2>2, <2>4, <2>5 DEF DiffersAt
<1>6. QED
  BY <1>2, <1>4, <1>5 DEF Precedes, Below


-----------------------------------------------------------------------------
(***************************************************************************)
(* The table. The number of names before a name is its place, since no two *)
(* identifiers have the same name; so the table has every identifier, and  *)
(* its names are in order.                                                 *)
(***************************************************************************)
LEMMA DottedText ==
  ASSUME NEW lib \in Libraries, NEW id \in lib
  PROVE  /\ Dotted(id) \in Texts /\ Len(id) \in Nat /\ Len(Dotted(id)) = Len(id) + 1
         /\ Dotted(id)[1] = Dot
         /\ \A k \in 1..Len(id) :
              Dotted(id)[k + 1] = IF id[k] = Underscore THEN Dot ELSE id[k]
<1> DEFINE n == Len(id)
           rest == [k \in 1..n |-> IF id[k] = Underscore THEN Dot ELSE id[k]]
           first == <<Dot>>
<1>1. id \in Seq(Nat \ {Dot})
  BY CharactersAssumption
<1>2. n \in Nat /\ \A k \in 1..n : id[k] \in Nat
  BY <1>1
<1>3. rest \in Seq(Nat) /\ Len(rest) = n
  BY <1>2 DEF Dot
<1>4. first \in Seq(Nat) /\ Len(first) = 1 /\ first[1] = Dot
  BY DEF Dot
<1>5. Dotted(id) = first \o rest
  BY DEF Dotted
<1>6. \A k \in 1..n : rest[k] = IF id[k] = Underscore THEN Dot ELSE id[k]
  OBVIOUS
<1> HIDE DEF rest, first
<1>7. /\ first \o rest \in Seq(Nat)
      /\ Len(first \o rest) = 1 + n
      /\ \A k \in 1..(1 + n) :
           (first \o rest)[k] = IF k <= 1 THEN first[k] ELSE rest[k - 1]
  <2>1. /\ first \o rest \in Seq(Nat)
        /\ Len(first \o rest) = Len(first) + Len(rest)
        /\ \A k \in 1..(Len(first) + Len(rest)) :
             (first \o rest)[k] = IF k <= Len(first) THEN first[k] ELSE rest[k - Len(first)]
    BY <1>3, <1>4, ConcatProperties, ZenonT(60)
  <2> HIDE DEF n
  <2>2. QED
    BY <1>3, <1>4, <2>1
<1> DEFINE D == first \o rest
<1> HIDE DEF D, n
<1>8. \A k \in 1..n : k + 1 \in 1..(1 + n) /\ ~(k + 1 <= 1) /\ (k + 1) - 1 = k
  BY <1>2
<1>9. \A k \in 1..n : D[k + 1] = rest[k]
  <2>1. \A k \in 1..n : D[k + 1] = rest[(k + 1) - 1]
    BY <1>7, <1>8 DEF D
  <2>2. QED
    BY <1>8, <2>1
<1>10. D[1] = Dot
  BY <1>2, <1>4, <1>7, SMTT(30) DEF D
<1>11. QED
  BY <1>2, <1>5, <1>6, <1>7, <1>9, <1>10, SMTT(30) DEF D, n, Texts

LEMMA DottedInjective ==
  ASSUME NEW lib \in Libraries, NEW id \in lib, NEW x \in lib, Dotted(id) = Dotted(x)
  PROVE  id = x
<1>1. id \in Seq(Nat \ {Dot}) /\ x \in Seq(Nat \ {Dot})
  BY CharactersAssumption
<1>2. Len(id) = Len(x) /\ Len(id) \in Nat
  <2>1. Len(Dotted(id)) = Len(id) + 1 /\ Len(id) \in Nat
    BY DottedText
  <2>2. Len(Dotted(x)) = Len(x) + 1 /\ Len(x) \in Nat
    BY DottedText
  <2>3. QED
    BY <2>1, <2>2
<1>3. ASSUME NEW k \in 1..Len(id) PROVE id[k] = x[k]
  <2>1. id[k] # Dot /\ x[k] # Dot
    BY <1>1, <1>2
  <2>2. Dotted(id)[k + 1] = IF id[k] = Underscore THEN Dot ELSE id[k]
    BY DottedText
  <2>3. Dotted(x)[k + 1] = IF x[k] = Underscore THEN Dot ELSE x[k]
    BY <1>2, DottedText
  <2>4. QED
    BY <2>1, <2>2, <2>3
<1>4. QED
  BY <1>1, <1>2, <1>3, SeqEqual

\* ik_compare is a strict order of the identifiers of a version, and total.
LEMMA CompareOrders ==
  ASSUME NEW lib \in Libraries
  PROVE  /\ \A x \in lib : ~ik_compare(x, x)
         /\ \A x, y, z \in lib : ik_compare(x, y) /\ ik_compare(y, z) => ik_compare(x, z)
         /\ \A x, y \in lib : x = y \/ ik_compare(x, y) \/ ik_compare(y, x)
<1>1. \A x \in lib : Dotted(x) \in Texts
  BY DottedText
<1>2. ASSUME NEW x \in lib, NEW y \in lib
      PROVE  ik_compare(x, y) <=> Precedes(Dotted(x), Dotted(y))
  BY <1>1, LessIsPrecedes DEF ik_compare
<1>3. ASSUME NEW x \in lib PROVE ~ik_compare(x, x)
  BY <1>1, <1>2, PrecedesIrreflexive
<1>4. ASSUME NEW x \in lib, NEW y \in lib, NEW z \in lib, ik_compare(x, y), ik_compare(y, z)
      PROVE  ik_compare(x, z)
  BY <1>1, <1>2, <1>4, PrecedesTransitive
<1>5. ASSUME NEW x \in lib, NEW y \in lib, x # y
      PROVE  ik_compare(x, y) \/ ik_compare(y, x)
  <2>1. Dotted(x) # Dotted(y)
    BY <1>5, DottedInjective
  <2>2. QED
    BY <1>1, <1>2, <2>1, PrecedesTotal
<1>6. QED
  BY <1>3, <1>4, <1>5

Earlier(lib, id) == {x \in lib : ik_compare(x, id)}
Rank(lib, id) == Cardinality(Earlier(lib, id))

LEMMA RankOrders ==
  ASSUME NEW lib \in Libraries, NEW id \in lib, NEW x \in lib, ik_compare(id, x)
  PROVE  Rank(lib, id) < Rank(lib, x)
<1>1. IsFiniteSet(Earlier(lib, x))
  BY NamesAssumption, FS_Subset DEF Earlier
<1>2. Earlier(lib, id) \subseteq Earlier(lib, x) /\ Earlier(lib, id) # Earlier(lib, x)
  <2>1. Earlier(lib, id) \subseteq Earlier(lib, x)
    BY CompareOrders DEF Earlier
  <2>2. id \in Earlier(lib, x) /\ id \notin Earlier(lib, id)
    BY CompareOrders DEF Earlier
  <2>3. QED
    BY <2>1, <2>2
<1>3. IsFiniteSet(Earlier(lib, id)) /\ Rank(lib, id) <= Rank(lib, x)
      /\ Rank(lib, id) # Rank(lib, x)
  BY <1>1, <1>2, FS_Subset DEF Rank
<1>4. Rank(lib, id) \in Nat /\ Rank(lib, x) \in Nat
  BY <1>1, <1>3, FS_CardinalityType DEF Rank
<1>5. QED
  BY <1>3, <1>4

LEMMA RankBound ==
  ASSUME NEW lib \in Libraries, NEW id \in lib
  PROVE  Rank(lib, id) \in 0..(Cardinality(lib) - 1)
<1>1. IsFiniteSet(lib) /\ Cardinality(lib) \in Nat
  BY NamesAssumption, FS_CardinalityType
<1>2. Earlier(lib, id) \in SUBSET lib /\ Earlier(lib, id) # lib
  BY CompareOrders DEF Earlier
<1>3. IsFiniteSet(Earlier(lib, id)) /\ Rank(lib, id) <= Cardinality(lib)
      /\ Rank(lib, id) # Cardinality(lib)
  BY <1>1, <1>2, FS_Subset DEF Rank
<1>4. Rank(lib, id) \in Nat
  BY <1>3, FS_CardinalityType DEF Rank
<1>5. QED
  BY <1>1, <1>3, <1>4

\* As many places as identifiers: every place is taken.
LEMMA RankTakesAll ==
  ASSUME NEW lib \in Libraries, NEW n \in 1..Cardinality(lib)
  PROVE  \E id \in lib : Rank(lib, id) = n - 1
<1> DEFINE N == Cardinality(lib)
           places == 0..(N - 1)
           f == [id \in lib |-> Rank(lib, id)]
<1>1. IsFiniteSet(lib) /\ N \in Nat
  BY NamesAssumption, FS_CardinalityType
<1>2. IsFiniteSet(places) /\ Cardinality(places) = N
  <2>1. /\ IsFiniteSet(places)
        /\ Cardinality(places) = IF 0 > N - 1 THEN 0 ELSE (N - 1) - 0 + 1
    <3>1. 0 \in Int /\ N - 1 \in Int
      BY <1>1
    <3> HIDE DEF N
    <3>2. QED
      BY <3>1, FS_Interval
  <2>2. QED
    BY <1>1, <2>1
<1>3. f \in [lib -> places]
  BY RankBound
<1>4. ASSUME NEW x \in lib, NEW y \in lib, f[x] = f[y] PROVE x = y
  <2> SUFFICES ASSUME x # y PROVE FALSE
    OBVIOUS
  <2>1. Rank(lib, x) = Rank(lib, y) /\ Rank(lib, x) \in Nat /\ Rank(lib, y) \in Nat
    BY <1>4, RankBound
  <2>2. ik_compare(x, y) \/ ik_compare(y, x)
    BY CompareOrders
  <2>3. Rank(lib, x) < Rank(lib, y) \/ Rank(lib, y) < Rank(lib, x)
    BY <2>2, RankOrders
  <2>4. QED
    BY <2>1, <2>3
<1>5. f \in Surjection(lib, places)
  <2> HIDE DEF f, places, N
  <2>1. f \in Injection(lib, places)
    BY <1>3, <1>4 DEF Injection, IsInjective
  <2>2. Cardinality(lib) = Cardinality(places)
    BY <1>2 DEF N
  <2>3. QED
    BY <1>2, <2>1, <2>2, FS_Injection
<1>6. n - 1 \in places
  BY <1>1
<1>7. \E id \in lib : f[id] = n - 1
  <2> HIDE DEF f, places
  <2>1. QED
    BY <1>5, <1>6 DEF Surjection
<1>8. QED
  BY <1>7

\* sorted(Intrinsics): ID_array has the identifiers of the version, each at its place,
\* and GenXIntrinsicNameTable has their names in order.
LEMMA IDArray ==
  ASSUME NEW lib \in Libraries
  PROVE  /\ \A n \in 1..Cardinality(lib) :
              ID_array[lib][n] \in lib /\ Rank(lib, ID_array[lib][n]) = n - 1
         /\ \A id \in lib : /\ Rank(lib, id) + 1 \in 1..Cardinality(lib)
                            /\ ID_array[lib][Rank(lib, id) + 1] = id
<1>1. ASSUME NEW n \in 1..Cardinality(lib)
      PROVE  ID_array[lib][n] \in lib /\ Rank(lib, ID_array[lib][n]) = n - 1
  <2>1. ID_array[lib][n] = CHOOSE id \in lib : Rank(lib, id) = n - 1
    BY DEF ID_array, Rank, Earlier
  <2>2. \E id \in lib : Rank(lib, id) = n - 1
    BY RankTakesAll
  <2>3. QED
    BY <2>1, <2>2
<1>2. ASSUME NEW id \in lib
      PROVE  /\ Rank(lib, id) + 1 \in 1..Cardinality(lib)
             /\ ID_array[lib][Rank(lib, id) + 1] = id
  <2> DEFINE r == Rank(lib, id)
             x == ID_array[lib][r + 1]
  <2>1. r \in Nat /\ r + 1 \in 1..Cardinality(lib) /\ (r + 1) - 1 = r
    <3>1. r \in 0..(Cardinality(lib) - 1) /\ Cardinality(lib) \in Nat
      BY RankBound, NamesAssumption, FS_CardinalityType
    <3> HIDE DEF r
    <3>2. QED
      BY <3>1
  <2>2. x \in lib /\ Rank(lib, x) = r
    <3>1. \A n \in 1..Cardinality(lib) :
            ID_array[lib][n] \in lib /\ Rank(lib, ID_array[lib][n]) = n - 1
      BY <1>1
    <3> HIDE DEF r
    <3>2. QED
      BY <2>1, <3>1
  <2> HIDE DEF x
  <2>3. ~ik_compare(x, id) /\ ~ik_compare(id, x)
    BY <2>1, <2>2, RankOrders
  <2>4. x = id
    BY <2>2, <2>3, CompareOrders
  <2>5. QED
    BY <2>1, <2>4 DEF x
<1>3. QED
  BY <1>1, <1>2

LEMMA TableOrdered ==
  ASSUME NEW lib \in Libraries, NEW n \in 1..Cardinality(lib), NEW m \in 1..Cardinality(lib),
         n < m
  PROVE  Precedes(GenXIntrinsicNameTable[lib][n], GenXIntrinsicNameTable[lib][m])
<1> DEFINE x == ID_array[lib][n]
           y == ID_array[lib][m]
<1>1. x \in lib /\ y \in lib /\ Rank(lib, x) = n - 1 /\ Rank(lib, y) = m - 1
  BY IDArray
<1>2. Cardinality(lib) \in Nat
  BY NamesAssumption, FS_CardinalityType
<1> HIDE DEF x, y
<1>3. ~ik_compare(y, x) /\ x # y
  <2>1. ~(m - 1 < n - 1) /\ n - 1 # m - 1
    BY <1>2
  <2>2. QED
    BY <1>1, <2>1, RankOrders
<1>4. ik_compare(x, y)
  BY <1>1, <1>3, CompareOrders
<1>5. Precedes(Dotted(x), Dotted(y))
  BY <1>1, <1>4, DottedText, LessIsPrecedes DEF ik_compare
<1>6. GenXIntrinsicNameTable[lib][n] = Dotted(x) /\ GenXIntrinsicNameTable[lib][m] = Dotted(y)
  BY DEF GenXIntrinsicNameTable, x, y
<1>7. QED
  BY <1>5, <1>6


-----------------------------------------------------------------------------
(***************************************************************************)
(* The search. A range of the table has the names that agree with the one  *)
(* that is looked up as far as the search has come; equal_range keeps it   *)
(* so, because the table is in order.                                      *)
(***************************************************************************)
LEMMA EarliestIs ==
  ASSUME NEW places, places \subseteq Nat, NEW high \in Nat
  PROVE  /\ Earliest(places, high) \in places \cup {high}
         /\ \A j \in places \cup {high} : Earliest(places, high) <= j
<1> DEFINE T == places \cup {high}
<1>1. T \subseteq Nat /\ T # {}
  OBVIOUS
<1>2. \E k \in T : \A j \in T : k <= j
  <2> HIDE DEF T
  <2>1. QED
    BY <1>1, LeastNumber
<1>3. QED
  BY <1>2 DEF Earliest

LEMMA ComponentEndIs ==
  ASSUME NEW Name \in Texts, NEW from \in Nat, from < Len(Name)
  PROVE  /\ ComponentEnd(Name, from) \in (from + 1)..Len(Name)
         /\ \A p \in (from + 2)..Len(Name) : Name[p] = Dot => ComponentEnd(Name, from) < p
<1>1. Len(Name) \in Nat
  BY DEF Texts
<1> DEFINE dots == {p \in (from + 2)..Len(Name) : Name[p] = Dot}
<1>2. CASE dots = {}
  BY <1>1, <1>2 DEF ComponentEnd
<1>3. CASE dots # {}
  <2> DEFINE d == CHOOSE p \in dots : \A q \in dots : p <= q
  <2>1. dots \subseteq Nat
    BY <1>1
  <2>2. \E p \in dots : \A q \in dots : p <= q
    <3> HIDE DEF dots
    <3>1. QED
      BY <1>3, <2>1, LeastNumber
  <2>3. d \in dots /\ \A q \in dots : d <= q
    <3> HIDE DEF dots
    <3>1. QED
      BY <2>2
  <2>4. ComponentEnd(Name, from) = d - 1
    BY <1>3 DEF ComponentEnd
  <2>5. d \in (from + 2)..Len(Name)
    BY <2>3
  <2>6. \A p \in (from + 2)..Len(Name) : Name[p] = Dot => d <= p
    BY <2>3
  <2> HIDE DEF d
  <2>7. QED
    BY <1>1, <2>4, <2>5, <2>6
<1>4. QED
  BY <1>2, <1>3

Ordered(T) ==
  /\ \A n \in 1..Len(T) : T[n] \in Texts
  /\ \A n, m \in 1..Len(T) : n < m => Precedes(T[n], T[m])

\* The names of the table that agree with Name up to end.
Agreeing(T, Name, end) == {k \in 1..Len(T) : Agree(T[k], Name, end)}

\* The range the search has come to.
RangeIs(T, Name, r) ==
  /\ r \in Ranges /\ 1 <= r.Low /\ r.Low <= r.High /\ r.High <= Len(T) + 1
  /\ Agreeing(T, Name, r.CmpEnd) = r.Low..(r.High - 1)

\* Within the range, PartLess is the order of the names up to the next dot.
LEMMA PartsOfRange ==
  ASSUME NEW T, Len(T) \in Nat, Ordered(T), NEW Name \in Texts,
         NEW from \in Nat, from <= Len(Name), NEW n \in Nat,
         NEW k \in Agreeing(T, Name, from)
  PROVE  /\ PartLess(T[k], Name, from, n) <=> Below(T[k], Name, from + n)
         /\ PartLess(Name, T[k], from, n) <=> Below(Name, T[k], from + n)
<1>1. T[k] \in Texts /\ Agree(T[k], Name, from)
  BY DEF Agreeing, Ordered
<1>2. Agree(Name, T[k], from)
  BY <1>1 DEF Agree
<1>3. from <= Len(T[k])
  <2>1. CASE from = 0
    BY <1>1, <2>1 DEF Texts
  <2>2. CASE from # 0
    <3>1. At(T[k], from) = At(Name, from) /\ At(Name, from) # -1
      BY <1>1, <2>2, AtType DEF Agree
    <3>2. QED
      BY <1>1, <2>2, <3>1, AtType
  <2>3. QED
    BY <2>1, <2>2
<1>4. QED
  BY <1>1, <1>2, <1>3, PartLessIsBelow

\* equal_range.
LEMMA NarrowedRange ==
  ASSUME NEW T, Len(T) \in Nat, Ordered(T), NEW Name \in Texts,
         NEW r, RangeIs(T, Name, r), r.CmpEnd < Len(Name),
         NEW z, z = Narrowed(T, Name, r)
  PROVE  /\ RangeIs(T, Name, z)
         /\ z.CmpEnd = ComponentEnd(Name, r.CmpEnd) /\ z.LastLow = r.Low
<1> DEFINE c == r.CmpEnd
           low == r.Low
           high == r.High
           next == ComponentEnd(Name, c)
           less(k)    == PartLess(T[k], Name, c, next - c)
           greater(k) == PartLess(Name, T[k], c, next - c)
           notless == {k \in low..(high - 1) : ~less(k)}
           first == Earliest(notless, high)
           beyond == {k \in first..(high - 1) : greater(k)}
           last == Earliest(beyond, high)
<1>1. /\ c \in Nat /\ low \in Nat /\ high \in Nat /\ 1 <= low /\ low <= high
      /\ high <= Len(T) + 1 /\ Agreeing(T, Name, c) = low..(high - 1)
  BY DEF RangeIs, Ranges
<1>2. z = [CmpEnd |-> next, Low |-> first, High |-> last, LastLow |-> low]
  BY DEF Narrowed
<1>3. next \in (c + 1)..Len(Name) /\ next \in Nat /\ next - c \in Nat /\ c + (next - c) = next
  <2>1. next \in (c + 1)..Len(Name) /\ Len(Name) \in Nat
    BY <1>1, ComponentEndIs, SMTT(30) DEF Texts
  <2> HIDE DEF next, c
  <2>2. QED
    BY <1>1, <2>1
<1>4. first \in notless \cup {high} /\ \A j \in notless \cup {high} : first <= j
  <2>1. notless \subseteq Nat
    BY <1>1
  <2> HIDE DEF notless
  <2>2. QED
    BY <1>1, <2>1, EarliestIs
<1>5. first \in low..high
  <2> HIDE DEF first, less
  <2>1. QED
    BY <1>1, <1>4
<1>6. last \in beyond \cup {high} /\ \A j \in beyond \cup {high} : last <= j
  <2>1. beyond \subseteq Nat
    <3> HIDE DEF first, greater
    <3>1. QED
      BY <1>1, <1>5
  <2> HIDE DEF beyond
  <2>2. QED
    BY <1>1, <2>1, EarliestIs
<1>7. last \in first..high
  <2> HIDE DEF first, last, greater
  <2>1. QED
    BY <1>1, <1>5, <1>6
<1>8. ASSUME NEW k \in low..(high - 1)
      PROVE  /\ k \in 1..Len(T) /\ T[k] \in Texts
             /\ less(k) <=> Below(T[k], Name, next)
             /\ greater(k) <=> Below(Name, T[k], next)
  <2>1. k \in Agreeing(T, Name, c)
    BY <1>1
  <2>2. k \in 1..Len(T) /\ T[k] \in Texts
    BY <2>1 DEF Agreeing, Ordered
  <2> DEFINE n == next - c
  <2>3. n \in Nat /\ c + n = next /\ c <= Len(Name)
    BY <1>1, <1>3
  <2>4. /\ PartLess(T[k], Name, c, n) <=> Below(T[k], Name, c + n)
        /\ PartLess(Name, T[k], c, n) <=> Below(Name, T[k], c + n)
    <3> HIDE DEF n, c
    <3>1. QED
      BY <1>1, <2>1, <2>3, PartsOfRange
  <2>5. QED
    BY <2>2, <2>3, <2>4
<1> HIDE DEF less, greater, next, c, low, high
<1>9. ASSUME NEW k \in low..(high - 1), NEW l \in low..(high - 1), k < l
      PROVE  (less(l) => less(k)) /\ (greater(k) => greater(l))
  <2>1. Precedes(T[k], T[l])
    BY <1>8, <1>9 DEF Ordered
  <2>2. less(l) => less(k)
    BY <1>3, <1>8, <2>1, PrecedesBelow
  <2>3. greater(k) => greater(l)
    BY <1>3, <1>8, <2>1, BelowPrecedes
  <2>4. QED
    BY <2>2, <2>3
<1>10. ASSUME NEW k \in low..(high - 1)
       PROVE  (~less(k) /\ ~greater(k)) <=> k \in first..(last - 1)
  <2>0. k \in Int /\ first \in Int /\ last \in Int /\ low \in Int /\ high \in Int
        /\ low <= k /\ k < high
    BY <1>1, <1>5, <1>7
  <2>1. ASSUME ~less(k), ~greater(k) PROVE k \in first..(last - 1)
    <3>1. first <= k
      BY <1>4, <2>1
    <3>2. ASSUME last <= k PROVE FALSE
      <4>1. last # high
        BY <2>0, <3>2
      <4>2. last \in beyond
        BY <1>6, <4>1
      <4>3. greater(last) /\ last \in low..(high - 1)
        <5>1. greater(last) /\ last \in first..(high - 1)
          BY <4>2
        <5> HIDE DEF first, last
        <5>2. QED
          BY <1>5, <2>0, <5>1
      <4> HIDE DEF last
      <4>4. CASE last = k
        BY <2>1, <4>3, <4>4
      <4>5. CASE last # k
        <5>1. last < k
          BY <2>0, <3>2, <4>5
        <5>2. QED
          BY <1>9, <2>1, <4>3, <5>1
      <4>6. QED
        BY <4>4, <4>5
    <3> HIDE DEF first, last
    <3>3. QED
      BY <2>0, <3>1, <3>2
  <2>2. ASSUME k \in first..(last - 1) PROVE ~less(k) /\ ~greater(k)
    <3>1. first <= k /\ k < last
      <4> HIDE DEF first, last
      <4>1. QED
        BY <2>0, <2>2
    <3>2. first \in notless
      <4>1. first # high
        BY <2>0, <3>1
      <4>2. QED
        BY <1>4, <4>1
    <3>3. ~less(first) /\ first \in low..(high - 1)
      BY <3>2
    <3>4. ~less(k)
      <4> HIDE DEF first
      <4>1. CASE first = k
        BY <3>3, <4>1
      <4>2. CASE first # k
        <5>1. first < k
          BY <2>0, <3>1, <4>2
        <5>2. QED
          BY <1>9, <3>3, <5>1
      <4>3. QED
        BY <4>1, <4>2
    <3>5. k \notin beyond
      <4> HIDE DEF beyond
      <4>1. ~(last <= k)
        <5> HIDE DEF last
        <5>1. QED
          BY <2>0, <3>1
      <4>2. QED
        BY <1>6, <4>1
    <3>6. k \in first..(high - 1)
      <4> HIDE DEF first
      <4>1. QED
        BY <2>0, <3>1
    <3>7. QED
      BY <3>4, <3>5, <3>6
  <2>3. QED
    BY <2>1, <2>2
<1> HIDE DEF first, last, notless, beyond
<1>11. Agreeing(T, Name, next) = first..(last - 1)
  <2>1. ASSUME NEW k \in 1..Len(T)
        PROVE  Agree(T[k], Name, next) => k \in low..(high - 1)
    <3>1. Agree(T[k], Name, next) => Agree(T[k], Name, c)
      BY <1>1, <1>3 DEF Agree
    <3>2. QED
      BY <1>1, <3>1 DEF Agreeing, c, low, high
  <2>2. ASSUME NEW k \in low..(high - 1)
        PROVE  Agree(T[k], Name, next) <=> k \in first..(last - 1)
    BY <1>3, <1>8, <1>10, NeitherBelow
  <2>3. first..(last - 1) \subseteq low..(high - 1)
    BY <1>1, <1>5, <1>7
  <2>4. low..(high - 1) \subseteq 1..Len(T)
    BY <1>8
  <2>5. QED
    BY <2>1, <2>2, <2>3, <2>4 DEF Agreeing
<1>12. /\ z.CmpEnd = next /\ z.Low = first /\ z.High = last /\ z.LastLow = low
       /\ first \in Nat /\ last \in Nat
  BY <1>1, <1>2, <1>5, <1>7
<1>13. z \in Ranges
  BY <1>1, <1>2, <1>3, <1>12 DEF Ranges
<1>14. 1 <= first /\ first <= last /\ last <= Len(T) + 1
  BY <1>1, <1>5, <1>7
<1>15. QED
  BY <1>11, <1>12, <1>13, <1>14 DEF RangeIs, next, low, c


\* The steps that are left before the name is at its end.
StepsLeft(Name, r) == IF r.CmpEnd < Len(Name) THEN Len(Name) - r.CmpEnd ELSE 0
Finished(Name, r) == r.CmpEnd >= Len(Name) \/ r.High <= r.Low
Outcome(r) == IF r.High > r.Low THEN r.Low ELSE r.LastLow

SearchFollows(T, Name, search) ==
  search = [r \in Ranges |-> IF Finished(Name, r) THEN Outcome(r)
                                                 ELSE search[Narrowed(T, Name, r)]]

Whole(T) == [CmpEnd |-> 0, Low |-> 1, High |-> Len(T) + 1, LastLow |-> 1]

\* equal_range goes on in the name, whatever the table.
LEMMA NarrowedGoesOn ==
  ASSUME NEW T, NEW Name \in Texts, NEW r \in Ranges, ~Finished(Name, r)
  PROVE  /\ Narrowed(T, Name, r) \in Ranges
         /\ Narrowed(T, Name, r).CmpEnd = ComponentEnd(Name, r.CmpEnd)
         /\ StepsLeft(Name, Narrowed(T, Name, r)) < StepsLeft(Name, r)
<1> DEFINE c == r.CmpEnd
           next == ComponentEnd(Name, c)
           less(k)    == PartLess(T[k], Name, c, next - c)
           greater(k) == PartLess(Name, T[k], c, next - c)
           notless == {k \in r.Low..(r.High - 1) : ~less(k)}
           first == Earliest(notless, r.High)
           beyond == {k \in first..(r.High - 1) : greater(k)}
           last == Earliest(beyond, r.High)
           z == Narrowed(T, Name, r)
<1>1. c \in Nat /\ r.Low \in Nat /\ r.High \in Nat /\ Len(Name) \in Nat /\ c < Len(Name)
  BY DEF Ranges, Finished, Texts
<1>2. z = [CmpEnd |-> next, Low |-> first, High |-> last, LastLow |-> r.Low]
  BY DEF Narrowed
<1>3. next \in (c + 1)..Len(Name) /\ next \in Nat
  <2>1. next \in (c + 1)..Len(Name)
    BY <1>1, ComponentEndIs
  <2> HIDE DEF next, c
  <2>2. QED
    BY <1>1, <2>1
<1> HIDE DEF less, greater
<1>4. first \in Nat
  <2>1. notless \subseteq Nat
    BY <1>1
  <2> HIDE DEF notless
  <2>2. first \in notless \cup {r.High}
    BY <1>1, <2>1, EarliestIs
  <2>3. QED
    BY <1>1, <2>1, <2>2
<1> HIDE DEF first
<1>5. last \in Nat
  <2>1. beyond \subseteq Nat
    BY <1>1, <1>4
  <2> HIDE DEF beyond
  <2>2. last \in beyond \cup {r.High}
    BY <1>1, <2>1, EarliestIs
  <2>3. QED
    BY <1>1, <2>1, <2>2
<1> HIDE DEF last, next, z
<1>6. z \in Ranges /\ z.CmpEnd = next
  BY <1>1, <1>2, <1>3, <1>4, <1>5 DEF Ranges
<1>7. StepsLeft(Name, z) < StepsLeft(Name, r)
  <2>1. StepsLeft(Name, r) = Len(Name) - c
    BY <1>1 DEF StepsLeft, c
  <2>2. StepsLeft(Name, z) = IF next < Len(Name) THEN Len(Name) - next ELSE 0
    BY <1>6 DEF StepsLeft
  <2> HIDE DEF c
  <2>3. QED
    BY <1>1, <1>3, <2>1, <2>2
<1>8. QED
  BY <1>6, <1>7 DEF z, next, c

\* The search of FindName is a function: every step goes on in the name.
LEMMA SearchExists ==
  ASSUME NEW T, NEW Name \in Texts
  PROVE  \E search : /\ SearchFollows(T, Name, search)
                     /\ FindName(T, Name) = search[Whole(T)]
<1> DEFINE done == {r \in Ranges : Finished(Name, r)}
           end == [r \in Ranges |-> Outcome(r)]
           next == [r \in Ranges |-> Narrowed(T, Name, r)]
           step == [z \in Ranges \X Nat |-> z[2]]
           m == [r \in Ranges |-> StepsLeft(Name, r)]
<1>1. end \in [Ranges -> Nat]
  BY DEF Ranges, Outcome
<1>2. step \in [Ranges \X Nat -> Nat]
  OBVIOUS
<1>3. m \in [Ranges -> Nat]
  BY DEF Ranges, StepsLeft, Texts
<1>4. Nearer(Ranges, done, next, m)
  <2> SUFFICES ASSUME NEW r \in Ranges \ done PROVE next[r] \in Ranges /\ m[next[r]] < m[r]
    BY DEF Nearer
  <2>1. r \in Ranges /\ ~Finished(Name, r)
    OBVIOUS
  <2>2. QED
    BY <2>1, NarrowedGoesOn
<1>5. PICK f \in [Ranges -> Nat] : Recursive(f, Ranges, done, end, next, step)
  <2> DEFINE X == Ranges
             V == Nat
  <2> HIDE DEF done, end, next, step, m, X, V
  <2>1. /\ end \in [X -> V] /\ step \in [X \X V -> V] /\ m \in [X -> Nat]
        /\ Nearer(X, done, next, m)
    BY <1>1, <1>2, <1>3, <1>4 DEF X, V
  <2>2. \E f \in [X -> V] : Recursive(f, X, done, end, next, step)
    BY <2>1, RecursionExists
  <2>3. QED
    BY <2>2 DEF X, V
<1>6. SearchFollows(T, Name, f)
  <2>1. ASSUME NEW r \in Ranges
        PROVE  (IF r \in done THEN end[r] ELSE step[<<r, f[next[r]]>>])
               = IF Finished(Name, r) THEN Outcome(r) ELSE f[Narrowed(T, Name, r)]
    <3>1. CASE Finished(Name, r)
      BY <3>1
    <3>2. CASE ~Finished(Name, r)
      <4>1. Narrowed(T, Name, r) \in Ranges
        BY <3>2, NarrowedGoesOn
      <4>2. f[next[r]] \in Nat /\ r \notin done
        BY <3>2, <4>1
      <4>3. step[<<r, f[next[r]]>>] = f[next[r]]
        BY <4>2
      <4>4. QED
        BY <3>2, <4>2, <4>3
    <3>3. QED
      BY <3>1, <3>2
  <2> HIDE DEF done, end, step, next
  <2>2. QED
    BY <1>5, <2>1 DEF Recursive, SearchFollows
<1> DEFINE P(g) == SearchFollows(T, Name, g)
           h == CHOOSE g : P(g)
<1>7. FindName(T, Name) = h[Whole(T)]
  BY DEF FindName, SearchFollows, Finished, Outcome, Whole
<1>8. P(h)
  <2>1. P(f)
    BY <1>6
  <2> HIDE DEF P
  <2>2. QED
    BY <2>1
<1>9. QED
  BY <1>7, <1>8

-----------------------------------------------------------------------------
(***************************************************************************)
(* What the search finds. As far as the name of the intrinsic the range    *)
(* has that name; at its end it begins with it, since what a name begins   *)
(* comes after it. No name goes on with the types, so the next range is    *)
(* empty and LastLow is the intrinsic.                                     *)
(***************************************************************************)
LEMMA NameText ==
  ASSUME NEW lib \in Libraries, NEW id \in lib, NEW Tys \in Types(id),
         NEW Name, Name = getGenXName(id, Tys)
  PROVE  LET D == Dotted(id)
         IN  /\ Name \in Texts /\ Len(Tys) \in Nat /\ Len(Name) = Len(D) + Len(Tys)
             /\ Len(Name) \in Nat /\ Len(D) \in Nat
             /\ Agree(D, Name, Len(D))
             /\ Len(Name) = Len(D) => Name = D
             /\ Len(Name) # Len(D) => /\ Name[Len(D) + 1] = Dot
                                      /\ id \in Overloaded /\ Tys \in Suffixes
<1> DEFINE D == Dotted(id)
<1>1. D \in Texts /\ Len(D) \in Nat
  BY DottedText DEF Texts
<1>2. Tys = <<>> \/ (id \in Overloaded /\ Tys \in Suffixes /\ Tys # <<>> /\ Tys[1] = Dot)
  BY CharactersAssumption DEF Types
<1>3. Tys \in Seq(Nat) /\ Len(Tys) \in Nat
  <2>1. \A s \in Suffixes : s \in Seq(Nat)
    BY CharactersAssumption
  <2>2. <<>> \in Seq(Nat)
    OBVIOUS
  <2>3. Tys \in Seq(Nat)
    BY <1>2, <2>1, <2>2
  <2>4. QED
    BY <2>3, LenProperties
<1> HIDE DEF D
<1>4. /\ D \o Tys \in Seq(Nat) /\ Len(D \o Tys) = Len(D) + Len(Tys)
      /\ \A k \in 1..(Len(D) + Len(Tys)) :
           (D \o Tys)[k] = IF k <= Len(D) THEN D[k] ELSE Tys[k - Len(D)]
  BY <1>1, <1>3, ConcatProperties DEF Texts
<1>5. Name = D \o Tys
  BY DEF getGenXName, D
<1>6. \A k \in 1..(Len(D) + Len(Tys)) :
        Name[k] = IF k <= Len(D) THEN D[k] ELSE Tys[k - Len(D)]
  BY <1>4, <1>5
<1>7. Name \in Texts /\ Len(Name) = Len(D) + Len(Tys) /\ Len(Name) \in Nat
  BY <1>1, <1>3, <1>4, <1>5 DEF Texts
<1>8. Agree(D, Name, Len(D))
  <2> SUFFICES ASSUME NEW k \in 1..Len(D) PROVE At(D, k) = At(Name, k)
    BY DEF Agree
  <2>1. k <= Len(D) /\ k <= Len(Name) /\ k \in 1..(Len(D) + Len(Tys))
    BY <1>1, <1>3, <1>7
  <2>2. QED
    BY <1>6, <2>1 DEF At
<1>9. CASE Tys = <<>>
  <2>1. Len(Tys) = 0
    BY <1>9
  <2>2. Name = D
    <3>1. Len(Name) = Len(D) /\ \A k \in 1..Len(Name) : Name[k] = D[k]
      BY <1>1, <1>6, <1>7, <2>1
    <3>2. QED
      BY <1>1, <1>7, <3>1, SeqEqual DEF Texts
  <2>3. QED
    BY <1>1, <1>3, <1>7, <1>8, <2>1, <2>2 DEF D
<1>10. CASE Tys # <<>>
  <2>1. Len(Tys) >= 1
    BY <1>3, <1>10
  <2>2. Len(D) + 1 \in 1..(Len(D) + Len(Tys)) /\ ~(Len(D) + 1 <= Len(D))
        /\ (Len(D) + 1) - Len(D) = 1
    BY <1>1, <1>3, <2>1
  <2>3. Name[Len(D) + 1] = Dot
    BY <1>2, <1>6, <1>10, <2>2
  <2>4. Len(Name) # Len(D)
    BY <1>1, <1>3, <1>7, <2>1
  <2>5. QED
    BY <1>1, <1>2, <1>3, <1>7, <1>8, <1>10, <2>3, <2>4 DEF D
<1>11. QED
  BY <1>9, <1>10

\* A string that agrees with another up to some place has its beginning.
LEMMA AgreeIsPrefix ==
  ASSUME NEW s \in Texts, NEW t \in Texts, NEW end \in Nat, end <= Len(s), Agree(t, s, end)
  PROVE  IsPrefix(SubSeq(s, 1, end), t)
<1>1. Len(s) \in Nat /\ Len(t) \in Nat /\ (\A k \in 1..Len(s) : s[k] \in Nat)
      /\ \A k \in 1..Len(t) : t[k] \in Nat
  BY SMTT(30) DEF Texts
<1>2. ASSUME NEW k \in 1..end PROVE k <= Len(t) /\ t[k] = s[k]
  <2>1. k \in Nat \ {0} /\ k <= Len(s) /\ At(t, k) = At(s, k)
    BY <1>1 DEF Agree
  <2>2. At(s, k) = s[k] /\ At(s, k) # -1
    BY <2>1, AtType
  <2>3. k <= Len(t) /\ At(t, k) = t[k]
    BY <2>1, <2>2, AtType
  <2>4. QED
    BY <2>1, <2>2, <2>3
<1>3. end <= Len(t)
  <2>1. CASE end = 0
    BY <1>1, <2>1
  <2>2. CASE end # 0
    <3>1. end \in 1..end
      BY <2>2
    <3>2. QED
      BY <1>2, <3>1
  <2>3. QED
    BY <2>1, <2>2
<1> DEFINE ps == SubSeq(s, 1, end)
           pt == SubSeq(t, 1, end)
<1>4. ps \in Seq(Nat) /\ Len(ps) = end /\ \A k \in 1..end : ps[k] = s[k]
  BY <1>1
<1>5. pt \in Seq(Nat) /\ Len(pt) = end /\ \A k \in 1..end : pt[k] = t[k]
  BY <1>1, <1>3
<1> HIDE DEF ps, pt
<1>6. ps = pt
  <2>1. Len(ps) = Len(pt) /\ \A k \in 1..Len(ps) : ps[k] = pt[k]
    BY <1>2, <1>4, <1>5
  <2>2. QED
    BY <1>4, <1>5, <2>1, SeqEqual
<1>7. Len(ps) <= Len(t) /\ SubSeq(t, 1, Len(ps)) = ps
  BY <1>3, <1>4, <1>6 DEF pt
<1>8. QED
  BY <1>7 DEF IsPrefix, ps

LEMMA TableLength ==
  ASSUME NEW lib \in Libraries
  PROVE  Len(GenXIntrinsicNameTable[lib]) = Cardinality(lib) /\ Cardinality(lib) \in Nat
<1>1. Cardinality(lib) \in Nat
  BY NamesAssumption, FS_CardinalityType
<1>2. GenXIntrinsicNameTable[lib] = [n \in 1..Cardinality(lib) |-> Dotted(ID_array[lib][n])]
  BY DEF GenXIntrinsicNameTable
<1>3. QED
  BY <1>1, <1>2

LEMMA TableTexts ==
  ASSUME NEW lib \in Libraries
  PROVE  LET T == GenXIntrinsicNameTable[lib]
         IN  /\ Len(T) = Cardinality(lib) /\ Len(T) \in Nat /\ Ordered(T)
             /\ \A n \in 1..Len(T) : ID_array[lib][n] \in lib /\ T[n] = Dotted(ID_array[lib][n])
<1> DEFINE T == GenXIntrinsicNameTable[lib]
<1>1. Len(T) = Cardinality(lib) /\ Cardinality(lib) \in Nat
  BY TableLength
<1>2. ASSUME NEW n \in 1..Cardinality(lib)
      PROVE  ID_array[lib][n] \in lib /\ T[n] = Dotted(ID_array[lib][n]) /\ T[n] \in Texts
  <2>1. ID_array[lib][n] \in lib
    BY IDArray
  <2>2. T[n] = Dotted(ID_array[lib][n])
    BY DEF GenXIntrinsicNameTable
  <2>3. QED
    BY <2>1, <2>2, DottedText
<1>3. \A n, m \in 1..Cardinality(lib) : n < m => Precedes(T[n], T[m])
  BY TableOrdered
<1> HIDE DEF T
<1>4. QED
  BY <1>1, <1>2, <1>3 DEF Ordered, T

\* The search for the name of a declaration of an intrinsic finds its place.
LEMMA SearchFinds ==
  ASSUME NEW lib \in Libraries, NEW id \in lib, NEW Tys \in Types(id)
  PROVE  FindName(GenXIntrinsicNameTable[lib], getGenXName(id, Tys)) = Rank(lib, id) + 1
<1> DEFINE T == GenXIntrinsicNameTable[lib]
           D == Dotted(id)
           Name == getGenXName(id, Tys)
           n0 == Rank(lib, id) + 1
           Known(r) == r.CmpEnd <= Len(D) /\ RangeIs(T, Name, r)
           Over(r) == r.CmpEnd > Len(D) /\ r.High <= r.Low /\ r.LastLow = n0
           Inv(r) == Known(r) \/ Over(r)
<1>1. /\ Len(T) \in Nat /\ Ordered(T)
      /\ \A n \in 1..Len(T) : ID_array[lib][n] \in lib /\ T[n] = Dotted(ID_array[lib][n])
  BY TableTexts
<1>2. n0 \in 1..Len(T) /\ T[n0] = D
  <2>1. n0 \in 1..Cardinality(lib) /\ ID_array[lib][n0] = id
    BY IDArray
  <2>2. Len(T) = Cardinality(lib)
    BY TableTexts
  <2> HIDE DEF n0, T
  <2>3. QED
    BY <1>1, <2>1, <2>2
<1>3. /\ Name \in Texts /\ Len(Name) \in Nat /\ Len(D) \in Nat /\ Len(D) <= Len(Name)
      /\ Agree(D, Name, Len(D))
      /\ Len(Name) # Len(D) => /\ Name[Len(D) + 1] = Dot
                               /\ id \in Overloaded /\ Tys \in Suffixes
  <2>1. /\ Name \in Texts /\ Len(Tys) \in Nat /\ Len(Name) = Len(D) + Len(Tys)
        /\ Len(Name) \in Nat /\ Len(D) \in Nat
        /\ Agree(D, Name, Len(D))
        /\ Len(Name) # Len(D) => /\ Name[Len(D) + 1] = Dot
                                 /\ id \in Overloaded /\ Tys \in Suffixes
    BY NameText
  <2> HIDE DEF Name, D
  <2>2. QED
    BY <2>1
<1>4. D \in Texts
  BY DottedText
<1>5. ASSUME NEW x \in lib, NEW end \in Nat, id \in Overloaded, Tys \in Suffixes,
             end = ComponentEnd(Name, Len(D)), end <= Len(Name)
      PROVE  ~Agree(Dotted(x), Name, end)
  <2>1. ~IsPrefix(SubSeq(Name, 1, end), Dotted(x))
    <3>1. id \in lib \cap Overloaded
      BY <1>5
    <3>2. Name = Dotted(id) \o Tys
      BY DEF getGenXName
    <3>3. ~IsPrefix(SubSeq(Dotted(id) \o Tys, 1, ComponentEnd(Dotted(id) \o Tys, Len(Dotted(id)))),
                    Dotted(x))
      BY <1>5, <3>1, TypesAssumption
    <3>4. QED
      BY <1>5, <3>2, <3>3
  <2>2. Dotted(x) \in Texts
    BY DottedText
  <2> HIDE DEF Name
  <2>3. QED
    BY <1>3, <1>5, <2>1, <2>2, AgreeIsPrefix
<1> HIDE DEF T, D, Name, n0
<1>6. ASSUME NEW r, Known(r)
      PROVE  n0 \in r.Low..(r.High - 1) /\ r.CmpEnd \in Nat /\ r.Low \in Nat /\ r.High \in Nat
  <2>1. r.CmpEnd \in Nat /\ r.CmpEnd <= Len(D) /\ r.Low \in Nat /\ r.High \in Nat
    BY <1>6 DEF RangeIs, Ranges
  <2>2. Agree(T[n0], Name, r.CmpEnd)
    <3>1. \A k \in 1..r.CmpEnd : k \in 1..Len(D)
      BY <1>3, <2>1
    <3>2. QED
      BY <1>2, <1>3, <3>1 DEF Agree
  <2>3. n0 \in Agreeing(T, Name, r.CmpEnd)
    BY <1>2, <2>2 DEF Agreeing
  <2>4. QED
    BY <1>6, <2>1, <2>3 DEF RangeIs
<1>7. ASSUME NEW r, Known(r), r.CmpEnd = Len(D) PROVE r.Low = n0
  <2>1. n0 \in r.Low..(r.High - 1) /\ r.Low \in Nat /\ r.High \in Nat
    BY <1>6, <1>7
  <2>2. r.Low \in r.Low..(r.High - 1)
    BY <2>1
  <2>3. r.Low \in Agreeing(T, Name, Len(D))
    BY <1>7, <2>2 DEF RangeIs
  <2>4. r.Low \in 1..Len(T) /\ Agree(T[r.Low], Name, Len(D)) /\ T[r.Low] \in Texts
    BY <1>1, <2>3 DEF Agreeing, Ordered
  <2>5. ASSUME r.Low < n0 PROVE FALSE
    <3>1. Precedes(T[r.Low], D)
      BY <1>1, <1>2, <2>4, <2>5 DEF Ordered
    <3>2. PICK k \in Nat \ {0} : DiffersAt(T[r.Low], D, k)
      BY <3>1 DEF Precedes
    <3>3. At(T[r.Low], k) < At(D, k) /\ At(T[r.Low], k) >= -1
          /\ At(T[r.Low], k) \in Int /\ At(D, k) \in Int
      BY <1>4, <2>4, <3>2, AtType DEF DiffersAt
    <3>4. At(D, k) # -1
      BY <3>3
    <3>5. k <= Len(D)
      BY <1>4, <3>4, AtType
    <3>6. k \in 1..Len(D)
      BY <1>3, <3>5
    <3>7. At(T[r.Low], k) = At(D, k)
      BY <1>3, <2>4, <3>6 DEF Agree
    <3>8. QED
      BY <3>3, <3>7
  <2>6. QED
    BY <1>2, <2>1, <2>5
<1>8. ASSUME NEW r \in Ranges, Known(r), r.CmpEnd < Len(D),
             NEW z, z = Narrowed(T, Name, r)
      PROVE  Known(z)
  <2>1. r.CmpEnd \in Nat /\ r.CmpEnd < Len(Name)
    BY <1>3, <1>8 DEF Ranges
  <2>2. RangeIs(T, Name, z) /\ z.CmpEnd = ComponentEnd(Name, r.CmpEnd)
    BY <1>1, <1>3, <1>8, <2>1, NarrowedRange
  <2>3. /\ ComponentEnd(Name, r.CmpEnd) \in (r.CmpEnd + 1)..Len(Name)
        /\ \A p \in (r.CmpEnd + 2)..Len(Name) : Name[p] = Dot
             => ComponentEnd(Name, r.CmpEnd) < p
    BY <1>3, <2>1, ComponentEndIs
  <2>4. ComponentEnd(Name, r.CmpEnd) <= Len(D)
    <3>1. CASE Len(Name) = Len(D)
      BY <1>3, <2>1, <2>3, <3>1
    <3>2. CASE Len(Name) # Len(D)
      <4>1. Len(D) + 1 \in (r.CmpEnd + 2)..Len(Name)
        BY <1>3, <1>8, <2>1, <3>2
      <4>2. ComponentEnd(Name, r.CmpEnd) < Len(D) + 1
        BY <1>3, <2>3, <3>2, <4>1
      <4>3. QED
        BY <1>3, <2>1, <2>3, <4>2
    <3>3. QED
      BY <3>1, <3>2
  <2>5. QED
    BY <2>2, <2>4
<1>9. ASSUME NEW r \in Ranges, Known(r), r.CmpEnd = Len(D), Len(Name) # Len(D),
             NEW z, z = Narrowed(T, Name, r)
      PROVE  Over(z)
  <2>1. r.CmpEnd \in Nat /\ r.CmpEnd < Len(Name)
    BY <1>3, <1>9 DEF Ranges
  <2>2. RangeIs(T, Name, z) /\ z.CmpEnd = ComponentEnd(Name, r.CmpEnd) /\ z.LastLow = r.Low
    BY <1>1, <1>3, <1>9, <2>1, NarrowedRange
  <2>3. ComponentEnd(Name, r.CmpEnd) \in (r.CmpEnd + 1)..Len(Name)
    BY <1>3, <2>1, ComponentEndIs
  <2>4. z.CmpEnd \in Nat /\ z.CmpEnd > Len(D) /\ z.CmpEnd <= Len(Name)
        /\ z.CmpEnd = ComponentEnd(Name, Len(D))
    BY <1>3, <1>9, <2>1, <2>2, <2>3
  <2>5. Agreeing(T, Name, z.CmpEnd) = {}
    BY <1>1, <1>3, <1>5, <1>9, <2>4 DEF Agreeing
  <2>6. z.High <= z.Low
    <3>1. z.Low \in Nat /\ z.High \in Nat /\ z.Low..(z.High - 1) = {}
      BY <2>2, <2>5 DEF RangeIs, Ranges
    <3>2. ~(z.Low \in z.Low..(z.High - 1))
      BY <3>1
    <3>3. QED
      BY <3>1, <3>2
  <2>7. z.LastLow = n0
    BY <1>7, <1>9, <2>2
  <2>8. QED
    BY <2>4, <2>6, <2>7
<1>10. PICK search : /\ SearchFollows(T, Name, search)
                     /\ FindName(T, Name) = search[Whole(T)]
  BY <1>3, SearchExists
<1>11. ASSUME NEW r \in Ranges
       PROVE  search[r] = IF Finished(Name, r) THEN Outcome(r)
                                               ELSE search[Narrowed(T, Name, r)]
  BY <1>10 DEF SearchFollows
<1>12. ASSUME NEW r \in Ranges, Inv(r)
       PROVE  \/ Finished(Name, r) /\ Outcome(r) = n0
              \/ ~Finished(Name, r) /\ Inv(Narrowed(T, Name, r))
  <2>1. r.CmpEnd \in Nat /\ r.Low \in Nat /\ r.High \in Nat
    BY DEF Ranges
  <2>2. CASE Over(r)
    BY <2>1, <2>2 DEF Finished, Outcome
  <2>3. CASE Known(r)
    <3>1. r.Low < r.High /\ r.CmpEnd <= Len(D)
      BY <1>2, <1>6, <2>1, <2>3
    <3>2. CASE r.CmpEnd = Len(D) /\ Len(Name) = Len(D)
      <4>1. Finished(Name, r) /\ Outcome(r) = r.Low
        BY <1>3, <2>1, <3>1, <3>2 DEF Finished, Outcome
      <4>2. QED
        BY <1>7, <2>3, <3>2, <4>1
    <3>3. CASE r.CmpEnd = Len(D) /\ Len(Name) # Len(D)
      <4>1. ~Finished(Name, r)
        BY <1>3, <2>1, <3>1, <3>3 DEF Finished
      <4> HIDE DEF Known, Over
      <4>2. QED
        BY <1>9, <2>3, <3>3, <4>1
    <3>4. CASE r.CmpEnd < Len(D)
      <4>1. ~Finished(Name, r)
        BY <1>3, <2>1, <3>1, <3>4 DEF Finished
      <4> HIDE DEF Known, Over
      <4>2. QED
        BY <1>8, <2>3, <3>4, <4>1
    <3>5. QED
      BY <1>3, <2>1, <3>1, <3>2, <3>3, <3>4
  <2>4. QED
    BY <1>12, <2>2, <2>3
<1> DEFINE P == {n \in Nat : \A r \in Ranges : Inv(r) /\ StepsLeft(Name, r) < n => search[r] = n0}
<1> HIDE DEF Inv
<1>13. ASSUME NEW r \in Ranges PROVE StepsLeft(Name, r) \in Nat
  BY <1>3 DEF StepsLeft, Ranges
<1>14. 0 \in P
  BY <1>13
<1>15. ASSUME NEW n \in Nat, n \in P PROVE n + 1 \in P
  <2> SUFFICES ASSUME NEW r \in Ranges, Inv(r), StepsLeft(Name, r) < n + 1
               PROVE  search[r] = n0
    OBVIOUS
  <2>1. CASE Finished(Name, r)
    BY <1>11, <1>12, <2>1
  <2>2. CASE ~Finished(Name, r)
    <3> DEFINE z == Narrowed(T, Name, r)
    <3>1. z \in Ranges /\ StepsLeft(Name, z) < StepsLeft(Name, r) /\ Inv(z)
      BY <1>3, <1>12, <2>2, NarrowedGoesOn
    <3>2. search[r] = search[z]
      BY <1>11, <2>2
    <3> HIDE DEF z
    <3>3. StepsLeft(Name, z) < n
      BY <1>13, <3>1
    <3>4. QED
      BY <1>15, <3>1, <3>2, <3>3
  <2>3. QED
    BY <2>1, <2>2
<1>16. Nat \subseteq P
  <2> HIDE DEF P
  <2>1. QED
    BY <1>14, <1>15, NumberInduction
<1>17. Whole(T) \in Ranges /\ Inv(Whole(T))
  <2>1. Whole(T) \in Ranges /\ Whole(T).CmpEnd = 0 /\ Whole(T).Low = 1
        /\ Whole(T).High = Len(T) + 1
    BY <1>1, <1>2 DEF Whole, Ranges
  <2>2. Agreeing(T, Name, 0) = 1..Len(T)
    BY DEF Agreeing, Agree
  <2>3. RangeIs(T, Name, Whole(T))
    BY <1>1, <2>1, <2>2 DEF RangeIs
  <2>4. QED
    BY <1>3, <2>1, <2>3 DEF Inv
<1>18. search[Whole(T)] = n0
  <2> DEFINE n == StepsLeft(Name, Whole(T)) + 1
  <2>1. n \in Nat /\ StepsLeft(Name, Whole(T)) < n
    BY <1>13, <1>17
  <2> HIDE DEF n
  <2>2. QED
    BY <1>16, <1>17, <2>1
<1>19. QED
  BY <1>10, <1>18 DEF T, Name, n0

\* ID_array and lookupGenXIntrinsicByName: every intrinsic is found under each name.
LEMMA LookupFinds ==
  ASSUME NEW lib \in Libraries, NEW id \in lib, NEW Tys \in Types(id)
  PROVE  LET n == Lookup(lib, getGenXName(id, Tys))
         IN  /\ n = Rank(lib, id) + 1 /\ n \in 1..Cardinality(lib)
             /\ n # not_genx_intrinsic /\ ID_array[lib][n] = id
<1> DEFINE T == GenXIntrinsicNameTable[lib]
           Name == getGenXName(id, Tys)
           D == Dotted(id)
           n == Rank(lib, id) + 1
<1>1. Name \in Names
  <2>1. Name \in {getGenXName(id, t) : t \in Types(id)} /\ id \in UNION Libraries
    OBVIOUS
  <2>2. QED
    BY <2>1 DEF Names
<1>2. Lookup(lib, Name) = lookupGenXIntrinsicByName(T, Name)
  BY <1>1 DEF Lookup, lookupGenXIntrinsicID
<1>3. FindName(T, Name) = n
  BY SearchFinds
<1>4. n \in 1..Cardinality(lib) /\ ID_array[lib][n] = id /\ Len(T) = Cardinality(lib)
  BY IDArray, TableTexts
<1>5. T[n] = D
  BY <1>4, TableTexts
<1>6. /\ Name \in Texts /\ Len(Name) \in Nat /\ Len(D) \in Nat /\ Len(D) <= Len(Name)
      /\ Agree(D, Name, Len(D)) /\ D \in Texts
      /\ Len(Name) # Len(D) => Name[Len(D) + 1] = Dot
  <2>1. /\ Name \in Texts /\ Len(Tys) \in Nat /\ Len(Name) = Len(D) + Len(Tys)
        /\ Len(Name) \in Nat /\ Len(D) \in Nat
        /\ Agree(D, Name, Len(D))
        /\ Len(Name) # Len(D) => Name[Len(D) + 1] = Dot
    BY NameText
  <2>2. D \in Texts
    BY DottedText
  <2> HIDE DEF Name, D
  <2>3. QED
    BY <2>1, <2>2
<1> HIDE DEF T, Name, D, n
<1>7. IsPrefix(D, Name)
  <2>1. Agree(Name, D, Len(D))
    BY <1>6 DEF Agree
  <2>2. IsPrefix(SubSeq(D, 1, Len(D)), Name)
    BY <1>6, <2>1, AgreeIsPrefix
  <2>3. SubSeq(D, 1, Len(D)) = D
    BY <1>6, SubSeqFull DEF Texts
  <2>4. QED
    BY <2>2, <2>3
<1>8. lookupGenXIntrinsicByName(T, Name) = n
  <2>1. n \in 1..Len(T) /\ IsPrefix(T[n], Name)
        /\ (Len(T[n]) = Len(Name) \/ Name[Len(T[n]) + 1] = Dot)
    BY <1>4, <1>5, <1>6, <1>7
  <2>2. QED
    BY <1>3, <2>1 DEF lookupGenXIntrinsicByName
<1>9. Lookup(lib, Name) = n
  BY <1>2, <1>8
<1>10. n # not_genx_intrinsic
  <2>1. Cardinality(lib) \in Nat
    BY NamesAssumption, FS_CardinalityType
  <2>2. QED
    BY <1>4, <2>1 DEF not_genx_intrinsic
<1>11. QED
  BY <1>4, <1>9, <1>10 DEF Name, n

\* ID_array, GenXIntrinsicNameTable and lookupGenXIntrinsicByName: in every version
\* of the table, and for every name it can be declared with, an intrinsic is found
\* as itself by the bisection, though its name may begin that of another.
THEOREM EveryNameIsFound == NamesSpec => []NamesFound
<1>1. IInv => NamesFound
  BY LookupFinds DEF IInv, NamesFound, Lookup
<1>2. QED
  BY <1>1, NamesInitIInv, NamesNextIInv, PTL DEF NamesSpec

-----------------------------------------------------------------------------
(* Numbers of another version.                                             *)

DeclaredFound ==
  \A m \in DOMAIN declarations : Lookup(library, m) # not_genx_intrinsic

\* What the lookup finds has a name that begins the name it was given.
LEMMA LookupBegins ==
  ASSUME NEW lib \in Libraries, NEW m \in Names, Lookup(lib, m) # not_genx_intrinsic
  PROVE  LET table == GenXIntrinsicNameTable[lib]
         IN  Lookup(lib, m) \in 1..Len(table) /\ IsPrefix(table[Lookup(lib, m)], m)
<1>1. Lookup(lib, m) = lookupGenXIntrinsicByName(GenXIntrinsicNameTable[lib], m)
  BY DEF Lookup, lookupGenXIntrinsicID
<1>2. QED
  BY <1>1 DEF lookupGenXIntrinsicByName

\* "we need to check that metadata is correct and can be actually used": a number
\* of another version does no harm where the name of one intrinsic alone begins
\* the name of the declaration.
THEOREM StaleNumbersHarmless == NamesSpec => []StaleNumberHarmless
<1>1. NamesInit => DeclaredFound
  BY DEF NamesInit, DeclaredFound
<1>2. IInv /\ DeclaredFound /\ [NamesNext]_names => DeclaredFound'
  <2> SUFFICES ASSUME IInv, DeclaredFound, [NamesNext]_names PROVE DeclaredFound'
    OBVIOUS
  <2>1. ASSUME NEW id \in library, NEW Tys \in Types(id), getGenXDeclaration(id, Tys)
        PROVE  DeclaredFound'
    <3>1. Lookup(library, getGenXName(id, Tys)) # not_genx_intrinsic
      BY LookupFinds DEF IInv
    <3>2. /\ library' = library
          /\ DOMAIN declarations' = DOMAIN declarations \cup {getGenXName(id, Tys)}
      BY <2>1 DEF getGenXDeclaration
    <3>3. QED
      BY <3>1, <3>2 DEF DeclaredFound
  <2>2. CASE RestoreIntrAttr \/ LoseAttributes
    BY <2>2 DEF RestoreIntrAttr, LoseAttributes, DeclaredFound
  <2>3. CASE ChangeLibrary
    BY <2>3 DEF ChangeLibrary, DeclaredFound, Lookup
  <2>4. CASE UNCHANGED names
    BY <2>4 DEF names, DeclaredFound
  <2>5. QED
    BY <2>1, <2>2, <2>3, <2>4 DEF NamesNext
<1>3. IInv /\ DeclaredFound => StaleNumberHarmless
  <2> SUFFICES ASSUME IInv, DeclaredFound PROVE StaleNumberHarmless
    OBVIOUS
  <2> DEFINE table == GenXIntrinsicNameTable[library]
             begins(m) == {n \in 1..Len(table) : IsPrefix(table[n], m)}
  <2>0. \A m : Begins(m) = begins(m)
    BY DEF Begins
  <2> SUFFICES ASSUME NEW m \in DOMAIN declarations, Cardinality(begins(m)) = 1
               PROVE  getGenXIntrinsicID(library, m, declarations[m]) = Lookup(library, m)
    BY <2>0 DEF StaleNumberHarmless, Lookup
  <2>1. library \in Libraries /\ m \in Names
    BY DEF IInv
  <2>2. Len(table) = Cardinality(library) /\ Len(table) \in Nat
    BY <2>1, TableLength
  <2>3. Lookup(library, m) \in begins(m)
    BY <2>1, LookupBegins DEF DeclaredFound
  <2>4. IsFiniteSet(begins(m))
    <3>1. begins(m) \subseteq 1..Len(table)
      OBVIOUS
    <3>2. IsFiniteSet(1..Len(table))
      BY <2>2, FS_Interval
    <3>3. QED
      BY <3>1, <3>2, FS_Subset
  <2>5. PICK x : begins(m) = {x}
    BY <2>4, FS_Singleton
  <2> DEFINE n == declarations[m].genx_intrinsic_id
  <2>6. CASE n \in 1..Cardinality(library) /\ IsPrefix(table[n], m)
    <3>1. n \in begins(m)
      BY <2>2, <2>6
    <3>2. n = Lookup(library, m)
      BY <2>3, <2>5, <3>1
    <3>3. QED
      BY <2>6, <3>2 DEF getGenXIntrinsicID
  <2>7. CASE ~(n \in 1..Cardinality(library) /\ IsPrefix(table[n], m))
    BY <2>7 DEF getGenXIntrinsicID, Lookup
  <2>8. QED
    BY <2>6, <2>7
<1>4. QED
  BY <1>1, <1>2, <1>3, NamesInitIInv, NamesNextIInv, PTL DEF NamesSpec

\* resetGenXAttributes and GenXRestoreIntrAttr: a declaration that this version gave
\* its attributes has those of the intrinsic that its name is looked up as, when its
\* number is none of another version or the name of one intrinsic alone begins its
\* name.
THEOREM OwnAttributes == NamesSpec => []AttributesOfTheIntrinsic
<1>1. IInv /\ CacheCoherent /\ StaleNumberHarmless => AttributesOfTheIntrinsic
  <2> SUFFICES ASSUME IInv, CacheCoherent, StaleNumberHarmless,
                      NEW m \in DOMAIN declarations, declarations[m].attributes_by = library,
                      declarations[m].md_by \in {{}, library} \/ Cardinality(Begins(m)) = 1
               PROVE  declarations[m].attributes = ID_array[library][Lookup(library, m)]
    BY DEF AttributesOfTheIntrinsic, Lookup
  <2> DEFINE n == getGenXIntrinsicID(library, m, declarations[m])
  <2>1. n = Lookup(library, m)
    BY DEF CacheCoherent, StaleNumberHarmless, Lookup
  <2>2. library \in Libraries /\ AttributesGood(m, declarations[m])
    BY DEF IInv, Good
  <2>3. declarations[m].attributes = ID_array[library][n]
    BY <2>2 DEF AttributesGood
  <2>4. QED
    BY <2>1, <2>3
<1>2. NamesSpec => []IInv
  BY NamesInitIInv, NamesNextIInv, PTL DEF NamesSpec
<1>3. QED
  BY <1>1, <1>2, CacheTransparent, StaleNumbersHarmless, PTL

-----------------------------------------------------------------------------
(* The words of a description.                                             *)

LEMMA FirstExists ==
  ASSUME NEW at, at \subseteq Nat, at # {}
  PROVE  \E k \in at : \A j \in at : k <= j
<1>1. PICK k \in at : \A j \in at : <<j, k>> \notin OpToRel(<, Nat)
  BY NatLessThanWellFounded, WFMin
<1>2. ASSUME NEW j \in at PROVE k <= j
  <2>1. j \in Nat /\ k \in Nat
    OBVIOUS
  <2>2. ~(j < k)
    BY <1>1, <2>1 DEF OpToRel
  <2>3. QED
    BY <2>1, <2>2
<1>3. QED
  BY <1>1, <1>2

\* FirstOf is one of the words, the one of the first place, if there is any.
LEMMA FirstOfIsFirst ==
  ASSUME NEW desc, Len(desc) \in Nat, NEW words, NEW default
  PROVE  LET at == {k \in 1..Len(desc) : desc[k] \in words}
         IN  /\ at = {} => FirstOf(desc, words, default) = default
             /\ at # {} => \E k \in at : /\ \A j \in at : k <= j
                                         /\ FirstOf(desc, words, default) = desc[k]
<1> DEFINE at == {k \in 1..Len(desc) : desc[k] \in words}
           first == CHOOSE k \in at : \A j \in at : k <= j
<1>1. CASE at = {}
  BY <1>1 DEF FirstOf
<1>2. CASE at # {}
  <2>1. \E k \in at : \A j \in at : k <= j
    <3>1. at \subseteq Nat
      OBVIOUS
    <3> HIDE DEF at
    <3>2. QED
      BY <1>2, <3>1, FirstExists
  <2>2. first \in at /\ \A j \in at : first <= j
    BY <2>1
  <2>3. FirstOf(desc, words, default) = desc[first]
    BY <1>2 DEF FirstOf
  <2>4. QED
    BY <1>2, <2>2, <2>3
<1>3. QED
  BY <1>1, <1>2

LEMMA DefaultUnused ==
  ASSUME NEW desc, Len(desc) \in Nat, NEW words, NEW d1, NEW d2,
         \E k \in 1..Len(desc) : desc[k] \in words
  PROVE  FirstOf(desc, words, d1) = FirstOf(desc, words, d2)
<1> DEFINE at == {k \in 1..Len(desc) : desc[k] \in words}
           first == desc[CHOOSE k \in at : \A j \in at : k <= j]
<1>1. at # {}
  OBVIOUS
<1>2. \A d : FirstOf(desc, words, d) = IF at = {} THEN d ELSE first
  BY DEF FirstOf
<1> HIDE DEF at, first
<1>3. QED
  BY <1>1, <1>2

\* parseArgDesc finds the words FirstOf finds.
LEMMA ParsedWords ==
  ASSUME NEW desc, Len(desc) \in Nat
  PROVE  LET type   == FirstOf(desc, DOMAIN SPIRVType, "buffer_t")
             access == FirstOf(desc, DOMAIN AccessType, "read_write")
         IN  parseArgDesc(desc) =
               IF SaysType(desc) THEN SPIRVArgDesc(SPIRVType[type], AccessType[access])
                                 ELSE ReadWrite("Other")
<1> DEFINE at(map) == {k \in 1..Len(desc) : desc[k] \in DOMAIN map}
           word(map) == desc[CHOOSE k \in at(map) : \A j \in at(map) : k <= j]
           first(map) == IF at(map) = {} THEN {} ELSE {map[word(map)]}
<1>1. parseArgDesc(desc) =
        IF first(SPIRVType) = {} THEN ReadWrite("Other")
        ELSE SPIRVArgDesc(CHOOSE t \in first(SPIRVType) : TRUE,
                          IF first(AccessType) = {} THEN 2
                          ELSE CHOOSE a \in first(AccessType) : TRUE)
  BY DEF parseArgDesc
<1>2. SaysType(desc) <=> at(SPIRVType) # {}
  BY DEF SaysType
<1>3. at(SPIRVType) # {} => FirstOf(desc, DOMAIN SPIRVType, "buffer_t") = word(SPIRVType)
  BY DEF FirstOf
<1>4. FirstOf(desc, DOMAIN AccessType, "read_write") =
        IF at(AccessType) = {} THEN "read_write" ELSE word(AccessType)
  BY DEF FirstOf
<1>5. \A map : first(map) # {} => (CHOOSE t \in first(map) : TRUE) = map[word(map)]
  OBVIOUS
<1>6. AccessType["read_write"] = 2
  BY DEF AccessType
<1> HIDE DEF word
<1>7. QED
  BY <1>1, <1>2, <1>3, <1>4, <1>5, <1>6

-----------------------------------------------------------------------------
(* One argument of a kernel.                                               *)

SurfaceTypes == {"Buffer"} \cup DOMAIN Dimensions

\* The words of a surface name it again when its type and access are known, and
\* whether it is a media block.
LEMMA SurfaceWords ==
  ASSUME NEW desc, IsList(desc, Len(desc)),
         parseArgDesc(desc).Ty \notin {"Sampler", "Pointer"}
  PROVE  LET d == analyzeArgumentAttributes(Surface, desc)
             block == /\ d.Ty = "Image2d"
                      /\ desc # <<>> /\ desc[1] = "image2d_media_block_t"
         IN  /\ d = SPIRVArgDesc(d.Ty, d.Acc)
             /\ d.Ty \in SurfaceTypes
             /\ mapSPIRVDescToArgDesc(d, block) = DeclaredSurface(desc)
<1> DEFINE type   == FirstOf(desc, DOMAIN SPIRVType, "buffer_t")
           access == FirstOf(desc, DOMAIN AccessType, "read_write")
           d == analyzeArgumentAttributes(Surface, desc)
           block == /\ d.Ty = "Image2d"
                    /\ desc # <<>> /\ desc[1] = "image2d_media_block_t"
<1>1. Len(desc) \in Nat
  BY DEF IsList
<1>2. parseArgDesc(desc) = IF SaysType(desc)
                             THEN SPIRVArgDesc(SPIRVType[type], AccessType[access])
                             ELSE ReadWrite("Other")
  BY <1>1, ParsedWords
<1>3. d = IF parseArgDesc(desc).Ty = "Other" THEN ReadWrite("Buffer") ELSE parseArgDesc(desc)
  BY DEF analyzeArgumentAttributes, General, Sampler, Surface
<1>4. access \in DOMAIN AccessType
  BY <1>1, FirstOfIsFirst DEF AccessType
<1>5. \A word \in DOMAIN AccessType : Access(AccessType[word]) = word
  BY DEF AccessType, Access
<1>6. CASE ~SaysType(desc)
  <2>1. d = SPIRVArgDesc("Buffer", 2) /\ d.Ty = "Buffer" /\ d.Acc = 2
    BY <1>2, <1>3, <1>6 DEF ReadWrite, SPIRVArgDesc
  <2>2. type = "buffer_t"
    BY <1>1, <1>6, FirstOfIsFirst DEF SaysType
  <2>3. mapSPIRVDescToArgDesc(d, block) = <<TypeWord("Buffer", block), Access(2)>>
    <3> HIDE DEF d, block
    <3>1. QED
      BY <2>1 DEF mapSPIRVDescToArgDesc
  <2>4. TypeWord("Buffer", block) = "buffer_t" /\ Access(2) = "read_write"
    BY DEF TypeWord, SPIRVType, Access, AccessType
  <2>5. DeclaredSurface(desc) = <<"buffer_t", "read_write">>
    BY <1>6, <2>2 DEF DeclaredSurface
  <2>6. QED
    BY <2>1, <2>3, <2>4, <2>5 DEF SurfaceTypes
<1>7. CASE SaysType(desc)
  <2> DEFINE at == {k \in 1..Len(desc) : desc[k] \in DOMAIN SPIRVType}
  <2>1. PICK first \in at : type = desc[first] /\ \A j \in at : first <= j
    <3>1. at # {}
      BY <1>7 DEF SaysType
    <3>2. QED
      BY <1>1, <3>1, FirstOfIsFirst, SMTT(30)
  <2>2. type \in DOMAIN SPIRVType /\ first \in 1..Len(desc)
    BY <2>1
  <2>3. d = SPIRVArgDesc(SPIRVType[type], AccessType[access])
    BY <1>2, <1>3, <1>7, <2>2 DEF SPIRVArgDesc, SPIRVType
  <2>4. d.Ty = SPIRVType[type] /\ d.Acc = AccessType[access] /\ d.Ty \notin {"Sampler", "Pointer"}
    BY <1>2, <1>7, <2>3 DEF SPIRVArgDesc
  <2>5. d.Ty \in SurfaceTypes /\ d.Ty # "Other"
    BY <2>2, <2>4 DEF SurfaceTypes, SPIRVType, Dimensions
  <2>6. mapSPIRVDescToArgDesc(d, block) = <<TypeWord(d.Ty, block), access>>
    BY <1>4, <1>5, <2>4, <2>5 DEF mapSPIRVDescToArgDesc
  <2>7. desc # <<>> /\ 1 \in 1..Len(desc)
    BY <1>1, <2>2
  <2>8. TypeWord(d.Ty, block) = IF type = "image2d_media_block_t" /\ desc[1] # type
                                  THEN "image2d_t" ELSE type
    <3>1. CASE d.Ty # "Image2d"
      BY <2>2, <2>4, <3>1 DEF TypeWord, SPIRVType
    <3>2. CASE d.Ty = "Image2d"
      <4>1. type \in {"image2d_t", "image2d_media_block_t"}
        BY <2>2, <2>4, <3>2 DEF SPIRVType
      <4>2. block <=> desc[1] = "image2d_media_block_t"
        BY <2>7, <3>2
      <4>3. desc[1] = "image2d_media_block_t" => type = desc[1]
        <5>1. "image2d_media_block_t" \in DOMAIN SPIRVType
          BY DEF SPIRVType
        <5>2. desc[1] = "image2d_media_block_t" => first = 1
          BY <1>1, <2>1, <2>7, <5>1
        <5>3. QED
          BY <2>1, <5>2
      <4>4. TypeWord(d.Ty, block) = IF block THEN "image2d_media_block_t" ELSE "image2d_t"
        BY <3>2 DEF TypeWord
      <4> HIDE DEF block, type
      <4>5. QED
        BY <4>1, <4>2, <4>3, <4>4
    <3>3. QED
      BY <3>1, <3>2
  <2>9. DeclaredSurface(desc) = <<IF type = "image2d_media_block_t" /\ desc[1] # type
                                    THEN "image2d_t" ELSE type, access>>
    BY <1>7 DEF DeclaredSurface
  <2>10. QED
    BY <2>3, <2>4, <2>5, <2>6, <2>8, <2>9 DEF SPIRVArgDesc
<1>8. QED
  BY <1>6, <1>7

\* The reader finds the type and the access that the writer put into a type.
LEMMA SurfaceTypeRoundTrip ==
  ASSUME NEW arg, NEW old, NEW Ty \in SurfaceTypes, NEW Acc, arg.kind = NoKind,
         arg.type = getArgTargetTypeFromDesc(SPIRVArgDesc(Ty, Acc), old)
  PROVE  ReaderDesc(arg) = SPIRVArgDesc(Ty, Acc)
<1> DEFINE d == SPIRVArgDesc(Ty, Acc)
<1>1. d.Ty = Ty /\ d.Acc = Acc
  BY DEF SPIRVArgDesc
<1>2. CASE Ty = "Buffer"
  <2>1. arg.type = <<"Buffer", Acc>>
    BY <1>1, <1>2 DEF getArgTargetTypeFromDesc, Dimensions
  <2>2. arg.type[1] = "Buffer" /\ arg.type[2] = Acc
    BY <2>1
  <2>3. QED
    BY <1>2, <2>2 DEF ReaderDesc, IsPointer
<1>3. CASE Ty \in DOMAIN Dimensions
  <2>1. Ty \notin {"Sampler", "Buffer", "Pointer"}
    BY <1>3 DEF Dimensions
  <2>2. arg.type = <<"Image", Dimensions[Ty], Acc>>
    BY <1>1, <1>3, <2>1 DEF getArgTargetTypeFromDesc
  <2>3. arg.type[1] = "Image" /\ arg.type[2] = Dimensions[Ty] /\ arg.type[3] = Acc
    BY <2>2
  <2>4. ImageType(Dimensions[Ty]) = Ty
    BY <1>3 DEF ImageType, Dimensions
  <2>5. QED
    BY <2>3, <2>4 DEF ReaderDesc, IsPointer
<1>4. QED
  BY <1>2, <1>3 DEF SurfaceTypes

Words(x) == IF x.desc = NoDesc THEN <<>> ELSE x.desc

\* An argument that has fields of these names, and no others.
IsArgument(x) ==
  x = [type |-> x.type, byval |-> x.byval, user |-> x.user, kind |-> x.kind,
       iokind |-> x.iokind, desc |-> x.desc, block |-> x.block]

\* The argument of a kernel when its metadata are attributes.
Described(x) ==
  /\ IsArgument(x) /\ x.block = FALSE
  /\ IsPointer(x.type) => x.type = Pointer(x.type[2])
  /\ x.kind # NoKind
  /\ IsList(Words(x), Len(Words(x)))
  /\ x.kind = General => ~IsTargetExt(x.type)
  /\ x.kind = Surface => parseArgDesc(Words(x)).Ty \notin {"Sampler", "Pointer"}

\* What the writer and the translator make of it: in a kernel that is called it is
\* left alone, and a conversion may be lost.
Sent(x, used, y) ==
  LET written == IF used THEN x ELSE WriteArgument(x)
  IN  y \in {written, [written EXCEPT !.user = None]}

\* What comes back, as the properties say it.
Svm(x) == FirstOf(Words(x), DOMAIN SPIRVType, "") = "svmptr_t" /\ ~x.byval
Restored(x, used, y) ==
  /\ y.kind = x.kind /\ y.iokind = x.iokind
  /\ used \/ x.kind \notin {General, Sampler, Surface} => Words(y) = Words(x)
  /\ ~used /\ x.kind = Surface => Words(y) = DeclaredSurface(Words(x))
  /\ ~used /\ x.kind = General =>
       (Words(y) = <<"svmptr_t">> <=> Svm(x) \/ x.type \in {Pointer(1), Pointer(2)})

LEMMA WriteArgumentFields ==
  ASSUME NEW x, IsArgument(x), NEW y, Sent(x, FALSE, y), WriterDesc(x).Ty # "None"
  PROVE  /\ IsArgument(y)
         /\ y.type = getArgTargetTypeFromDesc(WriterDesc(x), x)
         /\ y.iokind = x.iokind /\ y.kind = NoKind
         /\ y.block = (\/ /\ WriterDesc(x).Ty = "Image2d"
                          /\ x.desc # <<>> /\ x.desc[1] = "image2d_media_block_t"
                       \/ x.block)
<1> DEFINE d == WriterDesc(x)
           type == getArgTargetTypeFromDesc(d, x)
           block == /\ d.Ty = "Image2d"
                    /\ x.desc # <<>> /\ x.desc[1] = "image2d_media_block_t"
           user == IF type = x.type THEN x.user ELSE conversion(x.type, type)
           w == [type |-> type, byval |-> x.byval, user |-> user, kind |-> NoKind,
                 iokind |-> x.iokind, desc |-> NoDesc, block |-> block \/ x.block]
<1>1. WriteArgument(x) = [[x EXCEPT !.type = type, !.user = user]
                            EXCEPT !.kind = NoKind, !.desc = NoDesc, !.block = block \/ x.block]
  BY DEF WriteArgument
<1>2. WriteArgument(x) = w
  <2> HIDE DEF type, user, block, d
  <2>1. QED
    BY <1>1 DEF IsArgument
<1>3. y \in {w, [w EXCEPT !.user = None]}
  BY <1>2 DEF Sent
<1> HIDE DEF type, user, block, d
<1>4. /\ IsArgument(y) /\ y.type = type /\ y.iokind = x.iokind
      /\ y.kind = NoKind /\ y.block = (block \/ x.block)
  BY <1>3 DEF IsArgument
<1>5. QED
  BY <1>4 DEF type, block, d

LEMMA ReadArgumentFields ==
  ASSUME NEW y, IsArgument(y), NEW c
  PROVE  LET z == ReadArgument(y, c)
             d == ReaderDesc(y)
         IN  /\ z.iokind = y.iokind
             /\ d.Ty = "None" => z.kind = y.kind /\ z.desc = y.desc
             /\ d.Ty # "None" => /\ z.kind = mapSPIRVTypeToArgKind(d.Ty)
                                 /\ z.desc = mapSPIRVDescToArgDesc(d, y.block)
<1> DEFINE d == ReaderDesc(y)
           type == RestoredType(y, c)
           user == IF Original(y, c) = None THEN y.user ELSE None
           restored == [y EXCEPT !.type = type, !.user = user]
<1>1. ReadArgument(y, c) =
        IF d.Ty = "None" THEN restored
        ELSE [restored EXCEPT !.kind = mapSPIRVTypeToArgKind(d.Ty),
                              !.desc = mapSPIRVDescToArgDesc(d, y.block)]
  BY DEF ReadArgument
<1> HIDE DEF d, type, user
<1>2. /\ restored.iokind = y.iokind /\ restored.kind = y.kind /\ restored.desc = y.desc
      /\ \A kind, desc : LET z == [restored EXCEPT !.kind = kind, !.desc = desc]
                         IN  z.iokind = y.iokind /\ z.kind = kind /\ z.desc = desc
  BY DEF IsArgument
<1> HIDE DEF restored
<1>3. QED
  BY <1>1, <1>2 DEF d

\* The reader, which rewrites no argument of a kernel with all its attributes.
Read(y, c, z) == z = ReadArgument(y, c) \/ (ReaderDesc(y).Ty = "None" /\ z = y)

\* An argument that the writer leaves alone.
LEMMA UntouchedRestored ==
  ASSUME NEW x, Described(x), NEW used \in BOOLEAN, NEW y, Sent(x, used, y), NEW c, NEW z, Read(y, c, z),
         used \/ x.kind \notin {General, Sampler, Surface}
  PROVE  Restored(x, used, z)
<1>1. ~used => WriterDesc(x).Ty = "None"
  BY DEF Described, WriterDesc, analyzeArgumentAttributes, ReadWrite, SPIRVArgDesc
<1>2. y \in {x, [x EXCEPT !.user = None]}
  BY <1>1 DEF Sent, WriteArgument
<1>3. IsArgument(y) /\ y.kind = x.kind /\ y.iokind = x.iokind /\ y.desc = x.desc
  BY <1>2 DEF Described, IsArgument
<1>4. ReaderDesc(y).Ty = "None"
  <2>1. y.kind # NoKind
    BY <1>3 DEF Described
  <2>2. ReaderDesc(y) = ReadWrite("None")
    BY <2>1 DEF ReaderDesc
  <2>3. QED
    BY <2>2 DEF ReadWrite, SPIRVArgDesc
<1>5. z.kind = x.kind /\ z.iokind = x.iokind /\ z.desc = x.desc
  BY <1>3, <1>4, ReadArgumentFields DEF Read
<1>6. QED
  BY <1>5 DEF Restored, Words

LEMMA SamplerRestored ==
  ASSUME NEW x, Described(x), NEW y, Sent(x, FALSE, y), NEW c, NEW z, Read(y, c, z),
         x.kind = Sampler
  PROVE  Restored(x, FALSE, z)
<1>1. WriterDesc(x) = ReadWrite("Sampler")
  BY DEF Described, WriterDesc, analyzeArgumentAttributes, General, Sampler, Surface
<1>2. IsArgument(y) /\ y.kind = NoKind /\ y.iokind = x.iokind /\ y.type = <<"Sampler">>
  <2>1. WriterDesc(x).Ty = "Sampler"
    BY <1>1 DEF ReadWrite, SPIRVArgDesc
  <2>2. getArgTargetTypeFromDesc(WriterDesc(x), x) = <<"Sampler">>
    BY <2>1 DEF getArgTargetTypeFromDesc, Dimensions
  <2>3. QED
    BY <2>1, <2>2, WriteArgumentFields DEF Described
<1>3. ReaderDesc(y) = ReadWrite("Sampler")
  <2>1. y.type[1] = "Sampler"
    BY <1>2
  <2>2. QED
    BY <1>2, <2>1 DEF ReaderDesc, IsPointer
<1>4. z.kind = Sampler /\ z.iokind = x.iokind
  BY <1>2, <1>3, ReadArgumentFields
  DEF Read, ReadWrite, SPIRVArgDesc, mapSPIRVTypeToArgKind
<1>5. QED
  BY <1>4 DEF Restored, General, Sampler, Surface

LEMMA SurfaceRestored ==
  ASSUME NEW x, Described(x), NEW y, Sent(x, FALSE, y), NEW c, NEW z, Read(y, c, z),
         x.kind = Surface
  PROVE  Restored(x, FALSE, z)
<1> DEFINE desc == Words(x)
           d == analyzeArgumentAttributes(Surface, desc)
           block == /\ d.Ty = "Image2d"
                    /\ desc # <<>> /\ desc[1] = "image2d_media_block_t"
<1>1. WriterDesc(x) = d
  BY DEF Described, WriterDesc, Words
<1>2. d = SPIRVArgDesc(d.Ty, d.Acc) /\ d.Ty \in SurfaceTypes
      /\ mapSPIRVDescToArgDesc(d, block) = DeclaredSurface(desc)
  BY SurfaceWords DEF Described
<1>3. d.Ty # "None"
  BY <1>2 DEF SurfaceTypes, Dimensions
<1>4. /\ IsArgument(y) /\ y.kind = NoKind /\ y.iokind = x.iokind
      /\ y.type = getArgTargetTypeFromDesc(d, x)
      /\ y.block = (/\ d.Ty = "Image2d"
                    /\ x.desc # <<>> /\ x.desc[1] = "image2d_media_block_t")
  <2> HIDE DEF d
  <2>1. QED
    BY <1>1, <1>3, WriteArgumentFields DEF Described
<1>5. y.block = block
  <2>1. CASE x.desc = NoDesc
    <3>1. x.desc[1] # "image2d_media_block_t" /\ desc = <<>>
      <4>1. NoDesc[1] = "no attribute"
        BY DEF NoDesc
      <4>2. QED
        BY <2>1, <4>1 DEF Words
    <3>2. QED
      BY <1>4, <3>1
  <2>2. CASE x.desc # NoDesc
    <3>1. x.desc = desc
      BY <2>2 DEF Words
    <3>2. QED
      BY <1>4, <3>1
  <2>3. QED
    BY <2>1, <2>2
<1>6. ReaderDesc(y) = d
  <2> HIDE DEF d
  <2>1. QED
    BY <1>2, <1>4, SurfaceTypeRoundTrip
<1>7. z = ReadArgument(y, c)
  BY <1>3, <1>6 DEF Read
<1>8. z.kind = Surface /\ z.iokind = x.iokind /\ z.desc = mapSPIRVDescToArgDesc(d, block)
  <2>1. mapSPIRVTypeToArgKind(d.Ty) = Surface
    BY <1>2 DEF SurfaceTypes, Dimensions, mapSPIRVTypeToArgKind
  <2> HIDE DEF d, block
  <2>2. QED
    BY <1>3, <1>4, <1>5, <1>6, <1>7, <2>1, ReadArgumentFields
<1>9. z.desc # NoDesc
  <2>1. z.desc = DeclaredSurface(desc)
    BY <1>2, <1>8
  <2>2. Len(DeclaredSurface(desc)) = 2
    BY DEF DeclaredSurface
  <2>3. Len(NoDesc) = 1
    BY DEF NoDesc
  <2>4. QED
    BY <2>1, <2>2, <2>3
<1>10. Words(z) = DeclaredSurface(desc)
  BY <1>2, <1>8, <1>9 DEF Words
<1>11. QED
  BY <1>8, <1>10 DEF Restored, General, Sampler, Surface

LEMMA GeneralRestored ==
  ASSUME NEW x, Described(x), NEW y, Sent(x, FALSE, y), NEW c, NEW z, Read(y, c, z),
         x.kind = General
  PROVE  Restored(x, FALSE, z)
<1> DEFINE desc == Words(x)
           d == WriterDesc(x)
           pointer == FirstOf(desc, DOMAIN SPIRVType, "") = "svmptr_t"
<1>1. d = IF parseArgDesc(desc).Ty = "Pointer" THEN parseArgDesc(desc) ELSE ReadWrite("Other")
  BY DEF Described, WriterDesc, Words, analyzeArgumentAttributes, General, Sampler, Surface
<1>2. parseArgDesc(desc).Ty = "Pointer" <=> pointer
  <2> DEFINE type == FirstOf(desc, DOMAIN SPIRVType, "buffer_t")
  <2>1. Len(desc) \in Nat
    BY DEF Described, IsList
  <2>2. CASE ~SaysType(desc)
    <3>1. parseArgDesc(desc).Ty = "Other"
      BY <2>1, <2>2, ParsedWords DEF ReadWrite, SPIRVArgDesc
    <3>2. FirstOf(desc, DOMAIN SPIRVType, "") = ""
      BY <2>1, <2>2, FirstOfIsFirst DEF SaysType
    <3>3. QED
      BY <3>1, <3>2
  <2>3. CASE SaysType(desc)
    <3>1. type = FirstOf(desc, DOMAIN SPIRVType, "")
      BY <2>1, <2>3, DefaultUnused DEF SaysType
    <3>2. type \in DOMAIN SPIRVType
      BY <2>1, <2>3, FirstOfIsFirst DEF SaysType
    <3>3. parseArgDesc(desc).Ty = SPIRVType[type]
      BY <2>1, <2>3, ParsedWords DEF SPIRVArgDesc
    <3>4. \A word \in DOMAIN SPIRVType : SPIRVType[word] = "Pointer" <=> word = "svmptr_t"
      BY DEF SPIRVType
    <3>5. QED
      BY <3>1, <3>2, <3>3, <3>4
  <2>4. QED
    BY <2>2, <2>3
<1>3. d.Ty = IF pointer THEN "Pointer" ELSE "Other"
  <2>1. ReadWrite("Other").Ty = "Other"
    BY DEF ReadWrite, SPIRVArgDesc
  <2> HIDE DEF d, pointer, desc
  <2>2. QED
    BY <1>1, <1>2, <2>1
<1>4. getArgTargetTypeFromDesc(d, x) = IF Svm(x) THEN Pointer(1) ELSE x.type
  <2>1. CASE pointer /\ ~x.byval
    BY <1>3, <2>1 DEF getArgTargetTypeFromDesc, Dimensions, SPIRVGlobalAS, Svm
  <2>2. CASE ~(pointer /\ ~x.byval)
    <3>1. d.Ty \notin {"Sampler", "Buffer"} \cup DOMAIN Dimensions
      BY <1>3 DEF Dimensions
    <3>2. ~(d.Ty = "Pointer" /\ ~x.byval)
      BY <1>3, <2>2
    <3>3. QED
      BY <2>2, <3>1, <3>2 DEF getArgTargetTypeFromDesc, Svm
  <2>3. QED
    BY <2>1, <2>2
<1>5. /\ IsArgument(y) /\ y.kind = NoKind /\ y.iokind = x.iokind
      /\ y.type = IF Svm(x) THEN Pointer(1) ELSE x.type
  BY <1>3, <1>4, WriteArgumentFields DEF Described
<1>6. /\ y.type[1] \notin {"Sampler", "Buffer", "Image"}
      /\ IsPointer(y.type) => y.type = Pointer(y.type[2])
  <2>1. CASE Svm(x)
    BY <1>5, <2>1 DEF Pointer
  <2>2. CASE ~Svm(x)
    BY <1>5, <2>2 DEF Described, IsTargetExt
  <2>3. QED
    BY <2>1, <2>2
<1>7. IsPointer(y.type) /\ y.type[2] \in {1, 2} <=> y.type \in {Pointer(1), Pointer(2)}
  <2>1. \A AS : IsPointer(Pointer(AS)) /\ Pointer(AS)[2] = AS
    BY DEF IsPointer, Pointer
  <2>2. QED
    BY <1>6, <2>1
<1>8. ReaderDesc(y) = IF y.type \in {Pointer(1), Pointer(2)} THEN ReadWrite("Pointer")
                                                             ELSE ReadWrite("Other")
  BY <1>5, <1>6, <1>7 DEF ReaderDesc
<1>9. y.type \in {Pointer(1), Pointer(2)} <=> Svm(x) \/ x.type \in {Pointer(1), Pointer(2)}
  BY <1>5
<1>10. ReaderDesc(y).Ty = IF y.type \in {Pointer(1), Pointer(2)} THEN "Pointer" ELSE "Other"
  BY <1>8 DEF ReadWrite, SPIRVArgDesc
<1>11. /\ z.iokind = x.iokind
       /\ z.kind = General
       /\ z.desc = IF y.type \in {Pointer(1), Pointer(2)} THEN <<"svmptr_t">> ELSE <<>>
  <2>1. mapSPIRVTypeToArgKind(ReaderDesc(y).Ty) = General
    BY <1>10 DEF mapSPIRVTypeToArgKind
  <2>2. mapSPIRVDescToArgDesc(ReaderDesc(y), y.block) =
          IF y.type \in {Pointer(1), Pointer(2)} THEN <<"svmptr_t">> ELSE <<>>
    <3>1. TypeWord("Pointer", FALSE) = "svmptr_t"
      BY DEF TypeWord, SPIRVType
    <3>2. QED
      BY <1>10, <3>1 DEF mapSPIRVDescToArgDesc
  <2>3. z = ReadArgument(y, c) /\ ReaderDesc(y).Ty # "None"
    BY <1>10 DEF Read
  <2>4. QED
    BY <1>5, <2>1, <2>2, <2>3, ReadArgumentFields
<1>12. Words(z) = IF y.type \in {Pointer(1), Pointer(2)} THEN <<"svmptr_t">> ELSE <<>>
  <2>1. Len(NoDesc) = 1 /\ NoDesc[1] # "svmptr_t"
    BY DEF NoDesc
  <2>2. NoDesc # <<>> /\ NoDesc # <<"svmptr_t">>
    BY <2>1
  <2>3. QED
    BY <1>11, <2>2 DEF Words
<1>13. Words(z) = <<"svmptr_t">> <=> y.type \in {Pointer(1), Pointer(2)}
  BY <1>12
<1>14. QED
  BY <1>9, <1>11, <1>13 DEF Restored, General, Sampler, Surface

\* Whatever the kind of an argument, the back end finds what the front end said.
LEMMA ArgumentRestored ==
  ASSUME NEW x, Described(x), NEW used \in BOOLEAN, NEW y, Sent(x, used, y),
         NEW c, NEW z, Read(y, c, z)
  PROVE  Restored(x, used, z)
BY UntouchedRestored, SamplerRestored, SurfaceRestored, GeneralRestored

-----------------------------------------------------------------------------
(* One function, through both adaptors.                                    *)

IsFunction(F) ==
  F = [name |-> F.name, cc |-> F.cc, attributes |-> F.attributes, simd |-> F.simd,
       used |-> F.used, args |-> F.args]

Numbered(m) == {m.kernels[j].function : j \in 1..Len(m.kernels)}
Named(F, name) == {x \in F.attributes : x[1] = name}

\* The attributes of a function that have the sizes of a kernel.
Sizes(F, MD) ==
  /\ Named(F, "VCSLMSize") = {<<"VCSLMSize", MD.slm>>}
  /\ MD.operands > NBarrierCntOp =>
       Named(F, "VCNamedBarrierCount") = {<<"VCNamedBarrierCount", MD.barriers>>}

\* The writer's first loop, without the metadata of a kernel.
Common(F) ==
  F.attributes \cup {<<"VCFunction", 0>>}
    \cup {<<cmToVC[x[1]], x[2]>> : x \in {y \in F.attributes : y[1] \in DOMAIN cmToVC}}
Sized(F) ==
  IF Has(F, "OCLRuntime")
    THEN [[F EXCEPT !.attributes = Common(F)] EXCEPT !.simd = ValueOf(F, "OCLRuntime")]
    ELSE [F EXCEPT !.attributes = Common(F)]

LEMMA SizedFields ==
  ASSUME NEW F, NEW kernel, FrontEndFunction(F, kernel)
  PROVE  LET S == Sized(F)
         IN  /\ IsFunction(S) /\ S.name = F.name /\ S.cc = F.cc /\ S.used = F.used
             /\ S.args = F.args /\ S.attributes = Common(F)
             /\ S.simd = IF Has(F, "OCLRuntime") THEN ValueOf(F, "OCLRuntime") ELSE 0
<1> DEFINE attributes == Common(F)
           sub == ValueOf(F, "OCLRuntime")
<1>1. F = [name |-> F.name, cc |-> F.cc, attributes |-> F.attributes, simd |-> 0,
           used |-> F.used, args |-> F.args]
  BY DEF FrontEndFunction
<1> HIDE DEF attributes, sub
<1> DEFINE record(simd) == [name |-> F.name, cc |-> F.cc, attributes |-> attributes,
                            simd |-> simd, used |-> F.used, args |-> F.args]
<1>2. [F EXCEPT !.attributes = attributes] = record(0)
  BY <1>1
<1>3. \A simd : [[F EXCEPT !.attributes = attributes] EXCEPT !.simd = simd] = record(simd)
  <2>1. \A simd : [record(0) EXCEPT !.simd = simd] = record(simd)
    OBVIOUS
  <2> HIDE DEF record
  <2>2. QED
    BY <1>2, <2>1
<1>4. Sized(F) = record(IF Has(F, "OCLRuntime") THEN sub ELSE 0)
  <2> HIDE DEF record
  <2>1. QED
    BY <1>2, <1>3 DEF Sized, attributes, sub
<1>5. QED
  BY <1>4 DEF IsFunction, attributes, sub

LEMMA CommonNames ==
  ASSUME NEW F, NEW kernel, FrontEndFunction(F, kernel)
  PROVE  /\ <<"VCFunction", 0>> \in Common(F)
         /\ \A x \in Common(F) : x[1] \notin {"VCSLMSize", "VCNamedBarrierCount"}
<1>1. \A x \in F.attributes : x[1] \in DOMAIN cmToVC \cup {"CMGenXMain", "OCLRuntime"}
  BY DEF FrontEndFunction
<1>2. \A name \in DOMAIN cmToVC : /\ name \notin {"VCSLMSize", "VCNamedBarrierCount"}
                                  /\ cmToVC[name] \notin {"VCSLMSize", "VCNamedBarrierCount"}
  BY DEF cmToVC
<1>3. \A value : <<"VCFunction", value>>[1] = "VCFunction"
  OBVIOUS
<1>4. \A name, value : <<cmToVC[name], value>>[1] = cmToVC[name]
  OBVIOUS
<1>5. ASSUME NEW x \in Common(F)
      PROVE  x[1] \notin {"VCSLMSize", "VCNamedBarrierCount"}
  <2>1. CASE x \in F.attributes
    BY <1>1, <1>2, <2>1
  <2>2. CASE x = <<"VCFunction", 0>>
    BY <1>3, <2>2
  <2>3. CASE \E y \in F.attributes : y[1] \in DOMAIN cmToVC /\ x = <<cmToVC[y[1]], y[2]>>
    BY <1>2, <1>4, <2>3
  <2>4. QED
    BY <2>1, <2>2, <2>3 DEF Common
<1>6. QED
  BY <1>5 DEF Common

\* An argument when the metadata of its kernel are attributes.
KernelArgument(x, MD, a) ==
  [type |-> x.type, byval |-> x.byval, user |-> x.user, kind |-> MD.kinds[a],
   iokind |-> IF MD.operands > ArgIOKindsOp THEN MD.iokinds[a] ELSE NoKind,
   desc |-> IF MD.operands > ArgTypeDescsOp THEN MD.descs[a] ELSE NoDesc, block |-> FALSE]

LEMMA KernelArgumentDescribed ==
  ASSUME NEW F, NEW MD, FrontEndKernel(F, MD), NEW a \in 1..Len(F.args),
         FrontEndArgument(F.args[a])
  PROVE  Described(KernelArgument(F.args[a], MD, a))
<1> DEFINE x == F.args[a]
           y == KernelArgument(x, MD, a)
<1>1. /\ y.type = x.type /\ y.kind = MD.kinds[a] /\ y.block = FALSE /\ IsArgument(y)
      /\ y.desc = IF MD.operands > ArgTypeDescsOp THEN MD.descs[a] ELSE NoDesc
  BY DEF KernelArgument, IsArgument
<1>2. /\ MD.kinds[a] # NoKind /\ MD.descs[a] # NoDesc
      /\ IsList(MD.descs[a], Len(MD.descs[a]))
      /\ MD.kinds[a] = General => ~IsTargetExt(x.type)
      /\ MD.kinds[a] = Surface => parseArgDesc(MD.descs[a]).Ty \notin {"Sampler", "Pointer"}
  BY DEF FrontEndKernel
<1>3. IsPointer(x.type) => x.type = Pointer(x.type[2])
  BY DEF FrontEndArgument
<1>4. IsList(<<>>, Len(<<>>)) /\ parseArgDesc(<<>>).Ty \notin {"Sampler", "Pointer"}
  <2>1. Len(<<>>) = 0 /\ <<>> = [k \in 1..0 |-> <<>>[k]]
    OBVIOUS
  <2>2. ~SaysType(<<>>)
    BY <2>1 DEF SaysType
  <2>3. parseArgDesc(<<>>) = ReadWrite("Other")
    BY <2>1, <2>2, ParsedWords
  <2>4. QED
    BY <2>1, <2>3 DEF IsList, ReadWrite, SPIRVArgDesc
<1>5. Words(y) = IF MD.operands > ArgTypeDescsOp THEN MD.descs[a] ELSE <<>>
  BY <1>1, <1>2 DEF Words
<1>6. IsList(Words(y), Len(Words(y)))
  BY <1>2, <1>4, <1>5
<1> HIDE DEF y
<1>7. Described(y)
  BY <1>1, <1>2, <1>3, <1>4, <1>5, <1>6 DEF Described
<1>8. QED
  BY <1>7 DEF y

LEMMA AppliedFields ==
  ASSUME NEW S, IsFunction(S), IsList(S.args, Len(S.args)),
         \A a \in 1..Len(S.args) : FrontEndArgument(S.args[a]),
         NEW MD, FrontEndKernel(S, MD)
  PROVE  LET A == ApplyMetadata(S, MD)
         IN  /\ IsFunction(A) /\ A.cc = "SPIR_KERNEL" /\ A.name = MD.name /\ A.used = S.used
             /\ A.simd = S.simd
             /\ A.attributes = S.attributes \cup {<<"VCSLMSize", MD.slm>>}
                  \cup IF MD.operands > NBarrierCntOp
                         THEN {<<"VCNamedBarrierCount", MD.barriers>>} ELSE {}
             /\ A.args = [a \in 1..Len(S.args) |-> KernelArgument(S.args[a], MD, a)]
<1> DEFINE n == Len(S.args)
           attributes == S.attributes \cup {<<"VCSLMSize", MD.slm>>}
             \cup IF MD.operands > NBarrierCntOp
                    THEN {<<"VCNamedBarrierCount", MD.barriers>>} ELSE {}
           args == [k \in 1..n |-> DescribeArgument(S.args[k], MD, k)]
<1>1. ApplyMetadata(S, MD) =
        [S EXCEPT !.cc = "SPIR_KERNEL", !.name = MD.name, !.attributes = attributes,
                  !.args = args]
  BY DEF ApplyMetadata
<1>2. ASSUME NEW k \in 1..n PROVE DescribeArgument(S.args[k], MD, k) = KernelArgument(S.args[k], MD, k)
  <2> DEFINE x == S.args[k]
             kind == MD.kinds[k]
             iokind == IF MD.operands > ArgIOKindsOp THEN MD.iokinds[k] ELSE NoKind
             desc == IF MD.operands > ArgTypeDescsOp THEN MD.descs[k] ELSE NoDesc
  <2>1. x = [type |-> x.type, byval |-> x.byval, user |-> x.user, kind |-> NoKind,
             iokind |-> NoKind, desc |-> NoDesc, block |-> FALSE]
    BY DEF FrontEndArgument
  <2>2. k <= Len(MD.kinds) /\ k <= Len(MD.iokinds) /\ k <= Len(MD.descs)
    BY DEF FrontEndKernel, IsList
  <2>3. DescribeArgument(x, MD, k) = [x EXCEPT !.kind = kind, !.iokind = iokind, !.desc = desc]
    <3>1. x.iokind = NoKind /\ x.desc = NoDesc
      BY <2>1
    <3>2. QED
      BY <2>2, <3>1 DEF DescribeArgument
  <2> HIDE DEF kind, iokind, desc, x
  <2>4. [x EXCEPT !.kind = kind, !.iokind = iokind, !.desc = desc] =
          [type |-> x.type, byval |-> x.byval, user |-> x.user, kind |-> kind,
           iokind |-> iokind, desc |-> desc, block |-> FALSE]
    <3> DEFINE fields == {"type", "byval", "user", "kind", "iokind", "desc", "block"}
               z == [x EXCEPT !.kind = kind, !.iokind = iokind, !.desc = desc]
    <3>1. z = [field \in fields |-> z[field]]
      BY <2>1
    <3>2. /\ z.type = x.type /\ z.byval = x.byval /\ z.user = x.user /\ z.block = FALSE
          /\ z.kind = kind /\ z.iokind = iokind /\ z.desc = desc
      BY <2>1
    <3> HIDE DEF z
    <3>3. z = [type |-> x.type, byval |-> x.byval, user |-> x.user, kind |-> kind,
               iokind |-> iokind, desc |-> desc, block |-> FALSE]
      BY <3>1, <3>2
    <3>4. QED
      BY <3>3 DEF z
  <2>5. QED
    BY <2>3, <2>4 DEF KernelArgument, kind, iokind, desc, x
<1>3. args = [k \in 1..n |-> KernelArgument(S.args[k], MD, k)]
  BY <1>2
<1> HIDE DEF args, attributes, n
<1>4. LET A == ApplyMetadata(S, MD)
      IN  /\ IsFunction(A) /\ A.cc = "SPIR_KERNEL" /\ A.name = MD.name /\ A.used = S.used
          /\ A.simd = S.simd /\ A.attributes = attributes /\ A.args = args
  BY <1>1 DEF IsFunction
<1>5. QED
  BY <1>3, <1>4 DEF attributes, n

\* The writer's second loop and the translator.
LEMMA SentFields ==
  ASSUME NEW A, IsFunction(A), Len(A.args) \in Nat, NEW unused \in BOOLEAN
  PROVE  LET T == Translated(WriteKernel(A), unused)
         IN  /\ IsFunction(T) /\ T.name = A.name /\ T.cc = A.cc /\ T.simd = A.simd
             /\ T.attributes = {x \in A.attributes : x[1] \in KnownToSPIRV}
             /\ Len(T.args) = Len(A.args)
             /\ A.cc = "SPIR_KERNEL" =>
                  \A a \in 1..Len(A.args) : Sent(A.args[a], A.used, T.args[a])
<1> DEFINE n == Len(A.args)
           written == [a \in 1..n |-> WriteArgument(A.args[a])]
           W == WriteKernel(A)
           args == [a \in 1..n |-> IF unused THEN [W.args[a] EXCEPT !.user = None] ELSE W.args[a]]
           attributes == {x \in A.attributes : x[1] \in KnownToSPIRV}
           T == Translated(W, unused)
<1>1. /\ IsFunction(W) /\ W.name = A.name /\ W.cc = A.cc /\ W.attributes = A.attributes
      /\ W.simd = A.simd
      /\ W.args = IF A.cc = "SPIR_KERNEL" /\ ~A.used THEN written ELSE A.args
  <2> HIDE DEF written
  <2>1. QED
    BY DEF WriteKernel, IsFunction, written
<1>2. Len(W.args) = n
  BY <1>1
<1>3. T = [W EXCEPT !.attributes = attributes, !.args = args]
  <2> HIDE DEF W
  <2>1. QED
    BY <1>1, <1>2 DEF Translated
<1> HIDE DEF W, args, attributes
<1>4. /\ IsFunction(T) /\ T.name = A.name /\ T.cc = A.cc /\ T.simd = A.simd
      /\ T.attributes = attributes /\ T.args = args
  BY <1>1, <1>3 DEF IsFunction
<1>5. Len(args) = n
  BY DEF args
<1>6. ASSUME A.cc = "SPIR_KERNEL", NEW a \in 1..n
      PROVE  Sent(A.args[a], A.used, args[a])
  <2>1. W.args[a] = IF A.used THEN A.args[a] ELSE WriteArgument(A.args[a])
    BY <1>1, <1>6
  <2>2. args[a] \in {W.args[a], [W.args[a] EXCEPT !.user = None]}
    BY DEF args
  <2>3. QED
    BY <2>1, <2>2 DEF Sent
<1>7. QED
  BY <1>4, <1>5, <1>6 DEF W, attributes

\* The reader's first loop.
LEMMA ReadFields ==
  ASSUME NEW T, IsFunction(T), Len(T.args) \in Nat, NEW c \in BOOLEAN
  PROVE  LET R == ReadKernel(T, c)
         IN  /\ IsFunction(R) /\ R.name = T.name /\ R.cc = T.cc /\ R.attributes = T.attributes
             /\ R.simd = T.simd /\ Len(R.args) = Len(T.args)
             /\ T.cc = "SPIR_KERNEL" /\ Has(T, "VCFunction") =>
                  \A a \in 1..Len(T.args) : Read(T.args[a], c, R.args[a])
<1> DEFINE n == Len(T.args)
           touched == /\ T.cc = "SPIR_KERNEL" /\ Has(T, "VCFunction")
                      /\ \E a \in 1..n : ReaderDesc(T.args[a]).Ty # "None"
           args == [a \in 1..n |-> ReadArgument(T.args[a], c)]
           R == ReadKernel(T, c)
<1>1. R = IF touched THEN [T EXCEPT !.args = args] ELSE T
  BY DEF ReadKernel
<1>2. Len(args) = n
  OBVIOUS
<1>3. CASE touched
  <2> HIDE DEF args, touched, R
  <2>1. /\ IsFunction(R) /\ R.name = T.name /\ R.cc = T.cc /\ R.attributes = T.attributes
        /\ R.simd = T.simd /\ R.args = args
    BY <1>1, <1>3 DEF IsFunction
  <2>2. \A a \in 1..n : args[a] = ReadArgument(T.args[a], c)
    BY DEF args
  <2>3. QED
    BY <1>2, <2>1, <2>2 DEF Read, R
<1>4. CASE ~touched
  BY <1>1, <1>4 DEF Read
<1>5. QED
  BY <1>3, <1>4

\* A function when its calls, its metadata and its attributes have been there and
\* back; "known" is whether the reader knows a conversion.
Back(m, k, G) ==
  \E unused, known \in BOOLEAN :
    G = ReadKernel(Translated(WriteKernel(
          WriterRunOnFunction(m.functions[k], m.kernels, k)), unused), known)

\* A kernel, j-th of the metadata.
KernelBack(m, j, G) ==
  LET MD == m.kernels[j]
      F  == m.functions[MD.function]
  IN  /\ IsFunction(G) /\ G.cc = "SPIR_KERNEL" /\ Has(G, "VCFunction")
      /\ G.name = MD.name /\ Sizes(G, MD)
      /\ Len(G.args) = Len(F.args)
      /\ \A a \in 1..Len(F.args) : Restored(KernelArgument(F.args[a], MD, a), F.used, G.args[a])

LEMMA ModuleFacts ==
  ASSUME NEW m \in Modules
  PROVE  /\ IsList(m.functions, Len(m.functions)) /\ IsList(m.kernels, Len(m.kernels))
         /\ \A k \in 1..Len(m.functions) : \E kernel : FrontEndFunction(m.functions[k], kernel)
         /\ \A j \in 1..Len(m.kernels) :
              /\ m.kernels[j].function \in 1..Len(m.functions)
              /\ FrontEndKernel(m.functions[m.kernels[j].function], m.kernels[j])
         /\ \A i, j \in 1..Len(m.kernels) :
              m.kernels[i].function = m.kernels[j].function => i = j
BY ModulesAssumption

LEMMA WrittenKernel ==
  ASSUME NEW m \in Modules, NEW j \in 1..Len(m.kernels)
  PROVE  LET k == m.kernels[j].function
         IN  WriterRunOnFunction(m.functions[k], m.kernels, k) =
               ApplyMetadata(Sized(m.functions[k]), m.kernels[j])
<1> DEFINE k == m.kernels[j].function
<1>1. Len(m.kernels) \in Nat /\ m.kernels # NoMetadata
  BY ModuleFacts DEF IsList, NoMetadata
<1>2. KernelMDs(m.kernels, k) = {j}
  BY ModuleFacts DEF KernelMDs
<1>3. (CHOOSE i \in KernelMDs(m.kernels, k) : TRUE) = j
  BY <1>2
<1>4. QED
  BY <1>1, <1>2, <1>3 DEF WriterRunOnFunction, Sized, Common

LEMMA WrittenFunction ==
  ASSUME NEW m \in Modules, NEW k \in 1..Len(m.functions) \ Numbered(m)
  PROVE  WriterRunOnFunction(m.functions[k], m.kernels, k) \in
           {Sized(m.functions[k]), [m.functions[k] EXCEPT !.attributes = Common(m.functions[k])]}
<1>1. KernelMDs(m.kernels, k) = {}
  BY DEF KernelMDs, Numbered
<1>2. QED
  BY <1>1 DEF WriterRunOnFunction, Sized, Common

LEMMA KernelComesBack ==
  ASSUME NEW m \in Modules, NEW j \in 1..Len(m.kernels), NEW G,
         Back(m, m.kernels[j].function, G)
  PROVE  KernelBack(m, j, G)
<1> DEFINE MD == m.kernels[j]
           F == m.functions[MD.function]
           S == Sized(F)
           A == ApplyMetadata(S, MD)
           n == Len(F.args)
<1>1. PICK kernel : FrontEndFunction(F, kernel)
  BY ModuleFacts
<1>2. /\ IsFunction(S) /\ S.used = F.used /\ S.args = F.args /\ S.attributes = Common(F)
  BY <1>1, SizedFields
<1>3. FrontEndKernel(F, MD) /\ FrontEndKernel(S, MD)
  <2>1. FrontEndKernel(F, MD)
    BY ModuleFacts
  <2>2. QED
    BY <1>2, <2>1 DEF FrontEndKernel
<1>4. /\ IsList(F.args, n) /\ n \in Nat /\ F.used \in BOOLEAN
      /\ \A a \in 1..n : FrontEndArgument(F.args[a])
  BY <1>1 DEF FrontEndFunction, IsList
<1>5. /\ IsFunction(A) /\ A.cc = "SPIR_KERNEL" /\ A.name = MD.name /\ A.used = F.used
      /\ A.attributes = S.attributes \cup {<<"VCSLMSize", MD.slm>>}
           \cup IF MD.operands > NBarrierCntOp
                  THEN {<<"VCNamedBarrierCount", MD.barriers>>} ELSE {}
      /\ A.args = [a \in 1..n |-> KernelArgument(F.args[a], MD, a)]
  <2> HIDE DEF A, S, F, MD
  <2>1. QED
    BY <1>2, <1>3, <1>4, AppliedFields, SMTT(30) DEF A
<1>6. WriterRunOnFunction(F, m.kernels, MD.function) = A
  BY WrittenKernel
<1> HIDE DEF A, S
<1>7. PICK unused, known \in BOOLEAN :
        G = ReadKernel(Translated(WriteKernel(A), unused), known)
  BY <1>6 DEF Back
<1> DEFINE T == Translated(WriteKernel(A), unused)
<1>8. Len(A.args) = n
  <2>1. n \in Nat /\ \E f : A.args = [a \in 1..n |-> f[a]]
    <3> DEFINE f == [a \in 1..n |-> KernelArgument(F.args[a], MD, a)]
    <3>1. A.args = [a \in 1..n |-> f[a]]
      BY <1>5
    <3>2. QED
      BY <1>4, <3>1
  <2> HIDE DEF n
  <2>2. QED
    BY <2>1
<1>9. /\ IsFunction(T) /\ T.name = MD.name /\ T.cc = "SPIR_KERNEL"
      /\ T.attributes = {x \in A.attributes : x[1] \in KnownToSPIRV}
      /\ Len(T.args) = n
      /\ \A a \in 1..n : Sent(A.args[a], F.used, T.args[a])
  <2> HIDE DEF F, MD
  <2>1. QED
    BY <1>4, <1>5, <1>8, SentFields
<1>10. Has(T, "VCFunction")
  <2>1. <<"VCFunction", 0>> \in A.attributes
    BY <1>1, <1>2, <1>5, CommonNames, ZenonT(60)
  <2>2. "VCFunction" \in KnownToSPIRV
    BY DEF KnownToSPIRV
  <2>3. <<"VCFunction", 0>> \in T.attributes
    BY <1>9, <2>1, <2>2
  <2>4. QED
    BY <2>3 DEF Has
<1> HIDE DEF T
<1>11. /\ IsFunction(G) /\ G.name = MD.name /\ G.cc = "SPIR_KERNEL"
       /\ G.attributes = T.attributes /\ Len(G.args) = n
       /\ \A a \in 1..n : Read(T.args[a], known, G.args[a])
  <2>1. G = ReadKernel(T, known)
    BY <1>7 DEF T
  <2> HIDE DEF F, MD
  <2>2. QED
    BY <1>4, <1>9, <1>10, <2>1, ReadFields
<1>12. ASSUME NEW a \in 1..n
       PROVE  Restored(KernelArgument(F.args[a], MD, a), F.used, G.args[a])
  <2>1. Described(KernelArgument(F.args[a], MD, a))
    BY <1>3, <1>4, KernelArgumentDescribed
  <2>2. A.args[a] = KernelArgument(F.args[a], MD, a)
    BY <1>5
  <2> HIDE DEF F, MD
  <2>3. QED
    BY <1>4, <1>9, <1>11, <2>1, <2>2, ArgumentRestored
<1>13. Sizes(G, MD)
  <2> DEFINE slm == <<"VCSLMSize", MD.slm>>
             barriers == <<"VCNamedBarrierCount", MD.barriers>>
             more == IF MD.operands > NBarrierCntOp THEN {barriers} ELSE {}
  <2>1. slm[1] = "VCSLMSize" /\ barriers[1] = "VCNamedBarrierCount"
    OBVIOUS
  <2>2. G.attributes = {x \in Common(F) \cup {slm} \cup more : x[1] \in KnownToSPIRV}
    BY <1>2, <1>5, <1>9, <1>11
  <2>3. \A x \in Common(F) : x[1] \notin {"VCSLMSize", "VCNamedBarrierCount"}
    BY <1>1, CommonNames
  <2>4. {"VCSLMSize", "VCNamedBarrierCount"} \subseteq KnownToSPIRV
    BY DEF KnownToSPIRV
  <2> HIDE DEF slm, barriers
  <2>5. Named(G, "VCSLMSize") = {slm}
    BY <2>1, <2>2, <2>3, <2>4 DEF Named
  <2>6. MD.operands > NBarrierCntOp => Named(G, "VCNamedBarrierCount") = {barriers}
    BY <2>1, <2>2, <2>3, <2>4 DEF Named
  <2>7. QED
    BY <2>5, <2>6 DEF Sizes, slm, barriers
<1>14. QED
  BY <1>10, <1>11, <1>12, <1>13 DEF KernelBack, Has

LEMMA FunctionComesBack ==
  ASSUME NEW m \in Modules, NEW k \in 1..Len(m.functions) \ Numbered(m), NEW G, Back(m, k, G)
  PROVE  G.cc # "SPIR_KERNEL" /\ Has(G, "VCFunction")
<1> DEFINE F == m.functions[k]
           W == WriterRunOnFunction(F, m.kernels, k)
<1>1. PICK kernel : FrontEndFunction(F, kernel)
  BY ModuleFacts
<1>2. /\ F = [name |-> F.name, cc |-> F.cc, attributes |-> F.attributes, simd |-> 0,
              used |-> F.used, args |-> F.args]
      /\ F.cc # "SPIR_KERNEL" /\ Len(F.args) \in Nat
  BY <1>1 DEF FrontEndFunction, IsList
<1>3. /\ IsFunction(W) /\ W.cc = F.cc /\ W.args = F.args /\ W.attributes = Common(F)
  <2>1. LET S == Sized(F)
        IN  IsFunction(S) /\ S.cc = F.cc /\ S.args = F.args /\ S.attributes = Common(F)
    BY <1>1, SizedFields
  <2>2. LET S == [F EXCEPT !.attributes = Common(F)]
        IN  IsFunction(S) /\ S.cc = F.cc /\ S.args = F.args /\ S.attributes = Common(F)
    <3> HIDE DEF F
    <3>1. QED
      BY <1>2 DEF IsFunction
  <2>3. QED
    BY <2>1, <2>2, WrittenFunction
<1> HIDE DEF W
<1>4. PICK unused, known \in BOOLEAN :
        G = ReadKernel(Translated(WriteKernel(W), unused), known)
  BY DEF Back, W
<1> DEFINE T == Translated(WriteKernel(W), unused)
<1>5. /\ IsFunction(T) /\ T.cc = F.cc /\ Len(T.args) \in Nat
      /\ T.attributes = {x \in W.attributes : x[1] \in KnownToSPIRV}
  BY <1>2, <1>3, SentFields
<1>6. <<"VCFunction", 0>> \in T.attributes
  <2>1. "VCFunction" \in KnownToSPIRV
    BY DEF KnownToSPIRV
  <2>2. QED
    BY <1>1, <1>3, <1>5, <2>1, CommonNames
<1> HIDE DEF T
<1>7. G.cc = F.cc /\ G.attributes = T.attributes
  <2>1. G = ReadKernel(T, known)
    BY <1>4 DEF T
  <2>2. QED
    BY <1>5, <2>1, ReadFields
<1>8. QED
  BY <1>2, <1>6, <1>7 DEF Has

\* The metadata MD of a kernel F and the metadata K that come back, as the
\* properties say it.
SaysTheSame(F, MD, K) ==
  LET desc(a) == IF MD.operands > ArgTypeDescsOp THEN MD.descs[a] ELSE <<>>
      rewritten(a) == ~F.used /\ MD.kinds[a] \in {General, Sampler, Surface}
      svm(a) == FirstOf(desc(a), DOMAIN SPIRVType, "") = "svmptr_t" /\ ~F.args[a].byval
  IN  /\ K.function = MD.function /\ K.name = MD.name /\ K.slm = MD.slm
      /\ MD.operands > NBarrierCntOp => K.barriers = MD.barriers
      /\ K.kinds = MD.kinds
      /\ MD.operands > ArgIOKindsOp => K.iokinds = MD.iokinds
      /\ Len(K.kinds) = Len(F.args) /\ Len(K.descs) = Len(F.args)
      /\ \A a \in 1..Len(F.args) :
           /\ ~rewritten(a) => K.descs[a] = desc(a)
           /\ MD.kinds[a] = Surface /\ rewritten(a) => K.descs[a] = DeclaredSurface(desc(a))
           /\ MD.kinds[a] = General /\ rewritten(a) =>
                (K.descs[a] = <<"svmptr_t">>
                   <=> svm(a) \/ F.args[a].type \in {Pointer(1), Pointer(2)})

MetadataBack(m, j, K) ==
  SaysTheSame(m.functions[m.kernels[j].function], m.kernels[j], K)

LEMMA RestoredSizes ==
  ASSUME NEW G, IsFunction(G), NEW name, name \in {"VCSLMSize", "VCNamedBarrierCount"}
  PROVE  Named(RestoreAttributes(G), name) = Named(G, name)
<1> DEFINE kept == {x \in G.attributes : x[1] \notin vcNames \cup {"VCFunction"}}
           renamed == {<<cmOf(x[1]), x[2]>> : x \in {y \in G.attributes : y[1] \in vcNames}}
           size == IF G.simd # 0 THEN {<<"OCLRuntime", G.simd>>} ELSE {}
<1>1. RestoreAttributes(G).attributes = kept \cup renamed \cup size
  <2> HIDE DEF kept, renamed, size
  <2>1. RestoreAttributes(G) = [G EXCEPT !.attributes = kept \cup renamed \cup size]
    BY DEF RestoreAttributes, kept, renamed, size
  <2>2. QED
    BY <2>1 DEF IsFunction
<1>2. name \notin vcNames \cup {"VCFunction", "OCLRuntime"}
  BY DEF vcNames, cmToVC
<1>3. \A x \in renamed : x[1] # name
  <2>1. \A vc \in vcNames : cmOf(vc) \in DOMAIN cmToVC
    BY DEF vcNames, cmOf
  <2>2. name \notin DOMAIN cmToVC
    BY DEF cmToVC
  <2>3. QED
    BY <2>1, <2>2
<1>4. \A x \in size : x[1] # name
  BY <1>2
<1> HIDE DEF renamed, size
<1>5. QED
  BY <1>1, <1>2, <1>3, <1>4 DEF Named

LEMMA MetadataComesBack ==
  ASSUME NEW m \in Modules, NEW j \in 1..Len(m.kernels), NEW G, KernelBack(m, j, G)
  PROVE  MetadataBack(m, j, KernelMD(RestoreAttributes(G), m.kernels[j].function))
<1> DEFINE MD == m.kernels[j]
           F == m.functions[MD.function]
           n == Len(F.args)
           H == RestoreAttributes(G)
           K == KernelMD(H, MD.function)
           x(a) == KernelArgument(F.args[a], MD, a)
<1>1. /\ IsFunction(G) /\ G.name = MD.name /\ Sizes(G, MD) /\ Len(G.args) = n
      /\ \A a \in 1..n : Restored(x(a), F.used, G.args[a])
  BY DEF KernelBack
<1>2. H.name = MD.name /\ H.args = G.args
  <2>1. \E attributes : H = [G EXCEPT !.attributes = attributes]
    BY DEF RestoreAttributes
  <2> HIDE DEF H
  <2>2. QED
    BY <1>1, <2>1 DEF IsFunction
<1>3. /\ IsList(MD.kinds, n) /\ IsList(MD.iokinds, n) /\ n \in Nat
      /\ \A a \in 1..n : MD.kinds[a] # NoKind /\ MD.iokinds[a] # NoKind /\ MD.descs[a] # NoDesc
  <2>1. FrontEndKernel(F, MD)
    BY ModuleFacts
  <2>2. QED
    BY <2>1 DEF FrontEndKernel, IsList
<1> HIDE DEF H
<1>4. \A name, value : Named(H, name) = {<<name, value>>} =>
        Has(H, name) /\ ValueOf(H, name) = value
  <2> SUFFICES ASSUME NEW name, NEW value, Named(H, name) = {<<name, value>>}
               PROVE  Has(H, name) /\ ValueOf(H, name) = value
    OBVIOUS
  <2>1. \A y : y \in H.attributes /\ y[1] = name <=> y = <<name, value>>
    BY DEF Named
  <2>2. (CHOOSE y \in H.attributes : y[1] = name) = <<name, value>>
    BY <2>1
  <2>3. QED
    BY <2>1, <2>2 DEF Has, ValueOf
<1>5. /\ K.function = MD.function /\ K.name = MD.name
      /\ K.slm = MD.slm
      /\ MD.operands > NBarrierCntOp => K.barriers = MD.barriers
  <2>1. Named(H, "VCSLMSize") = {<<"VCSLMSize", MD.slm>>}
    BY <1>1, RestoredSizes DEF Sizes, H
  <2>2. MD.operands > NBarrierCntOp =>
          Named(H, "VCNamedBarrierCount") = {<<"VCNamedBarrierCount", MD.barriers>>}
    BY <1>1, RestoredSizes DEF Sizes, H
  <2> HIDE DEF MD
  <2>3. QED
    BY <1>2, <1>4, <2>1, <2>2 DEF KernelMD
<1>6. \A a \in 1..n : LET y == G.args[a]
                      IN  /\ y.kind = MD.kinds[a]
                          /\ MD.operands > ArgIOKindsOp => y.iokind = MD.iokinds[a]
  <2>1. \A a \in 1..n : /\ x(a).kind = MD.kinds[a]
                        /\ MD.operands > ArgIOKindsOp => x(a).iokind = MD.iokinds[a]
    BY DEF KernelArgument
  <2> HIDE DEF x, MD, F
  <2>2. QED
    BY <1>1, <2>1 DEF Restored
<1>7. /\ K.kinds = [a \in 1..n |-> IF G.args[a].kind = NoKind THEN 0 ELSE G.args[a].kind]
      /\ K.iokinds = [a \in 1..n |-> IF G.args[a].iokind = NoKind THEN 0 ELSE G.args[a].iokind]
      /\ K.descs = [a \in 1..n |-> Words(G.args[a])]
  <2> HIDE DEF n
  <2>1. QED
    BY <1>1, <1>2 DEF KernelMD, Words
<1>8. K.kinds = MD.kinds
  <2>1. MD.kinds = [a \in 1..n |-> MD.kinds[a]]
    BY <1>3 DEF IsList
  <2> HIDE DEF K, n, MD
  <2>2. QED
    BY <1>3, <1>6, <1>7, <2>1
<1>9. MD.operands > ArgIOKindsOp => K.iokinds = MD.iokinds
  <2>1. MD.iokinds = [a \in 1..n |-> MD.iokinds[a]]
    BY <1>3 DEF IsList
  <2> HIDE DEF K, n, MD
  <2>2. QED
    BY <1>3, <1>6, <1>7, <2>1
<1>10. Len(K.kinds) = n /\ Len(K.descs) = n
  <2> HIDE DEF K, n
  <2>1. QED
    BY <1>3, <1>7
<1>11. ASSUME NEW a \in 1..n
       PROVE  LET desc == IF MD.operands > ArgTypeDescsOp THEN MD.descs[a] ELSE <<>>
                  rewritten == ~F.used /\ MD.kinds[a] \in {General, Sampler, Surface}
                  svm == /\ FirstOf(desc, DOMAIN SPIRVType, "") = "svmptr_t"
                         /\ ~F.args[a].byval
              IN  /\ ~rewritten => K.descs[a] = desc
                  /\ MD.kinds[a] = Surface /\ rewritten => K.descs[a] = DeclaredSurface(desc)
                  /\ MD.kinds[a] = General /\ rewritten =>
                       (K.descs[a] = <<"svmptr_t">>
                          <=> svm \/ F.args[a].type \in {Pointer(1), Pointer(2)})
  <2> DEFINE desc == IF MD.operands > ArgTypeDescsOp THEN MD.descs[a] ELSE <<>>
  <2>1. /\ x(a).kind = MD.kinds[a] /\ x(a).byval = F.args[a].byval
        /\ x(a).type = F.args[a].type /\ Words(x(a)) = desc
    <3>1. x(a).desc = IF MD.operands > ArgTypeDescsOp THEN MD.descs[a] ELSE NoDesc
      BY DEF KernelArgument
    <3>2. MD.descs[a] # NoDesc
      BY <1>3
    <3>3. Words(x(a)) = desc
      <4> HIDE DEF x, MD
      <4>1. QED
        BY <3>1, <3>2 DEF Words
    <3>4. QED
      BY <3>3 DEF KernelArgument
  <2>2. K.descs[a] = Words(G.args[a])
    BY <1>7
  <2>3. Restored(x(a), F.used, G.args[a])
    BY <1>1
  <2> HIDE DEF x, MD, F, K, desc
  <2>4. /\ F.used \/ MD.kinds[a] \notin {General, Sampler, Surface} => K.descs[a] = desc
        /\ ~F.used /\ MD.kinds[a] = Surface => K.descs[a] = DeclaredSurface(desc)
        /\ ~F.used /\ MD.kinds[a] = General =>
             (K.descs[a] = <<"svmptr_t">>
                <=> \/ FirstOf(desc, DOMAIN SPIRVType, "") = "svmptr_t" /\ ~F.args[a].byval
                    \/ F.args[a].type \in {Pointer(1), Pointer(2)})
    BY <2>1, <2>2, <2>3 DEF Restored, Svm
  <2>5. QED
    BY <2>4 DEF desc
<1>12. MetadataBack(m, j, K)
  <2> HIDE DEF K
  <2>1. QED
    BY <1>5, <1>8, <1>9, <1>10, <1>11, Zenon DEF MetadataBack, SaysTheSame
<1>13. QED
  BY <1>12 DEF H

-----------------------------------------------------------------------------
(* The passes over a module.                                               *)

Size == Len(Given.functions)
Written(k) == WriterRunOnFunction(Given.functions[k], Given.kernels, k)
InSPIRV(k, F) == \E unused \in BOOLEAN : F = Translated(WriteKernel(Written(k)), unused)

\* The metadata when the reader has passed p functions of a module.
Done(m, p) == {k \in Numbered(m) : k <= p}
RestoredList(m, list, p) ==
  /\ IsList(list, Len(list)) /\ Len(list) = Cardinality(Done(m, p))
  /\ {list[i].function : i \in 1..Len(list)} = Done(m, p)
  /\ \A i \in 1..Len(list) : \E j \in 1..Len(m.kernels) : MetadataBack(m, j, list[i])
RestoredMetadata(p) == RestoredList(Given, genx_kernels, p)

LEMMA NumberedFunctions ==
  ASSUME NEW m \in Modules
  PROVE  Numbered(m) \subseteq 1..Len(m.functions) /\ Len(m.functions) \in Nat
<1>1. IsList(m.functions, Len(m.functions))
  BY ModuleFacts
<1>2. Len(m.functions) \in Nat
  BY <1>1 DEF IsList
<1>3. \A i \in 1..Len(m.kernels) : m.kernels[i].function \in 1..Len(m.functions)
  BY ModuleFacts
<1>4. QED
  BY <1>2, <1>3 DEF Numbered

LEMMA ListStarts == ASSUME NEW m \in Modules PROVE RestoredList(m, NoMetadata, 0)
<1>1. Done(m, 0) = {}
  <2>1. Numbered(m) \subseteq 1..Len(m.functions) /\ Len(m.functions) \in Nat
    BY NumberedFunctions
  <2>2. QED
    BY <2>1 DEF Done
<1>2. Len(NoMetadata) = 0 /\ IsList(NoMetadata, 0)
  BY DEF NoMetadata, IsList
<1>3. QED
  BY <1>1, <1>2, FS_EmptySet DEF RestoredList

LEMMA ListStays ==
  ASSUME NEW m \in Modules, NEW list, NEW p \in Nat, RestoredList(m, list, p),
         p + 1 \notin Numbered(m)
  PROVE  RestoredList(m, list, p + 1)
<1>1. Numbered(m) \subseteq Nat
  BY ModuleFacts DEF Numbered
<1>2. Done(m, p + 1) = Done(m, p)
  BY <1>1 DEF Done
<1>3. QED
  BY <1>2 DEF RestoredList

LEMMA ListGrows ==
  ASSUME NEW m \in Modules, NEW list, NEW p \in Nat, RestoredList(m, list, p),
         NEW j \in 1..Len(m.kernels), m.kernels[j].function = p + 1,
         NEW K, MetadataBack(m, j, K)
  PROVE  RestoredList(m, Append(list, K), p + 1)
<1> DEFINE n == Len(list)
           more == Append(list, K)
<1>1. Numbered(m) \subseteq 1..Len(m.functions) /\ Len(m.functions) \in Nat
  BY NumberedFunctions
<1>2. /\ p + 1 \in Numbered(m)
      /\ Done(m, p + 1) = Done(m, p) \cup {p + 1} /\ p + 1 \notin Done(m, p)
  <2>1. p + 1 \in Numbered(m)
    BY DEF Numbered
  <2>2. Numbered(m) \subseteq Nat
    BY <1>1
  <2>3. QED
    BY <2>1, <2>2 DEF Done
<1>3. IsFiniteSet(Done(m, p))
  <2>1. IsFiniteSet(1..Len(m.functions))
    <3>1. \A b \in Nat : IsFiniteSet(1..b)
      BY FS_Interval
    <3>2. QED
      BY <1>1, <3>1
  <2>2. QED
    BY <1>1, <2>1, FS_Subset DEF Done
<1>4. Cardinality(Done(m, p + 1)) = Cardinality(Done(m, p)) + 1
  BY <1>2, <1>3, FS_AddElement
<1>5. n \in Nat /\ list = [i \in 1..n |-> list[i]] /\ n = Cardinality(Done(m, p))
  BY DEF RestoredList, IsList
<1>6. /\ Len(more) = n + 1 /\ more[n + 1] = K
      /\ \A i \in 1..n : more[i] = list[i]
      /\ more = [i \in 1..(n + 1) |-> more[i]]
  <2> DEFINE S == {list[i] : i \in 1..n} \cup {K}
  <2>1. list \in Seq(S)
    <3>1. list \in [1..n -> S]
      BY <1>5
    <3>2. QED
      BY <1>5, <3>1, SMTT(30)
  <2>2. K \in S
    BY DEF S
  <2> HIDE DEF S
  <2>3. /\ more \in Seq(S) /\ Len(more) = n + 1 /\ more[n + 1] = K
        /\ \A i \in 1..n : more[i] = list[i]
    BY <2>1, <2>2, AppendProperties
  <2>4. more = [i \in 1..(n + 1) |-> more[i]]
    <3>1. \A s \in Seq(S) : s = [i \in 1..Len(s) |-> s[i]]
      OBVIOUS
    <3>2. more = [i \in 1..Len(more) |-> more[i]]
      BY <2>3, <3>1
    <3>3. QED
      BY <2>3, <3>2
  <2>5. QED
    BY <2>3, <2>4
<1> HIDE DEF n, more
<1>7. IsList(more, Len(more)) /\ Len(more) = Cardinality(Done(m, p + 1))
  BY <1>4, <1>5, <1>6 DEF IsList
<1>8. {more[i].function : i \in 1..Len(more)} = Done(m, p + 1)
  <2>1. {list[i].function : i \in 1..n} = Done(m, p)
    BY DEF RestoredList, n
  <2>2. K.function = p + 1
    BY DEF MetadataBack, SaysTheSame
  <2>3. 1..Len(more) = 1..n \cup {n + 1}
    BY <1>5, <1>6
  <2>4. {more[i].function : i \in 1..Len(more)} =
          {more[i].function : i \in 1..n} \cup {more[n + 1].function}
    BY <2>3
  <2>5. {more[i].function : i \in 1..n} = {list[i].function : i \in 1..n}
    BY <1>6
  <2>6. QED
    BY <1>2, <1>6, <2>1, <2>2, <2>4, <2>5
<1>9. \A i \in 1..Len(more) : \E l \in 1..Len(m.kernels) : MetadataBack(m, l, more[i])
  <2>1. \A i \in 1..n : \E l \in 1..Len(m.kernels) : MetadataBack(m, l, list[i])
    BY DEF RestoredList, n
  <2>2. \A i \in 1..Len(more) : i \in 1..n \/ i = n + 1
    BY <1>5, <1>6
  <2>3. QED
    BY <1>6, <2>1, <2>2
<1>10. QED
  BY <1>7, <1>8, <1>9 DEF RestoredList, more

\* What the passes have made of each function, and of the metadata.
Loaded == functions = Given.functions /\ genx_kernels = Given.kernels
Writing ==
  /\ genx_kernels = Given.kernels
  /\ \A k \in 1..Size : functions[k] = IF k <= passed THEN Written(k) ELSE Given.functions[k]
Rewriting ==
  \A k \in 1..Size : functions[k] = IF k <= passed THEN WriteKernel(Written(k)) ELSE Written(k)
Sendable == \A k \in 1..Size : functions[k] = WriteKernel(Written(k))
Received == \A k \in 1..Size : InSPIRV(k, functions[k])
Restoring ==
  \A k \in 1..Size : IF k <= passed THEN Back(Given, k, functions[k])
                                    ELSE InSPIRV(k, functions[k])
Reading ==
  /\ RestoredMetadata(passed)
  /\ \A k \in 1..Size : k > passed => Back(Given, k, functions[k])

Stages ==
  /\ Given \in Modules
  /\ IsList(functions, Size) /\ passed \in Nat
  /\ phase = "front_end" => Loaded
  /\ phase = "write_functions" => Writing
  /\ phase \in {"write_kernels", "written", "translated", "read_kernels"} =>
       genx_kernels = NoMetadata
  /\ phase = "write_kernels" => Rewriting
  /\ phase = "written" => Sendable
  /\ phase = "translated" => Received
  /\ phase = "read_kernels" => Restoring
  /\ phase = "read_functions" => Reading
  /\ phase = "read" => RestoredMetadata(Size)

LEMMA StagesInit == AdaptorsInit => Stages
<1> SUFFICES ASSUME AdaptorsInit PROVE Stages
  OBVIOUS
<1>1. IsList(functions, Size)
  BY ModuleFacts DEF AdaptorsInit, Size
<1>2. QED
  BY <1>1 DEF AdaptorsInit, Stages, Loaded

\* The k-th function is replaced.
LEMMA OneFunction ==
  ASSUME NEW F, Stages, passed < Len(functions), functions' = [functions EXCEPT ![passed + 1] = F],
         UNCHANGED Given
  PROVE  /\ passed + 1 \in 1..Size /\ Size \in Nat /\ passed \in Nat
         /\ IsList(functions', Size)
         /\ functions'[passed + 1] = F
         /\ \A k \in 1..Size : k # passed + 1 => functions'[k] = functions[k]
<1>1. Len(functions) = Size /\ Size \in Nat /\ passed \in Nat
  <2>1. Size \in Nat /\ functions = [k \in 1..Size |-> functions[k]] /\ passed \in Nat
    BY DEF Stages, IsList
  <2> HIDE DEF Size
  <2>2. QED
    BY <2>1
<1>2. functions = [k \in 1..Size |-> functions[k]]
  BY DEF Stages, IsList
<1>3. passed + 1 \in 1..Size
  BY <1>1
<1>4. functions' = [k \in 1..Size |-> IF k = passed + 1 THEN F ELSE functions[k]]
  BY <1>1, <1>2, <1>3 DEF Size
<1>5. /\ functions'[passed + 1] = F
      /\ \A k \in 1..Size : k # passed + 1 => functions'[k] = functions[k]
      /\ functions' = [k \in 1..Size |-> functions'[k]]
  BY <1>3, <1>4
<1>6. QED
  BY <1>1, <1>3, <1>5 DEF IsList

LEMMA StagesLength ==
  ASSUME Stages
  PROVE  Len(functions) = Size /\ Size \in Nat /\ functions = [k \in 1..Size |-> functions[k]]
<1>1. Size \in Nat /\ functions = [k \in 1..Size |-> functions[k]]
  BY DEF Stages, IsList
<1> HIDE DEF Size
<1>2. QED
  BY <1>1

LEMMA WriterStages ==
  ASSUME Stages
  PROVE  WriteGlobals \/ WriteFunction \/ EraseKernels \/ RewriteKernel \/ EndWriter => Stages'
<1>1. Len(functions) = Size /\ Size \in Nat /\ passed \in Nat
  BY StagesLength DEF Stages
<1>2. ASSUME UNCHANGED Given PROVE Size' = Size /\ \A k : Written(k)' = Written(k)
  BY <1>2 DEF Size, Written
<1>3. ASSUME WriteGlobals PROVE Stages'
  <2>1. /\ phase = "front_end" /\ phase' = "write_functions" /\ passed' = 0
        /\ UNCHANGED <<Given, functions, genx_kernels>>
    BY <1>3 DEF WriteGlobals, Loop
  <2>2. Loaded
    BY <2>1 DEF Stages
  <2>3. Writing'
    <3>1. \A k \in 1..Size : ~(k <= 0)
      BY <1>1
    <3>2. QED
      BY <1>2, <2>1, <2>2, <3>1 DEF Writing, Loaded
  <2>4. QED
    BY <1>2, <2>1, <2>3 DEF Stages
<1>4. ASSUME WriteFunction PROVE Stages'
  <2> DEFINE F == WriterRunOnFunction(functions[passed + 1], genx_kernels, passed + 1)
  <2>1. /\ phase = "write_functions" /\ phase' = phase /\ passed' = passed + 1
        /\ passed < Len(functions) /\ UNCHANGED <<Given, genx_kernels>>
        /\ functions' = [functions EXCEPT ![passed + 1] = F]
    BY <1>4 DEF WriteFunction, Step
  <2>2. /\ passed + 1 \in 1..Size /\ passed \in Nat /\ IsList(functions', Size)
        /\ functions'[passed + 1] = F
        /\ \A k \in 1..Size : k # passed + 1 => functions'[k] = functions[k]
    BY <2>1, OneFunction
  <2>3. Writing
    BY <2>1 DEF Stages
  <2>4. F = Written(passed + 1)
    BY <2>2, <2>3 DEF Writing, Written
  <2> HIDE DEF F
  <2>5. ASSUME NEW k \in 1..Size
        PROVE  functions'[k] = IF k <= passed' THEN Written(k) ELSE Given.functions[k]
    <3>1. CASE k = passed + 1
      <4>1. k <= passed'
        <5>1. passed' = passed + 1
          BY <2>1
        <5>2. QED
          BY <1>1, <3>1, <5>1
      <4>2. QED
        BY <2>2, <2>4, <3>1, <4>1
    <3>2. CASE k # passed + 1
      <4>1. k <= passed' <=> k <= passed
        <5>1. passed' = passed + 1
          BY <2>1
        <5>2. QED
          BY <1>1, <3>2, <5>1
      <4>2. QED
        BY <2>2, <2>3, <3>2, <4>1 DEF Writing
    <3>3. QED
      BY <3>1, <3>2
  <2>6. Writing'
    BY <1>2, <2>1, <2>3, <2>5 DEF Writing
  <2>7. passed' \in Nat
    <3>1. passed' = passed + 1
      BY <2>1
    <3>2. QED
      BY <1>1, <3>1
  <2>8. QED
    BY <1>2, <2>1, <2>2, <2>6, <2>7 DEF Stages
<1>5. ASSUME EraseKernels PROVE Stages'
  <2>1. /\ phase = "write_functions" /\ phase' = "write_kernels" /\ passed' = 0
        /\ passed = Size /\ UNCHANGED <<Given, functions>> /\ genx_kernels' = NoMetadata
    BY <1>1, <1>5 DEF EraseKernels, End, Loop
  <2>2. Writing
    BY <2>1 DEF Stages
  <2>3. Rewriting'
    <3>1. \A k \in 1..Size : k <= passed /\ ~(k <= 0)
      <4>1. passed = Size
        BY <2>1
      <4>2. QED
        BY <1>1, <4>1
    <3>2. QED
      BY <1>2, <2>1, <2>2, <3>1 DEF Writing, Rewriting
  <2>4. QED
    BY <1>2, <2>1, <2>3 DEF Stages
<1>6. ASSUME RewriteKernel PROVE Stages'
  <2> DEFINE F == WriteKernel(functions[passed + 1])
  <2>1. /\ phase = "write_kernels" /\ phase' = phase /\ passed' = passed + 1
        /\ passed < Len(functions) /\ UNCHANGED <<Given, genx_kernels>>
        /\ functions' = [functions EXCEPT ![passed + 1] = F]
    BY <1>6 DEF RewriteKernel, Step
  <2>2. /\ passed + 1 \in 1..Size /\ passed \in Nat /\ IsList(functions', Size)
        /\ functions'[passed + 1] = F
        /\ \A k \in 1..Size : k # passed + 1 => functions'[k] = functions[k]
    BY <2>1, OneFunction
  <2>3. Rewriting
    BY <2>1 DEF Stages
  <2>4. F = WriteKernel(Written(passed + 1))
    BY <2>2, <2>3 DEF Rewriting
  <2> HIDE DEF F
  <2>5. ASSUME NEW k \in 1..Size
        PROVE  functions'[k] = IF k <= passed' THEN WriteKernel(Written(k)) ELSE Written(k)
    <3>1. CASE k = passed + 1
      <4>1. k <= passed'
        <5>1. passed' = passed + 1
          BY <2>1
        <5>2. QED
          BY <1>1, <3>1, <5>1
      <4>2. QED
        BY <2>2, <2>4, <3>1, <4>1
    <3>2. CASE k # passed + 1
      <4>1. k <= passed' <=> k <= passed
        <5>1. passed' = passed + 1
          BY <2>1
        <5>2. QED
          BY <1>1, <3>2, <5>1
      <4>2. QED
        BY <2>2, <2>3, <3>2, <4>1 DEF Rewriting
    <3>3. QED
      BY <3>1, <3>2
  <2>6. Rewriting'
    BY <1>2, <2>1, <2>5 DEF Rewriting
  <2>7. passed' \in Nat
    <3>1. passed' = passed + 1
      BY <2>1
    <3>2. QED
      BY <1>1, <3>1
  <2>8. QED
    BY <1>2, <2>1, <2>2, <2>6, <2>7 DEF Stages
<1>7. ASSUME EndWriter PROVE Stages'
  <2>1. /\ phase = "write_kernels" /\ phase' = "written" /\ passed' = 0
        /\ passed = Size /\ UNCHANGED <<Given, functions, genx_kernels>>
    BY <1>1, <1>7 DEF EndWriter, End, Loop
  <2>2. Rewriting
    BY <2>1 DEF Stages
  <2>3. Sendable'
    <3>1. \A k \in 1..Size : k <= passed
      <4>1. passed = Size
        BY <2>1
      <4>2. QED
        BY <1>1, <4>1
    <3>2. QED
      BY <1>2, <2>1, <2>2, <3>1 DEF Rewriting, Sendable
  <2>4. QED
    BY <1>2, <2>1, <2>3 DEF Stages
<1>8. QED
  BY <1>3, <1>4, <1>5, <1>6, <1>7

LEMMA TranslatorStages ==
  ASSUME Stages
  PROVE  Translate \/ SkipReader => Stages'
<1>1. /\ Len(functions) = Size /\ Size \in Nat
      /\ functions = [k \in 1..Size |-> functions[k]]
  BY StagesLength
<1>2. ASSUME Translate PROVE Stages'
  <2>1. /\ phase = "written" /\ phase' = "translated"
        /\ UNCHANGED <<passed, genx_kernels, Given>>
    BY <1>2 DEF Translate
  <2>2. PICK unused : functions' = [k \in 1..Size |-> Translated(functions[k], k \in unused)]
    BY <1>1, <1>2 DEF Translate, Functions
  <2>3. Sendable
    BY <2>1 DEF Stages
  <2>4. Size' = Size /\ \A k : Written(k)' = Written(k)
    BY <2>1 DEF Size, Written
  <2>5. ASSUME NEW k \in 1..Size
        PROVE  \E lost \in BOOLEAN : functions'[k] = Translated(WriteKernel(Written(k)), lost)
    <3> DEFINE lost == k \in unused
    <3>1. functions'[k] = Translated(WriteKernel(Written(k)), lost)
      BY <2>2, <2>3 DEF Sendable
    <3>2. lost \in BOOLEAN
      OBVIOUS
    <3> HIDE DEF lost
    <3>3. QED
      BY <3>1, <3>2
  <2>6. Received'
    BY <2>4, <2>5 DEF Received, InSPIRV
  <2>7. IsList(functions', Size)
    <3>1. functions' = [k \in 1..Size |-> functions'[k]]
      BY <2>2
    <3>2. QED
      BY <1>1, <3>1 DEF IsList
  <2>8. QED
    BY <2>1, <2>4, <2>6, <2>7 DEF Stages
<1>3. ASSUME SkipReader PROVE Stages'
  <2>1. phase' = "skipped" /\ passed' = 0 /\ UNCHANGED <<Given, functions>>
    BY <1>3 DEF SkipReader, Loop
  <2>2. Size' = Size
    BY <2>1 DEF Size
  <2>3. QED
    BY <2>1, <2>2 DEF Stages
<1>4. QED
  BY <1>2, <1>3

LEMMA ReaderStages ==
  ASSUME Stages
  PROVE  /\ ReadGlobals \/ EndKernels \/ ReadFunction \/ EndReader => Stages'
         /\ \A converts \in BOOLEAN : RestoreKernel(converts) => Stages'
<1>1. Len(functions) = Size /\ Size \in Nat /\ passed \in Nat /\ Given \in Modules
  BY StagesLength DEF Stages
<1>2. ASSUME UNCHANGED Given
      PROVE  Size' = Size /\ \A k : Written(k)' = Written(k)
  BY <1>2 DEF Size, Written
<1>3. ASSUME ReadGlobals PROVE Stages'
  <2>1. /\ phase = "translated" /\ phase' = "read_kernels" /\ passed' = 0
        /\ UNCHANGED <<Given, functions, genx_kernels>>
    BY <1>3 DEF ReadGlobals, Loop
  <2>2. Received
    BY <2>1 DEF Stages
  <2>3. Restoring'
    <3>1. \A k \in 1..Size : ~(k <= 0)
      BY <1>1
    <3>2. QED
      BY <1>2, <2>1, <2>2, <3>1 DEF Received, Restoring, InSPIRV
  <2>4. QED
    BY <1>2, <2>1, <2>3 DEF Stages
<1>4. ASSUME NEW converts \in BOOLEAN, RestoreKernel(converts) PROVE Stages'
  <2> DEFINE F == ReadKernel(functions[passed + 1], converts)
  <2>1. /\ phase = "read_kernels" /\ phase' = phase /\ passed' = passed + 1
        /\ passed < Len(functions) /\ UNCHANGED <<Given, genx_kernels>>
        /\ functions' = [functions EXCEPT ![passed + 1] = F]
    BY <1>4 DEF RestoreKernel, Step
  <2>2. /\ passed + 1 \in 1..Size /\ passed \in Nat /\ IsList(functions', Size)
        /\ functions'[passed + 1] = F
        /\ \A k \in 1..Size : k # passed + 1 => functions'[k] = functions[k]
    BY <2>1, OneFunction
  <2>3. Restoring
    BY <2>1 DEF Stages
  <2>4. Back(Given, passed + 1, F)
    <3>1. ~(passed + 1 <= passed)
      BY <1>1
    <3>2. InSPIRV(passed + 1, functions[passed + 1])
      BY <2>2, <2>3, <3>1 DEF Restoring
    <3>3. QED
      BY <3>2 DEF InSPIRV, Written, Back
  <2> HIDE DEF F
  <2>5. passed' = passed + 1
    BY <2>1
  <2>6. ASSUME NEW k \in 1..Size
        PROVE  IF k <= passed' THEN Back(Given, k, functions'[k]) ELSE InSPIRV(k, functions'[k])
    <3>1. CASE k = passed + 1
      <4>1. k <= passed'
        BY <1>1, <2>5, <3>1
      <4>2. QED
        BY <2>2, <2>4, <3>1, <4>1
    <3>2. CASE k # passed + 1
      <4>1. k <= passed' <=> k <= passed
        BY <1>1, <2>5, <3>2
      <4>2. QED
        BY <2>2, <2>3, <3>2, <4>1 DEF Restoring
    <3>3. QED
      BY <3>1, <3>2
  <2>7. Restoring'
    BY <1>2, <2>1, <2>6 DEF Restoring, InSPIRV
  <2>8. passed' \in Nat
    BY <1>1, <2>5
  <2>9. QED
    BY <1>2, <2>1, <2>2, <2>7, <2>8 DEF Stages
<1>5. ASSUME EndKernels PROVE Stages'
  <2>1. /\ phase = "read_kernels" /\ phase' = "read_functions" /\ passed' = 0
        /\ passed = Size /\ UNCHANGED <<Given, functions, genx_kernels>>
    BY <1>1, <1>5 DEF EndKernels, End, Loop
  <2>2. Restoring /\ genx_kernels = NoMetadata
    BY <2>1 DEF Stages
  <2>3. \A k \in 1..Size : Back(Given, k, functions[k])
    <3>1. \A k \in 1..Size : k <= passed
      <4>1. passed = Size
        BY <2>1
      <4>2. QED
        BY <1>1, <4>1
    <3>2. QED
      BY <2>2, <3>1 DEF Restoring
  <2>4. RestoredMetadata(0)
    BY <1>1, <2>2, ListStarts DEF RestoredMetadata
  <2>5. Reading'
    BY <1>2, <2>1, <2>3, <2>4 DEF Reading, RestoredMetadata
  <2>6. QED
    BY <1>2, <2>1, <2>5 DEF Stages
<1>6. ASSUME ReadFunction PROVE Stages'
  <2> DEFINE k == passed + 1
             F == functions[k]
             G == RestoreAttributes(F)
  <2>1. /\ phase = "read_functions" /\ phase' = phase /\ passed' = k
        /\ passed < Len(functions) /\ UNCHANGED Given
    BY <1>6 DEF ReadFunction, Step
  <2>2. Reading
    BY <2>1 DEF Stages
  <2>3. k \in 1..Size /\ k > passed
    <3>1. passed < Size
      BY <1>1, <2>1
    <3>2. QED
      BY <1>1, <3>1
  <2>4. Back(Given, k, F) /\ RestoredList(Given, genx_kernels, passed)
    BY <2>2, <2>3 DEF Reading, RestoredMetadata
  <2>5. RestoredList(Given, genx_kernels', k) /\ \E H : functions' = [functions EXCEPT ![k] = H]
    <3>1. CASE k \in Numbered(Given)
      <4>1. PICK j \in 1..Len(Given.kernels) : Given.kernels[j].function = k
        BY <3>1 DEF Numbered
      <4> HIDE DEF k
      <4>2. KernelBack(Given, j, F)
        BY <1>1, <2>4, <4>1, KernelComesBack
      <4>3. MetadataBack(Given, j, KernelMD(G, k))
        BY <1>1, <4>1, <4>2, MetadataComesBack
      <4>4. Has(F, "VCFunction") /\ F.cc = "SPIR_KERNEL"
        BY <4>2 DEF KernelBack
      <4>5. /\ functions' = [functions EXCEPT ![k] = ForgetKernelAttributes(G)]
            /\ genx_kernels' = Append(genx_kernels, KernelMD(G, k))
        BY <1>6, <4>4 DEF ReadFunction, k
      <4> HIDE DEF F, G
      <4>6. QED
        BY <1>1, <2>4, <4>1, <4>3, <4>5, ListGrows DEF k
    <3>2. CASE k \notin Numbered(Given)
      <4>1. k \in 1..Len(Given.functions) \ Numbered(Given)
        BY <2>3, <3>2 DEF Size
      <4>2. Has(F, "VCFunction") /\ F.cc # "SPIR_KERNEL"
        BY <1>1, <2>4, <4>1, FunctionComesBack
      <4>3. functions' = [functions EXCEPT ![k] = G] /\ genx_kernels' = genx_kernels
        BY <1>6, <4>2 DEF ReadFunction
      <4>4. RestoredList(Given, genx_kernels, k)
        BY <1>1, <2>4, <3>2, ListStays
      <4>5. QED
        BY <4>3, <4>4
    <3>3. QED
      BY <3>1, <3>2
  <2>6. PICK H : functions' = [functions EXCEPT ![k] = H]
    BY <2>5
  <2>7. /\ IsList(functions', Size)
        /\ \A l \in 1..Size : l # k => functions'[l] = functions[l]
    BY <2>1, <2>6, OneFunction
  <2>8. ASSUME NEW l \in 1..Size, l > k
        PROVE  Back(Given, l, functions'[l])
    <3>1. l # k /\ l > passed
      BY <1>1, <2>8
    <3>2. QED
      BY <2>2, <2>7, <3>1 DEF Reading
  <2>9. Reading'
    BY <1>2, <2>1, <2>5, <2>8 DEF Reading, RestoredMetadata
  <2>10. k \in Nat
    BY <1>1
  <2>11. QED
    BY <1>2, <2>1, <2>7, <2>9, <2>10 DEF Stages
<1>7. ASSUME EndReader PROVE Stages'
  <2>1. /\ phase = "read_functions" /\ phase' = "read" /\ passed' = 0
        /\ passed = Size /\ UNCHANGED <<Given, functions, genx_kernels>>
    BY <1>1, <1>7 DEF EndReader, End, Loop
  <2>2. Reading
    BY <2>1 DEF Stages
  <2>3. RestoredMetadata(Size)'
    BY <1>2, <2>1, <2>2 DEF Reading, RestoredMetadata
  <2>4. QED
    BY <1>2, <2>1, <2>3 DEF Stages
<1>8. QED
  BY <1>3, <1>4, <1>5, <1>6, <1>7

LEMMA StagesNext == Stages /\ [AdaptorsNext]_adaptors => Stages'
<1> SUFFICES ASSUME Stages, [AdaptorsNext]_adaptors PROVE Stages'
  OBVIOUS
<1>1. CASE AdaptorStep
  BY <1>1, WriterStages, TranslatorStages, ReaderStages DEF AdaptorStep
<1>2. CASE RewriteKernel
  BY <1>2, WriterStages
<1>3. CASE Translate
  BY <1>3, TranslatorStages
<1>4. CASE \E converts \in BOOLEAN : RestoreKernel(converts)
  <2>1. PICK converts \in BOOLEAN : RestoreKernel(converts)
    BY <1>4
  <2>2. QED
    BY <2>1, ReaderStages
<1>5. CASE UNCHANGED adaptors
  <2>1. UNCHANGED <<phase, passed, functions, genx_kernels, Given>>
    BY <1>5 DEF adaptors
  <2>2. /\ Size' = Size /\ Loaded' = Loaded /\ Writing' = Writing /\ Rewriting' = Rewriting
        /\ Sendable' = Sendable /\ Received' = Received /\ Restoring' = Restoring
        /\ Reading' = Reading /\ RestoredMetadata(Size)' = RestoredMetadata(Size)
    BY <2>1 DEF Size, Written, Loaded, Writing, Rewriting, Sendable, Received, Restoring,
                Reading, RestoredMetadata, InSPIRV
  <2>3. QED
    BY <2>1, <2>2 DEF Stages
<1>6. QED
  BY <1>1, <1>2, <1>3, <1>4, <1>5 DEF AdaptorsNext

-----------------------------------------------------------------------------
(* What the back end finds.                                                *)

LEMMA StagesAlways == AdaptorsSpec => []Stages
BY StagesInit, StagesNext, PTL DEF AdaptorsSpec

LEMMA AllRestored ==
  ASSUME Stages, phase = "read"
  PROVE  /\ Done(Given, Size) = KernelsBefore
         /\ RestoredList(Given, genx_kernels, Size)
<1>1. RestoredList(Given, genx_kernels, Size)
  BY DEF Stages, RestoredMetadata
<1>2. Numbered(Given) \subseteq 1..Size /\ Size \in Nat
  BY NumberedFunctions DEF Stages, Size
<1>3. Done(Given, Size) = Numbered(Given)
  BY <1>2 DEF Done
<1>4. QED
  BY <1>1, <1>3 DEF Numbered, KernelsBefore

LEMMA KernelRestored ==
  ASSUME Stages, phase = "read", NEW k \in KernelsBefore
  PROVE  SaysTheSame(Given.functions[k], Before(k), After(k))
<1>1. After(k) \in {genx_kernels[i] : i \in 1..Len(genx_kernels)} /\ After(k).function = k
  <2>1. \E i \in 1..Len(genx_kernels) : genx_kernels[i].function = k
    BY AllRestored DEF RestoredList
  <2>2. \E MD \in {genx_kernels[i] : i \in 1..Len(genx_kernels)} : MD.function = k
    BY <2>1
  <2>3. QED
    BY <2>2 DEF After
<1>2. PICK i \in 1..Len(genx_kernels) : After(k) = genx_kernels[i]
  BY <1>1
<1>3. PICK j \in 1..Len(Given.kernels) : MetadataBack(Given, j, genx_kernels[i])
  BY AllRestored DEF RestoredList
<1>4. Given.kernels[j].function = k
  BY <1>1, <1>2, <1>3 DEF MetadataBack, SaysTheSame
<1>5. Before(k) = Given.kernels[j]
  <2> DEFINE all == {Given.kernels[l] : l \in 1..Len(Given.kernels)}
  <2>1. \A MD \in all : MD.function = k <=> MD = Given.kernels[j]
    BY <1>4, ModuleFacts DEF Stages
  <2>2. Given.kernels[j] \in all
    OBVIOUS
  <2> HIDE DEF all
  <2>3. (CHOOSE MD \in all : MD.function = k) = Given.kernels[j]
    BY <2>1, <2>2
  <2>4. QED
    BY <2>3 DEF Before, all
<1>6. QED
  BY <1>2, <1>3, <1>4, <1>5 DEF MetadataBack

\* The back end finds the kernels of the front end, with their names, sizes and
\* kinds, and the words of the arguments that are not rewritten: for every module,
\* whichever functions SPIR-V loses a conversion of and the reader knows one of.
THEOREM KernelsComeBack == AdaptorsSpec => []KernelsRestored
<1>1. Stages => KernelsRestored
  <2> SUFFICES ASSUME Stages, phase = "read"
               PROVE  KernelsRestored
    BY DEF KernelsRestored
  <2>1. /\ {genx_kernels[j].function : j \in 1..Len(genx_kernels)} = KernelsBefore
        /\ Len(genx_kernels) = Cardinality(KernelsBefore)
    BY AllRestored DEF RestoredList
  <2>2. ASSUME NEW k \in KernelsBefore
        PROVE  /\ After(k).name = Before(k).name
               /\ After(k).slm = Before(k).slm
               /\ Before(k).operands > NBarrierCntOp => After(k).barriers = Before(k).barriers
               /\ After(k).kinds = Before(k).kinds
               /\ Before(k).operands > ArgIOKindsOp => After(k).iokinds = Before(k).iokinds
               /\ \A a \in 1..Len(After(k).descs) :
                    ~Rewritten(k, a) => After(k).descs[a] = DescBefore(k, a)
    BY <2>2, KernelRestored DEF SaysTheSame, Rewritten, KindBefore, DescBefore
  <2>3. QED
    BY <2>1, <2>2 DEF KernelsRestored
<1>2. QED
  BY <1>1, StagesAlways, PTL

\* A surface comes back with the first type and the first access of its words.
THEOREM SurfacesComeBack == AdaptorsSpec => []SurfacesRestored
<1>1. Stages => SurfacesRestored
  <2> SUFFICES ASSUME Stages, phase = "read", NEW k \in KernelsBefore,
                      NEW a \in 1..Len(After(k).kinds),
                      KindBefore(k, a) = Surface, Rewritten(k, a)
               PROVE  After(k).descs[a] = DeclaredSurface(DescBefore(k, a))
    BY DEF SurfacesRestored
  <2>1. QED
    BY KernelRestored DEF SaysTheSame, Rewritten, KindBefore, DescBefore
<1>2. QED
  BY <1>1, StagesAlways, PTL

\* A general argument comes back as a pointer of the user exactly when it was one
\* and not passed by value, or is a pointer to global memory.
THEOREM PointersComeBack == AdaptorsSpec => []PointersRestored
<1>1. Stages => PointersRestored
  <2> SUFFICES ASSUME Stages, phase = "read", NEW k \in KernelsBefore,
                      NEW a \in 1..Len(After(k).kinds),
                      KindBefore(k, a) = General, Rewritten(k, a)
               PROVE  LET arg == Given.functions[k].args[a]
                      IN  After(k).descs[a] = <<"svmptr_t">>
                            <=> \/ /\ FirstOf(DescBefore(k, a), DOMAIN SPIRVType, "") = "svmptr_t"
                                   /\ ~arg.byval
                                \/ arg.type \in {Pointer(1), Pointer(2)}
    BY DEF PointersRestored
  <2>1. QED
    BY KernelRestored DEF SaysTheSame, Rewritten, KindBefore, DescBefore
<1>2. QED
  BY <1>1, StagesAlways, PTL

-----------------------------------------------------------------------------
(* The attributes of functions and variables.                              *)

SizeNames == {"VCSLMSize", "VCNamedBarrierCount"}
CMAttributes(F) == {x \in F.attributes : x[1] \in DOMAIN cmToVC}
Renamed(F) == {<<cmToVC[x[1]], x[2]>> : x \in CMAttributes(F)}
Subgroup(F) == IF Has(F, "OCLRuntime") THEN ValueOf(F, "OCLRuntime") ELSE 0

LEMMA WrittenFields ==
  ASSUME NEW m \in Modules, NEW k \in 1..Len(m.functions)
  PROVE  LET F == m.functions[k]
             W == WriterRunOnFunction(F, m.kernels, k)
         IN  /\ IsFunction(W) /\ Len(W.args) \in Nat
             /\ W.simd = IF m.kernels = NoMetadata THEN 0 ELSE Subgroup(F)
             /\ \E sizes : /\ W.attributes = Common(F) \cup sizes
                           /\ \A x \in sizes : x[1] \in SizeNames
                           /\ k \notin Numbered(m) => sizes = {}
<1> DEFINE F == m.functions[k]
           S == Sized(F)
           W == WriterRunOnFunction(F, m.kernels, k)
<1>1. PICK kernel : FrontEndFunction(F, kernel)
  BY ModuleFacts
<1>2. /\ F = [name |-> F.name, cc |-> F.cc, attributes |-> F.attributes, simd |-> 0,
              used |-> F.used, args |-> F.args]
      /\ IsList(F.args, Len(F.args)) /\ Len(F.args) \in Nat
      /\ \A a \in 1..Len(F.args) : FrontEndArgument(F.args[a])
  BY <1>1 DEF FrontEndFunction, IsList
<1>3. /\ IsFunction(S) /\ S.args = F.args /\ S.attributes = Common(F) /\ S.simd = Subgroup(F)
  BY <1>1, SizedFields DEF Subgroup
<1>4. CASE k \in Numbered(m)
  <2>1. PICK j \in 1..Len(m.kernels) : m.kernels[j].function = k
    BY <1>4 DEF Numbered
  <2> DEFINE MD == m.kernels[j]
             sizes == {<<"VCSLMSize", MD.slm>>}
                        \cup IF MD.operands > NBarrierCntOp
                               THEN {<<"VCNamedBarrierCount", MD.barriers>>} ELSE {}
  <2>2. W = ApplyMetadata(S, MD)
    BY <2>1, WrittenKernel
  <2>3. FrontEndKernel(S, MD)
    <3>1. FrontEndKernel(F, MD)
      BY <2>1, ModuleFacts
    <3>2. QED
      BY <1>3, <3>1 DEF FrontEndKernel
  <2>4. m.kernels # NoMetadata
    <3>1. Len(m.kernels) # 0
      BY <2>1
    <3>2. QED
      BY <3>1 DEF NoMetadata
  <2> HIDE DEF F, S, W, MD
  <2>5. /\ IsFunction(W) /\ W.simd = S.simd
        /\ W.attributes = S.attributes \cup sizes
        /\ W.args = [a \in 1..Len(S.args) |-> KernelArgument(S.args[a], MD, a)]
    BY <1>2, <1>3, <2>2, <2>3, AppliedFields, SMTT(30)
  <2>6. Len(W.args) \in Nat
    <3>1. Len(S.args) \in Nat
      BY <1>2, <1>3
    <3>2. QED
      BY <2>5, <3>1
  <2>7. \A x \in sizes : x[1] \in SizeNames
    BY DEF SizeNames
  <2> HIDE DEF sizes
  <2>8. /\ IsFunction(W) /\ Len(W.args) \in Nat
        /\ W.simd = IF m.kernels = NoMetadata THEN 0 ELSE Subgroup(F)
        /\ \E all : /\ W.attributes = Common(F) \cup all
                    /\ \A x \in all : x[1] \in SizeNames
                    /\ k \notin Numbered(m) => all = {}
    BY <1>3, <1>4, <2>4, <2>5, <2>6, <2>7
  <2>9. QED
    BY <2>8 DEF W, F
<1>5. CASE k \notin Numbered(m)
  <2>1. W = IF m.kernels = NoMetadata THEN [F EXCEPT !.attributes = Common(F)] ELSE S
    <3>1. KernelMDs(m.kernels, k) = {}
      BY <1>5 DEF KernelMDs, Numbered
    <3>2. QED
      BY <3>1 DEF WriterRunOnFunction, Sized, Common
  <2> HIDE DEF F, S, W
  <2>2. LET C == [F EXCEPT !.attributes = Common(F)]
        IN  IsFunction(C) /\ C.args = F.args /\ C.attributes = Common(F) /\ C.simd = 0
    BY <1>2 DEF IsFunction
  <2>3. /\ IsFunction(W) /\ W.args = F.args /\ W.attributes = Common(F)
        /\ W.simd = IF m.kernels = NoMetadata THEN 0 ELSE Subgroup(F)
    BY <1>3, <2>1, <2>2
  <2>4. QED
    BY <1>2, <2>3 DEF W, F
<1>6. QED
  BY <1>4, <1>5

LEMMA BackFields ==
  ASSUME NEW m \in Modules, NEW k \in 1..Len(m.functions), NEW G, Back(m, k, G)
  PROVE  LET F == m.functions[k]
         IN  /\ IsFunction(G)
             /\ G.simd = IF m.kernels = NoMetadata THEN 0 ELSE Subgroup(F)
             /\ \E sizes : /\ G.attributes = {<<"VCFunction", 0>>} \cup Renamed(F) \cup sizes
                           /\ \A x \in sizes : x[1] \in SizeNames
                           /\ k \notin Numbered(m) => sizes = {}
<1> DEFINE F == m.functions[k]
           W == WriterRunOnFunction(F, m.kernels, k)
<1>1. PICK kernel : FrontEndFunction(F, kernel)
  BY ModuleFacts
<1>2. /\ IsFunction(W) /\ Len(W.args) \in Nat
      /\ W.simd = IF m.kernels = NoMetadata THEN 0 ELSE Subgroup(F)
  BY WrittenFields
<1>3. PICK sizes : /\ W.attributes = Common(F) \cup sizes
                   /\ \A x \in sizes : x[1] \in SizeNames
                   /\ k \notin Numbered(m) => sizes = {}
  BY WrittenFields
<1> HIDE DEF W
<1>4. PICK unused, known \in BOOLEAN :
        G = ReadKernel(Translated(WriteKernel(W), unused), known)
  BY DEF Back, W
<1> DEFINE T == Translated(WriteKernel(W), unused)
<1>5. /\ IsFunction(T) /\ T.simd = W.simd /\ Len(T.args) \in Nat
      /\ T.attributes = {x \in W.attributes : x[1] \in KnownToSPIRV}
  BY <1>2, SentFields
<1> HIDE DEF T
<1>6. IsFunction(G) /\ G.simd = T.simd /\ G.attributes = T.attributes
  <2>1. G = ReadKernel(T, known)
    BY <1>4 DEF T
  <2>2. QED
    BY <1>5, <2>1, ReadFields
<1>7. {x \in Common(F) : x[1] \in KnownToSPIRV} = {<<"VCFunction", 0>>} \cup Renamed(F)
  <2>1. Common(F) = F.attributes \cup {<<"VCFunction", 0>>} \cup Renamed(F)
    BY DEF Common, Renamed, CMAttributes
  <2>2. \A x \in F.attributes : x[1] \in DOMAIN cmToVC \cup {"CMGenXMain", "OCLRuntime"}
    BY <1>1 DEF FrontEndFunction
  <2>3. \A name \in DOMAIN cmToVC \cup {"CMGenXMain", "OCLRuntime"} : name \notin KnownToSPIRV
    BY DEF KnownToSPIRV, vcNames, cmToVC
  <2>4. \A x \in Renamed(F) : x[1] \in KnownToSPIRV
    BY DEF Renamed, CMAttributes, KnownToSPIRV, vcNames
  <2>5. <<"VCFunction", 0>>[1] \in KnownToSPIRV
    BY DEF KnownToSPIRV
  <2> HIDE DEF F
  <2>6. QED
    BY <2>1, <2>2, <2>3, <2>4, <2>5
<1>8. \A x \in sizes : x[1] \in KnownToSPIRV
  BY <1>3 DEF SizeNames, KnownToSPIRV
<1>9. G.attributes = {<<"VCFunction", 0>>} \cup Renamed(F) \cup sizes
  BY <1>3, <1>5, <1>6, <1>7, <1>8
<1>10. QED
  BY <1>2, <1>3, <1>5, <1>6, <1>9

\* The attributes that come back: the subgroup size needs metadata to be kept in.
Kept(m, F) == {a \in F.attributes : a[1] # "OCLRuntime" \/ Numbered(m) # {}}
FunctionRead(m, k, G) ==
  IF k \in Numbered(m) THEN ForgetKernelAttributes(RestoreAttributes(G))
                       ELSE RestoreAttributes(G)

\* RestoreAttributes undoes what the writer's first loop has done.
LEMMA RestoredAttributes ==
  ASSUME NEW m \in Modules, NEW k \in 1..Len(m.functions), NEW G, Back(m, k, G)
  PROVE  LET F == m.functions[k]
         IN  \E sizes :
               /\ RestoreAttributes(G).attributes =
                    sizes \cup CMAttributes(F)
                      \cup IF m.kernels # NoMetadata /\ Subgroup(F) # 0
                             THEN {<<"OCLRuntime", Subgroup(F)>>} ELSE {}
               /\ \A x \in sizes : x[1] \in SizeNames
               /\ k \notin Numbered(m) => sizes = {}
<1> DEFINE F == m.functions[k]
           runtime == IF G.simd # 0 THEN {<<"OCLRuntime", G.simd>>} ELSE {}
<1>1. PICK kernel : FrontEndFunction(F, kernel)
  BY ModuleFacts
<1>2. IsFunction(G) /\ G.simd = IF m.kernels = NoMetadata THEN 0 ELSE Subgroup(F)
  BY BackFields
<1>3. PICK sizes : /\ G.attributes = {<<"VCFunction", 0>>} \cup Renamed(F) \cup sizes
                   /\ \A x \in sizes : x[1] \in SizeNames
                   /\ k \notin Numbered(m) => sizes = {}
  BY BackFields
<1> DEFINE others == {a \in G.attributes : a[1] \notin vcNames \cup {"VCFunction"}}
           renamed == {a \in G.attributes : a[1] \in vcNames}
<1>4. /\ \A x \in CMAttributes(F) : x = <<x[1], x[2]>> /\ x[1] \in DOMAIN cmToVC
      /\ \A x \in CMAttributes(F) : <<cmToVC[x[1]], x[2]>> \in Renamed(F)
      /\ \A y \in Renamed(F) : \E x \in CMAttributes(F) : y = <<cmToVC[x[1]], x[2]>>
  BY <1>1 DEF FrontEndFunction, CMAttributes, Renamed
<1>5. \A name \in DOMAIN cmToVC : cmToVC[name] \in vcNames /\ cmOf(cmToVC[name]) = name
  <2>1. \A name, other \in DOMAIN cmToVC : cmToVC[name] = cmToVC[other] => name = other
    BY DEF cmToVC
  <2>2. QED
    BY <2>1 DEF vcNames, cmOf
<1>6. /\ \A name \in SizeNames : name \notin vcNames \cup {"VCFunction"}
      /\ "VCFunction" \notin vcNames
  BY DEF SizeNames, vcNames, cmToVC
<1>7. \A name, value : <<name, value>>[1] = name /\ <<name, value>>[2] = value
  OBVIOUS
<1>8. \A y \in Renamed(F) : y[1] \in vcNames
  BY <1>4, <1>5, <1>7
<1> HIDE DEF F
<1>9. others = sizes /\ renamed = Renamed(F)
  BY <1>3, <1>6, <1>7, <1>8
<1>10. {<<cmOf(a[1]), a[2]>> : a \in Renamed(F)} = CMAttributes(F)
  <2>1. \A x \in CMAttributes(F) :
          LET y == <<cmToVC[x[1]], x[2]>> IN y \in Renamed(F) /\ <<cmOf(y[1]), y[2]>> = x
    BY <1>4, <1>5, <1>7
  <2>2. \A y \in Renamed(F) : \E x \in CMAttributes(F) : <<cmOf(y[1]), y[2]>> = x
    BY <1>4, <1>5, <1>7
  <2> DEFINE back == {<<cmOf(a[1]), a[2]>> : a \in Renamed(F)}
  <2>3. \A y \in Renamed(F) : <<cmOf(y[1]), y[2]>> \in CMAttributes(F)
    BY <2>2
  <2>4. \A x \in CMAttributes(F) : \E y \in Renamed(F) : x = <<cmOf(y[1]), y[2]>>
    BY <2>1
  <2>5. back \subseteq CMAttributes(F)
    BY <2>3
  <2>6. CMAttributes(F) \subseteq back
    BY <2>4
  <2> HIDE DEF back
  <2>7. back = CMAttributes(F)
    BY <2>5, <2>6
  <2>8. QED
    BY <2>7 DEF back
<1>11. RestoreAttributes(G).attributes =
         others \cup {<<cmOf(a[1]), a[2]>> : a \in renamed} \cup runtime
  <2> DEFINE all == others \cup {<<cmOf(a[1]), a[2]>> : a \in renamed} \cup runtime
  <2>1. RestoreAttributes(G) = [G EXCEPT !.attributes = all]
    BY DEF RestoreAttributes
  <2> HIDE DEF all
  <2>2. [G EXCEPT !.attributes = all].attributes = all
    BY <1>2 DEF IsFunction
  <2>3. QED
    BY <2>1, <2>2 DEF all
<1> HIDE DEF others, renamed
<1>12. runtime = IF m.kernels # NoMetadata /\ Subgroup(F) # 0
                   THEN {<<"OCLRuntime", Subgroup(F)>>} ELSE {}
  BY <1>2 DEF F
<1> HIDE DEF runtime
<1>13. RestoreAttributes(G).attributes =
         sizes \cup CMAttributes(F)
           \cup IF m.kernels # NoMetadata /\ Subgroup(F) # 0
                  THEN {<<"OCLRuntime", Subgroup(F)>>} ELSE {}
  BY <1>9, <1>10, <1>11, <1>12
<1>14. QED
  BY <1>3, <1>13 DEF F

\* What the front end gave a function, sorted.
LEMMA GivenAttributes ==
  ASSUME NEW m \in Modules, NEW k \in 1..Len(m.functions)
  PROVE  LET F == m.functions[k]
         IN  /\ F.attributes =
                  CMAttributes(F)
                    \cup (IF k \in Numbered(m) THEN {<<"CMGenXMain", 0>>} ELSE {})
                    \cup (IF Subgroup(F) # 0 THEN {<<"OCLRuntime", Subgroup(F)>>} ELSE {})
<1> DEFINE F == m.functions[k]
<1>1. FrontEndFunction(F, k \in Numbered(m))
  <2>1. KernelMDs(m.kernels, k) # {} <=> k \in Numbered(m)
    BY DEF KernelMDs, Numbered
  <2>2. FrontEndFunction(F, KernelMDs(m.kernels, k) # {})
    BY ModulesAssumption
  <2>3. QED
    BY <2>1, <2>2 DEF FrontEndFunction
<1>2. /\ \A x \in F.attributes :
           /\ x = <<x[1], x[2]>>
           /\ x[1] \in DOMAIN cmToVC \cup {"CMGenXMain", "OCLRuntime"}
           /\ x[1] = "OCLRuntime" => \A y \in F.attributes : x[1] = y[1] => x = y
           /\ x # <<"OCLRuntime", 0>>
      /\ {x \in F.attributes : x[1] = "CMGenXMain"} =
           IF k \in Numbered(m) THEN {<<"CMGenXMain", 0>>} ELSE {}
  BY <1>1 DEF FrontEndFunction
<1> HIDE DEF F
<1>3. {x \in F.attributes : x[1] = "OCLRuntime"} =
        IF Subgroup(F) # 0 THEN {<<"OCLRuntime", Subgroup(F)>>} ELSE {}
  <2>1. CASE Has(F, "OCLRuntime")
    <3>1. PICK x \in F.attributes : x[1] = "OCLRuntime"
      BY <2>1 DEF Has
    <3>2. \A y \in F.attributes : y[1] = "OCLRuntime" <=> y = x
      BY <1>2, <3>1
    <3>3. (CHOOSE a \in F.attributes : a[1] = "OCLRuntime") = x
      BY <3>1, <3>2
    <3>4. Subgroup(F) = x[2]
      BY <2>1, <3>3 DEF Subgroup, ValueOf
    <3>5. x = <<"OCLRuntime", Subgroup(F)>> /\ x # <<"OCLRuntime", 0>>
      BY <1>2, <3>1, <3>4
    <3>6. QED
      BY <3>1, <3>2, <3>5
  <2>2. CASE ~Has(F, "OCLRuntime")
    <3>1. Subgroup(F) = 0
      BY <2>2 DEF Subgroup
    <3>2. {x \in F.attributes : x[1] = "OCLRuntime"} = {}
      BY <2>2 DEF Has
    <3>3. QED
      BY <3>1, <3>2
  <2>3. QED
    BY <2>1, <2>2
<1>4. F.attributes = {x \in F.attributes : x[1] \in DOMAIN cmToVC}
                       \cup {x \in F.attributes : x[1] = "CMGenXMain"}
                       \cup {x \in F.attributes : x[1] = "OCLRuntime"}
  BY <1>2
<1>5. F.attributes = CMAttributes(F)
                       \cup (IF k \in Numbered(m) THEN {<<"CMGenXMain", 0>>} ELSE {})
                       \cup (IF Subgroup(F) # 0 THEN {<<"OCLRuntime", Subgroup(F)>>} ELSE {})
  BY <1>2, <1>3, <1>4 DEF CMAttributes
<1>6. QED
  BY <1>5 DEF F

LEMMA AttributesBack ==
  ASSUME NEW m \in Modules, NEW k \in 1..Len(m.functions), NEW G, Back(m, k, G)
  PROVE  Kept(m, FunctionRead(m, k, G)) = Kept(m, m.functions[k])
<1> DEFINE F == m.functions[k]
           H == RestoreAttributes(G)
           runtime == IF Subgroup(F) # 0 THEN {<<"OCLRuntime", Subgroup(F)>>} ELSE {}
           main == IF k \in Numbered(m) THEN {<<"CMGenXMain", 0>>} ELSE {}
           kept(S) == {a \in S : a[1] # "OCLRuntime" \/ Numbered(m) # {}}
<1>1. PICK sizes : /\ H.attributes = sizes \cup CMAttributes(F)
                        \cup IF m.kernels # NoMetadata /\ Subgroup(F) # 0
                               THEN {<<"OCLRuntime", Subgroup(F)>>} ELSE {}
                   /\ \A x \in sizes : x[1] \in SizeNames
                   /\ k \notin Numbered(m) => sizes = {}
  BY RestoredAttributes
<1>2. F.attributes = CMAttributes(F) \cup main \cup runtime
  BY GivenAttributes
<1>3. Numbered(m) # {} <=> m.kernels # NoMetadata
  <2>1. IsList(m.kernels, Len(m.kernels))
    BY ModuleFacts
  <2>2. m.kernels # NoMetadata <=> Len(m.kernels) # 0
    BY <2>1 DEF IsList, NoMetadata
  <2>3. Len(m.kernels) \in Nat
    BY <2>1 DEF IsList
  <2>4. CASE Len(m.kernels) = 0
    <3>1. 1..Len(m.kernels) = {}
      BY <2>4
    <3>2. QED
      BY <2>2, <2>4, <3>1 DEF Numbered
  <2>5. CASE Len(m.kernels) # 0
    <3>1. 1 \in 1..Len(m.kernels)
      BY <2>3, <2>5
    <3>2. m.kernels[1].function \in Numbered(m)
      BY <3>1 DEF Numbered
    <3>3. QED
      BY <2>2, <2>5, <3>2
  <2>6. QED
    BY <2>4, <2>5
<1>4. /\ \A x \in CMAttributes(F) : x[1] \notin SizeNames /\ x[1] # "OCLRuntime"
      /\ \A x \in runtime : x[1] = "OCLRuntime" /\ x[1] \notin SizeNames
      /\ \A x \in main : x[1] = "CMGenXMain"
  BY DEF CMAttributes, SizeNames, cmToVC
<1> HIDE DEF F, runtime, main, H
<1>5. kept(H.attributes) = kept(sizes \cup CMAttributes(F) \cup runtime)
  BY <1>1, <1>3, <1>4 DEF runtime
<1>6. CASE k \in Numbered(m)
  <2> DEFINE K == ForgetKernelAttributes(H)
             all == {a \in H.attributes : a[1] \notin SizeNames} \cup {<<"CMGenXMain", 0>>}
  <2>1. K.attributes = all
    <3>1. IsFunction(G)
      BY BackFields
    <3>2. \E attributes : H = [G EXCEPT !.attributes = attributes]
      BY DEF H, RestoreAttributes
    <3>3. IsFunction(H)
      BY <3>1, <3>2 DEF IsFunction
    <3>4. \E args : K = [H EXCEPT !.attributes = all, !.args = args]
      BY DEF ForgetKernelAttributes, SizeNames
    <3> HIDE DEF K, all
    <3>5. QED
      BY <3>3, <3>4 DEF IsFunction
  <2>2. kept(K.attributes) =
          kept({a \in kept(H.attributes) : a[1] \notin SizeNames} \cup {<<"CMGenXMain", 0>>})
    BY <2>1
  <2>3. {a \in kept(H.attributes) : a[1] \notin SizeNames} = kept(CMAttributes(F) \cup runtime)
    BY <1>1, <1>4, <1>5
  <2>4. main = {<<"CMGenXMain", 0>>} /\ kept(main) = main
    BY <1>6 DEF main
  <2> HIDE DEF K
  <2>5. kept(K.attributes) = kept(F.attributes)
    BY <1>2, <2>2, <2>3, <2>4
  <2>6. QED
    BY <1>6, <2>5 DEF Kept, FunctionRead, K, H, F
<1>7. CASE k \notin Numbered(m)
  <2>1. sizes = {} /\ main = {}
    BY <1>1, <1>7 DEF main
  <2>2. kept(H.attributes) = kept(F.attributes)
    BY <1>2, <1>5, <2>1
  <2>3. QED
    BY <1>7, <2>2 DEF Kept, FunctionRead, H, F
<1>8. QED
  BY <1>6, <1>7

\* The attributes of the functions that the reader has passed, and of variables.
VolatileNames == {"genx_volatile", "genx_byte_offset"}
GlobalWritten(x, y) ==
  /\ "VCGlobalVariable" \in y
  /\ "VCVolatile" \in y <=> "genx_volatile" \in x
  /\ "VCByteOffset" \in y <=> "genx_byte_offset" \in x
Globals == 1..Len(Given.globals)
ReadUpTo(p) == \A k \in 1..Size : k <= p => Kept(Given, functions[k]) = Kept(Given, Given.functions[k])

Attributed ==
  /\ Len(globals) = Len(Given.globals)
  /\ phase = "front_end" => globals = Given.globals
  /\ phase \in {"write_functions", "write_kernels", "written", "translated"} =>
       \A g \in Globals : GlobalWritten(Given.globals[g], globals[g])
  /\ phase = "translated" => \A g \in Globals : globals[g] \cap VolatileNames = {}
  /\ phase \in {"read_kernels", "read_functions", "read"} =>
       \A g \in Globals : globals[g] \cap VolatileNames = Given.globals[g] \cap VolatileNames
  /\ phase = "read_functions" => ReadUpTo(passed)
  /\ phase = "read" => ReadUpTo(Size)

LEMMA AttributedInit == AdaptorsInit => Attributed
BY DEF AdaptorsInit, Attributed

LEMMA AttributedNext ==
  ASSUME Stages, Attributed, [AdaptorsNext]_adaptors
  PROVE  Attributed'
<1>1. /\ Len(functions) = Size /\ Size \in Nat /\ passed \in Nat /\ Given \in Modules
      /\ Len(globals) = Len(Given.globals) /\ Len(globals) \in Nat
      /\ \A g \in Globals : Given.globals[g] \cap {"VCVolatile", "VCByteOffset"} = {}
  <2>1. Given \in Modules
    BY DEF Stages
  <2>2. Len(Given.globals) \in Nat
    BY <2>1, ModulesAssumption DEF IsList
  <2>3. \A g \in Globals : Given.globals[g] \cap {"VCVolatile", "VCByteOffset"} = {}
    BY <2>1, ModulesAssumption DEF Globals
  <2>4. QED
    BY <2>1, <2>2, <2>3, StagesLength DEF Stages, Attributed
<1>2. ASSUME UNCHANGED Given PROVE Size' = Size /\ Globals' = Globals
  BY <1>2 DEF Size, Globals
<1>3. CASE WriteGlobals
  <2>1. /\ phase = "front_end" /\ phase' = "write_functions" /\ UNCHANGED Given
        /\ globals = Given.globals
    BY <1>3 DEF WriteGlobals, Loop, Attributed
  <2>2. globals' = [g \in Globals |->
                      globals[g] \cup {"VCGlobalVariable"}
                        \cup (IF "genx_volatile" \in globals[g] THEN {"VCVolatile"} ELSE {})
                        \cup (IF "genx_byte_offset" \in globals[g] THEN {"VCByteOffset"} ELSE {})]
    BY <1>1, <1>3 DEF WriteGlobals, Globals
  <2>3. \A g \in Globals : GlobalWritten(Given.globals[g], globals'[g])
    BY <1>1, <2>1, <2>2 DEF GlobalWritten
  <2>4. Len(globals') = Len(Given.globals)
    BY <1>1, <2>2 DEF Globals
  <2>5. QED
    BY <1>2, <2>1, <2>3, <2>4 DEF Attributed
<1>4. CASE WriteFunction \/ EraseKernels \/ RewriteKernel \/ EndWriter
  <2>1. /\ phase \in {"write_functions", "write_kernels"}
        /\ phase' \in {"write_functions", "write_kernels", "written"}
        /\ UNCHANGED <<globals, Given>>
    BY <1>4 DEF WriteFunction, EraseKernels, RewriteKernel, EndWriter, Step, End, Loop
  <2>2. QED
    BY <1>2, <2>1 DEF Attributed
<1>5. CASE Translate
  <2>1. phase = "written" /\ phase' = "translated" /\ UNCHANGED Given
    BY <1>5 DEF Translate
  <2>2. globals' = [g \in Globals |-> globals[g] \ VolatileNames]
    BY <1>1, <1>5 DEF Translate, Globals, VolatileNames
  <2>3. \A g \in Globals : GlobalWritten(Given.globals[g], globals[g])
    BY <2>1 DEF Attributed
  <2>4. \A g \in Globals : /\ GlobalWritten(Given.globals[g], globals'[g])
                           /\ globals'[g] \cap VolatileNames = {}
    BY <2>2, <2>3 DEF GlobalWritten, VolatileNames
  <2>5. Len(globals') = Len(Given.globals)
    BY <1>1, <2>2 DEF Globals
  <2>6. QED
    BY <1>2, <2>1, <2>4, <2>5 DEF Attributed
<1>6. CASE SkipReader
  <2>1. phase' = "skipped" /\ UNCHANGED <<globals, Given>>
    BY <1>6 DEF SkipReader, Loop
  <2>2. QED
    BY <1>1, <2>1 DEF Attributed
<1>7. CASE ReadGlobals
  <2>1. phase = "translated" /\ phase' = "read_kernels" /\ UNCHANGED Given
    BY <1>7 DEF ReadGlobals, Loop
  <2>2. globals' = [g \in Globals |->
                   IF "VCGlobalVariable" \notin globals[g] THEN globals[g]
                   ELSE globals[g]
                     \cup (IF "VCVolatile" \in globals[g] THEN {"genx_volatile"} ELSE {})
                     \cup (IF "VCByteOffset" \in globals[g] THEN {"genx_byte_offset"} ELSE {})]
    BY <1>1, <1>7 DEF ReadGlobals, Globals
  <2>3. \A g \in Globals : /\ GlobalWritten(Given.globals[g], globals[g])
                           /\ globals[g] \cap VolatileNames = {}
    BY <2>1 DEF Attributed
  <2>4. \A g \in Globals : globals'[g] \cap VolatileNames = Given.globals[g] \cap VolatileNames
    BY <2>2, <2>3 DEF GlobalWritten, VolatileNames
  <2>5. Len(globals') = Len(Given.globals)
    BY <1>1, <2>2 DEF Globals
  <2>6. QED
    BY <1>2, <2>1, <2>4, <2>5 DEF Attributed
<1>8. CASE EndKernels \/ \E converts \in BOOLEAN : RestoreKernel(converts)
  <2>1. /\ phase = "read_kernels" /\ phase' \in {"read_kernels", "read_functions"}
        /\ phase' = "read_functions" => passed' = 0
        /\ UNCHANGED <<globals, Given>>
    BY <1>8 DEF EndKernels, RestoreKernel, Step, End, Loop
  <2>2. phase' = "read_functions" => \A k \in 1..Size : ~(k <= passed')
    BY <1>1, <2>1
  <2>3. QED
    BY <1>2, <2>1, <2>2 DEF Attributed, ReadUpTo
<1>9. CASE ReadFunction
  <2> DEFINE k == passed + 1
             F == functions[k]
             K == FunctionRead(Given, k, F)
  <2>1. /\ phase = "read_functions" /\ phase' = phase /\ passed' = k
        /\ passed < Len(functions) /\ UNCHANGED <<globals, Given>>
    BY <1>9 DEF ReadFunction, Step
  <2>2. Reading
    BY <2>1 DEF Stages
  <2>3. k \in 1..Size /\ k > passed
    <3>1. passed < Size
      BY <1>1, <2>1
    <3>2. QED
      BY <1>1, <3>1
  <2>4. Back(Given, k, F)
    BY <2>2, <2>3 DEF Reading
  <2>5. functions' = [functions EXCEPT ![k] = K]
    <3>1. CASE k \in Numbered(Given)
      <4>1. PICK j \in 1..Len(Given.kernels) : Given.kernels[j].function = k
        BY <3>1 DEF Numbered
      <4> HIDE DEF k
      <4>2. KernelBack(Given, j, F)
        BY <1>1, <2>4, <4>1, KernelComesBack
      <4>3. Has(F, "VCFunction") /\ F.cc = "SPIR_KERNEL"
        BY <4>2 DEF KernelBack
      <4>4. functions' = [functions EXCEPT ![k] = ForgetKernelAttributes(RestoreAttributes(F))]
        BY <1>9, <4>3 DEF ReadFunction, k
      <4>5. QED
        BY <3>1, <4>4 DEF FunctionRead
    <3>2. CASE k \notin Numbered(Given)
      <4>1. k \in 1..Len(Given.functions) \ Numbered(Given)
        BY <2>3, <3>2 DEF Size
      <4>2. Has(F, "VCFunction") /\ F.cc # "SPIR_KERNEL"
        BY <1>1, <2>4, <4>1, FunctionComesBack
      <4>3. functions' = [functions EXCEPT ![k] = RestoreAttributes(F)]
        BY <1>9, <4>2 DEF ReadFunction
      <4>4. QED
        BY <3>2, <4>3 DEF FunctionRead
    <3>3. QED
      BY <3>1, <3>2
  <2>6. Kept(Given, K) = Kept(Given, Given.functions[k])
    BY <1>1, <2>3, <2>4, AttributesBack DEF Size
  <2> HIDE DEF K, F
  <2>7. /\ functions'[k] = K
        /\ \A l \in 1..Size : l # k => functions'[l] = functions[l]
    BY <2>1, <2>5, OneFunction
  <2>8. ReadUpTo(passed)
    BY <2>1 DEF Attributed
  <2>9. ASSUME NEW l \in 1..Size, l <= k
        PROVE  Kept(Given, functions'[l]) = Kept(Given, Given.functions[l])
    <3>1. CASE l = k
      BY <2>6, <2>7, <3>1
    <3>2. CASE l # k
      <4>1. l <= passed
        BY <1>1, <2>9, <3>2
      <4>2. QED
        BY <2>7, <2>8, <3>2, <4>1 DEF ReadUpTo
    <3>3. QED
      BY <3>1, <3>2
  <2>10. \A l \in 1..Size : l <= passed' =>
           Kept(Given, functions'[l]) = Kept(Given, Given.functions[l])
    <3>1. passed' = k
      BY <2>1
    <3>2. QED
      BY <2>9, <3>1
  <2>11. ReadUpTo(passed)'
    BY <1>2, <2>1, <2>10 DEF ReadUpTo, Kept
  <2>12. QED
    BY <1>2, <2>1, <2>11 DEF Attributed
<1>10. CASE EndReader
  <2>1. /\ phase = "read_functions" /\ phase' = "read" /\ passed = Size
        /\ UNCHANGED <<functions, globals, Given>>
    BY <1>1, <1>10 DEF EndReader, End, Loop
  <2>2. ReadUpTo(Size)
    BY <2>1 DEF Attributed
  <2>3. ReadUpTo(Size)'
    BY <1>2, <2>1, <2>2 DEF ReadUpTo
  <2>4. QED
    BY <1>2, <2>1, <2>3 DEF Attributed
<1>11. CASE UNCHANGED adaptors
  <2>1. UNCHANGED <<phase, passed, functions, globals, Given>>
    BY <1>11 DEF adaptors
  <2>2. /\ Globals' = Globals /\ ReadUpTo(passed)' = ReadUpTo(passed)
        /\ ReadUpTo(Size)' = ReadUpTo(Size)
    BY <2>1 DEF Globals, ReadUpTo, Size
  <2>3. QED
    BY <2>1, <2>2 DEF Attributed
<1>12. QED
  BY <1>3, <1>4, <1>5, <1>6, <1>7, <1>8, <1>9, <1>10, <1>11 DEF AdaptorsNext, AdaptorStep

LEMMA AttributedAlways == AdaptorsSpec => []Attributed
<1>1. Stages /\ Attributed /\ [AdaptorsNext]_adaptors => (Stages /\ Attributed)'
  BY StagesNext, AttributedNext
<1>2. QED
  BY <1>1, StagesInit, AttributedInit, PTL DEF AdaptorsSpec

\* The attributes of functions and of variables come back, whatever SPIR-V loses.
THEOREM AttributesComeBack == AdaptorsSpec => []AttributesRestored
<1>1. Stages /\ Attributed => AttributesRestored
  <2> SUFFICES ASSUME Stages, Attributed, phase = "read"
               PROVE  AttributesRestored
    BY DEF AttributesRestored
  <2>1. Functions = 1..Size /\ Globals = 1..Len(globals)
    BY StagesLength DEF Functions, Attributed, Globals
  <2>2. Numbered(Given) = KernelsBefore
    BY DEF Numbered, KernelsBefore
  <2>3. Size \in Nat /\ ReadUpTo(Size)
    BY StagesLength DEF Attributed
  <2>4. \A k \in 1..Size : Kept(Given, functions[k]) = Kept(Given, Given.functions[k])
    <3>1. \A k \in 1..Size : k <= Size
      BY <2>3
    <3>2. QED
      BY <2>3, <3>1 DEF ReadUpTo
  <2>5. \A g \in Globals : globals[g] \cap VolatileNames = Given.globals[g] \cap VolatileNames
    BY DEF Attributed
  <2>6. QED
    BY <2>1, <2>2, <2>4, <2>5 DEF AttributesRestored, Kept, VolatileNames
<1>2. QED
  BY <1>1, StagesAlways, AttributedAlways, PTL

-----------------------------------------------------------------------------
(* The adaptors a second time.                                             *)

\* The writer's second loop, in its own result.
LEMMA WriteArgumentTwice ==
  ASSUME NEW x, IsArgument(x)
  PROVE  WriteArgument(WriteArgument(x)) = WriteArgument(x)
<1>1. CASE WriterDesc(x).Ty = "None"
  BY <1>1 DEF WriteArgument
<1>2. CASE WriterDesc(x).Ty # "None"
  <2>1. WriteArgument(x).kind = NoKind
    BY <1>2, WriteArgumentFields DEF Sent
  <2>2. WriterDesc(WriteArgument(x)).Ty = "None"
    BY <2>1 DEF WriterDesc, ReadWrite, SPIRVArgDesc
  <2>3. QED
    BY <2>2 DEF WriteArgument
<1>3. QED
  BY <1>1, <1>2

LEMMA WriteKernelTwice ==
  ASSUME NEW W, IsFunction(W), Len(W.args) \in Nat,
         W.cc = "SPIR_KERNEL" => \A a \in 1..Len(W.args) : IsArgument(W.args[a])
  PROVE  WriteKernel(WriteKernel(W)) = WriteKernel(W)
<1> DEFINE n == Len(W.args)
           written == [a \in 1..n |-> WriteArgument(W.args[a])]
           V == WriteKernel(W)
<1>1. CASE W.cc = "SPIR_KERNEL" /\ ~W.used
  <2>1. V = [W EXCEPT !.args = written]
    BY <1>1 DEF WriteKernel
  <2> HIDE DEF V, written
  <2>2. IsFunction(V) /\ V.cc = "SPIR_KERNEL" /\ ~V.used /\ V.args = written
    BY <1>1, <2>1 DEF IsFunction
  <2>3. Len(V.args) = n /\ \A a \in 1..n : WriteArgument(V.args[a]) = V.args[a]
    BY <1>1, <2>2, WriteArgumentTwice DEF written
  <2>4. [a \in 1..n |-> WriteArgument(V.args[a])] = V.args
    BY <2>2, <2>3 DEF written
  <2>5. WriteKernel(V) = [V EXCEPT !.args = V.args]
    BY <2>2, <2>3, <2>4 DEF WriteKernel
  <2>6. [V EXCEPT !.args = V.args] = V
    BY <2>2 DEF IsFunction
  <2>7. QED
    BY <2>5, <2>6 DEF V
<1>2. CASE ~(W.cc = "SPIR_KERNEL" /\ ~W.used)
  BY <1>2 DEF WriteKernel
<1>3. QED
  BY <1>1, <1>2

\* What the writer makes of a function is fit for its second loop.
LEMMA WrittenArguments ==
  ASSUME NEW m \in Modules, NEW k \in 1..Len(m.functions)
  PROVE  LET W == WriterRunOnFunction(m.functions[k], m.kernels, k)
         IN  W.cc = "SPIR_KERNEL" => \A a \in 1..Len(W.args) : IsArgument(W.args[a])
<1> DEFINE F == m.functions[k]
           S == Sized(F)
           W == WriterRunOnFunction(F, m.kernels, k)
<1>1. PICK kernel : FrontEndFunction(F, kernel)
  BY ModuleFacts
<1>2. /\ F = [name |-> F.name, cc |-> F.cc, attributes |-> F.attributes, simd |-> 0,
              used |-> F.used, args |-> F.args]
      /\ F.cc # "SPIR_KERNEL"
      /\ IsList(F.args, Len(F.args)) /\ Len(F.args) \in Nat
      /\ \A a \in 1..Len(F.args) : FrontEndArgument(F.args[a])
  BY <1>1 DEF FrontEndFunction, IsList
<1>3. IsFunction(S) /\ S.args = F.args /\ S.cc = F.cc
  BY <1>1, SizedFields
<1>4. CASE k \in Numbered(m)
  <2>1. PICK j \in 1..Len(m.kernels) : m.kernels[j].function = k
    BY <1>4 DEF Numbered
  <2> DEFINE MD == m.kernels[j]
  <2>2. W = ApplyMetadata(S, MD)
    BY <2>1, WrittenKernel
  <2>3. FrontEndKernel(S, MD)
    <3>1. FrontEndKernel(F, MD)
      BY <2>1, ModuleFacts
    <3>2. QED
      BY <1>3, <3>1 DEF FrontEndKernel
  <2> HIDE DEF F, S, W, MD
  <2>4. W.args = [a \in 1..Len(S.args) |-> KernelArgument(S.args[a], MD, a)]
    BY <1>2, <1>3, <2>2, <2>3, AppliedFields, SMTT(30)
  <2>5. \A x, a : IsArgument(KernelArgument(x, MD, a))
    BY DEF IsArgument, KernelArgument
  <2>6. \A a \in 1..Len(W.args) : IsArgument(W.args[a])
    BY <1>2, <1>3, <2>4, <2>5
  <2>7. QED
    BY <2>6 DEF W, F
<1>5. CASE k \notin Numbered(m)
  <2>1. W \in {S, [F EXCEPT !.attributes = Common(F)]}
    BY <1>5, WrittenFunction
  <2> HIDE DEF F, S, W
  <2>2. W.cc # "SPIR_KERNEL"
    BY <1>2, <1>3, <2>1
  <2>3. QED
    BY <2>2 DEF W, F
<1>6. QED
  BY <1>4, <1>5

\* The writer's first loop adds nothing to what it has written.
LEMMA WriteFunctionTwice ==
  ASSUME NEW m \in Modules, NEW k \in 1..Len(m.functions)
  PROVE  LET V == WriteKernel(WriterRunOnFunction(m.functions[k], m.kernels, k))
         IN  WriterRunOnFunction(V, NoMetadata, k) = V
<1> DEFINE F == m.functions[k]
           W == WriterRunOnFunction(F, m.kernels, k)
           V == WriteKernel(W)
<1>1. PICK kernel : FrontEndFunction(F, kernel)
  BY ModuleFacts
<1>2. IsFunction(W)
  BY WrittenFields
<1>3. PICK sizes : /\ W.attributes = Common(F) \cup sizes
                   /\ \A x \in sizes : x[1] \in SizeNames
  BY WrittenFields
<1> HIDE DEF W
<1>4. IsFunction(V) /\ V.attributes = W.attributes
  BY <1>2 DEF WriteKernel, IsFunction
<1> HIDE DEF F, V
<1>5. Common(F) = F.attributes \cup {<<"VCFunction", 0>>} \cup Renamed(F)
  BY DEF Common, Renamed, CMAttributes
<1>6. /\ \A name \in SizeNames \cup {"VCFunction"} : name \notin DOMAIN cmToVC
      /\ \A name \in DOMAIN cmToVC : cmToVC[name] \notin DOMAIN cmToVC
  BY DEF SizeNames, cmToVC
<1>7. \A name, value : <<name, value>>[1] = name
  OBVIOUS
<1>8. \A x \in Renamed(F) : x[1] \notin DOMAIN cmToVC
  BY <1>6, <1>7 DEF Renamed, CMAttributes
<1>9. CMAttributes(V) = CMAttributes(F)
  BY <1>3, <1>4, <1>5, <1>6, <1>7, <1>8 DEF CMAttributes
<1>10. Renamed(V) = Renamed(F)
  BY <1>9 DEF Renamed
<1>11. V.attributes \cup {<<"VCFunction", 0>>} \cup Renamed(V) = V.attributes
  BY <1>3, <1>4, <1>5, <1>10
<1>12. WriterRunOnFunction(V, NoMetadata, k) =
         [V EXCEPT !.attributes = V.attributes \cup {<<"VCFunction", 0>>} \cup Renamed(V)]
  BY DEF WriterRunOnFunction, Renamed, CMAttributes
<1>13. [V EXCEPT !.attributes = V.attributes] = V
  BY <1>4 DEF IsFunction
<1>14. QED
  BY <1>11, <1>12, <1>13 DEF V, W, F

\* Neither adaptor has anything to do in a module that it has passed.
THEOREM AdaptorsAreIdempotent == AdaptorsSpec => []AdaptorsIdempotent
<1>1. ASSUME Stages, phase = "written", NEW k \in Functions
      PROVE  /\ WriterRunOnFunction(functions[k], genx_kernels, k) = functions[k]
             /\ WriteKernel(functions[k]) = functions[k]
  <2>1. k \in 1..Size /\ Given \in Modules
    BY <1>1, StagesLength DEF Functions, Stages
  <2>2. functions[k] = WriteKernel(Written(k)) /\ genx_kernels = NoMetadata
    BY <1>1, <2>1 DEF Stages, Sendable
  <2>3. WriterRunOnFunction(functions[k], NoMetadata, k) = functions[k]
    BY <2>1, <2>2, WriteFunctionTwice DEF Size, Written
  <2>4. IsFunction(Written(k)) /\ Len(Written(k).args) \in Nat
    BY <2>1, WrittenFields DEF Size, Written
  <2>5. Written(k).cc = "SPIR_KERNEL" =>
          \A a \in 1..Len(Written(k).args) : IsArgument(Written(k).args[a])
    BY <2>1, WrittenArguments DEF Size, Written
  <2>6. WriteKernel(functions[k]) = functions[k]
    BY <2>2, <2>4, <2>5, WriteKernelTwice
  <2>7. QED
    BY <2>2, <2>3, <2>6
<1>2. ASSUME Stages, Attributed, phase = "read", NEW k \in Functions
      PROVE  ~Has(functions[k], "VCFunction")
  <2>1. k \in 1..Size /\ Size \in Nat /\ Given \in Modules
    BY <1>2, StagesLength DEF Functions, Stages
  <2>2. ReadUpTo(Size) /\ k <= Size
    BY <1>2, <2>1 DEF Attributed
  <2>3. Kept(Given, functions[k]) = Kept(Given, Given.functions[k])
    BY <2>1, <2>2 DEF ReadUpTo
  <2>4. PICK kernel : FrontEndFunction(Given.functions[k], kernel)
    BY <2>1, ModuleFacts DEF Size
  <2>5. \A x \in Given.functions[k].attributes : x[1] # "VCFunction"
    BY <2>4 DEF FrontEndFunction, cmToVC
  <2>6. QED
    BY <2>3, <2>5 DEF Kept, Has
<1>3. Stages /\ Attributed => AdaptorsIdempotent
  BY <1>1, <1>2 DEF AdaptorsIdempotent
<1>4. QED
  BY <1>3, StagesAlways, AttributedAlways, PTL

-----------------------------------------------------------------------------
(* The whole way.                                                          *)

\* The adaptors, the translator and the pass that restores attributes are users of
\* the library: each of their steps is one of NamesSpec or leaves it alone.
THEOREM ImplementsNames == Spec => NamesSpec
<1>1. Init => NamesInit
  BY DEF Init
<1>2. [Next]_vars => [NamesNext]_names
  <2> SUFFICES ASSUME [Next]_vars PROVE [NamesNext]_names
    OBVIOUS
  <2>1. CASE Declare
    BY <2>1 DEF Declare, NamesNext
  <2>2. CASE AdaptorStep /\ UNCHANGED names
    BY <2>2
  <2>3. CASE RewriteKernelAndUses
    <3>1. CASE UNCHANGED names
      BY <3>1
    <3>2. CASE getGenXDeclaration(AddressConvert, ConvertTypes)
      <4>1. AddressConvert \in library
        BY <3>2 DEF getGenXDeclaration
      <4>2. ConvertTypes \in Types(AddressConvert)
        BY AddressConvertAssumption DEF Types
      <4>3. QED
        BY <3>2, <4>1, <4>2 DEF NamesNext
    <3>3. QED
      BY <2>3, <3>1, <3>2 DEF RewriteKernelAndUses
  <2>4. CASE TranslateModule
    BY <2>4 DEF TranslateModule, NamesNext
  <2>5. CASE RestoreKernelFromUses
    BY <2>5 DEF RestoreKernelFromUses
  <2>6. CASE RestoreDeclarations
    BY <2>6 DEF RestoreDeclarations, NamesNext
  <2>7. CASE Upgrade
    BY <2>7 DEF Upgrade, NamesNext
  <2>8. CASE UNCHANGED vars
    BY <2>8 DEF vars
  <2>9. QED
    BY <2>1, <2>2, <2>3, <2>4, <2>5, <2>6, <2>7, <2>8 DEF Next
<1>3. QED
  BY <1>1, <1>2, PTL DEF Spec, NamesSpec

\* On the whole way, a number of the version that runs, or none, gives what the
\* lookup gives: the adaptors can trust getGenXIntrinsicID.
THEOREM CacheTransparentOnTheWay == Spec => []CacheCoherent
  BY ImplementsNames, CacheTransparent, PTL

\* The versions of the library decide only on what the reader knows a conversion by.
THEOREM ImplementsAdaptors == Spec => AdaptorsSpec
<1>1. Init => AdaptorsInit
  BY DEF Init
<1>2. [Next]_vars => [AdaptorsNext]_adaptors
  <2> SUFFICES ASSUME [Next]_vars PROVE [AdaptorsNext]_adaptors
    OBVIOUS
  <2>1. CASE Declare
    BY <2>1 DEF Declare
  <2>2. CASE AdaptorStep /\ UNCHANGED names
    BY <2>2 DEF AdaptorsNext
  <2>3. CASE RewriteKernelAndUses
    BY <2>3 DEF RewriteKernelAndUses, AdaptorsNext
  <2>4. CASE TranslateModule
    BY <2>4 DEF TranslateModule, AdaptorsNext
  <2>5. CASE RestoreKernelFromUses
    <3>1. isArgConvIntrinsic \in BOOLEAN
      BY DEF isArgConvIntrinsic
    <3>2. QED
      BY <2>5, <3>1 DEF RestoreKernelFromUses, AdaptorsNext
  <2>6. CASE RestoreDeclarations
    BY <2>6 DEF RestoreDeclarations
  <2>7. CASE Upgrade
    BY <2>7 DEF Upgrade
  <2>8. CASE UNCHANGED vars
    BY <2>8 DEF vars
  <2>9. QED
    BY <2>1, <2>2, <2>3, <2>4, <2>5, <2>6, <2>7, <2>8 DEF Next
<1>3. QED
  BY <1>1, <1>2, PTL DEF Spec, AdaptorsSpec

\* On the whole way, too, kernels come back as the front end described them, with
\* their attributes, and neither adaptor does its work twice.
THEOREM KernelsComeBackOnTheWay ==
  Spec => [](/\ KernelsRestored /\ SurfacesRestored /\ PointersRestored
             /\ AttributesRestored /\ AdaptorsIdempotent)
BY ImplementsAdaptors, KernelsComeBack, SurfacesComeBack, PointersComeBack,
   AttributesComeBack, AdaptorsAreIdempotent, PTL


-----------------------------------------------------------------------------
(***************************************************************************)
(* Types of SPIR-V. The writer leaves a conversion behind where it gives   *)
(* an argument such a type, and declares it; the reader takes it away if   *)
(* it knows the call of the declaration, which another version of the      *)
(* library may have made.                                                  *)
(***************************************************************************)

\* An argument that nothing converts, and one that the writer has converted: the
\* reader knows its type.
Settled(x) == IsTargetExt(x.type) => x.user = None
Marked(x) ==
  ReaderDesc(x).Ty # "None" /\ x.user # None /\ x.user[1] = "address_convert"

LEMMA TargetTypeDescribed ==
  ASSUME NEW d, NEW x, NEW w, w.kind = NoKind, w.type = getArgTargetTypeFromDesc(d, x),
         IsTargetExt(w.type), w.type # x.type
  PROVE  ReaderDesc(w).Ty # "None"
<1>1. \A Ty, Acc : SPIRVArgDesc(Ty, Acc).Ty = Ty
  BY DEF SPIRVArgDesc
<1>2. CASE d.Ty = "Sampler"
  <2>1. w.type[1] = "Sampler"
    BY <1>2 DEF getArgTargetTypeFromDesc, Dimensions
  <2>2. QED
    BY <1>1, <2>1 DEF ReaderDesc, ReadWrite, IsPointer
<1>3. CASE d.Ty = "Buffer"
  <2>1. w.type[1] = "Buffer"
    BY <1>3 DEF getArgTargetTypeFromDesc, Dimensions
  <2>2. QED
    BY <1>1, <2>1 DEF ReaderDesc, IsPointer
<1>4. CASE d.Ty \in DOMAIN Dimensions
  <2>1. w.type = <<"Image", Dimensions[d.Ty], d.Acc>>
    BY <1>4 DEF getArgTargetTypeFromDesc, Dimensions
  <2>2. ImageType(Dimensions[d.Ty]) = d.Ty /\ d.Ty # "None"
    BY <1>4 DEF ImageType, Dimensions
  <2>3. w.type[1] = "Image" /\ w.type[2] = Dimensions[d.Ty]
    BY <2>1
  <2>4. ReaderDesc(w) = SPIRVArgDesc(ImageType(w.type[2]), w.type[3])
    BY <2>3 DEF ReaderDesc, IsPointer
  <2>5. QED
    BY <1>1, <2>2, <2>3, <2>4
<1>5. d.Ty \in {"Sampler", "Buffer"} \cup DOMAIN Dimensions
  <2>1. ~IsTargetExt(Pointer(SPIRVGlobalAS))
    BY DEF IsTargetExt, Pointer
  <2>2. QED
    BY <2>1 DEF getArgTargetTypeFromDesc
<1>6. QED
  BY <1>2, <1>3, <1>4, <1>5

\* The arguments of a function that has been written, and of one that is read.
Convertible(F, declared) ==
  \A a \in 1..Len(F.args) :
    LET x == F.args[a]
    IN  /\ IsArgument(x)
        /\ Settled(x) \/ (/\ Marked(x) /\ declared
                          /\ F.cc = "SPIR_KERNEL" /\ Has(F, "VCFunction"))
Unconverted(F) == \A a \in 1..Len(F.args) : IsArgument(F.args[a]) /\ Settled(F.args[a])

LEMMA WriteArgumentTypes ==
  ASSUME NEW x, IsArgument(x), Settled(x)
  PROVE  LET w == WriteArgument(x) IN IsArgument(w) /\ (Settled(w) \/ Marked(w))
<1> DEFINE d == WriterDesc(x)
           type == getArgTargetTypeFromDesc(d, x)
           block == /\ d.Ty = "Image2d"
                    /\ x.desc # <<>> /\ x.desc[1] = "image2d_media_block_t"
           user == IF type = x.type THEN x.user ELSE conversion(x.type, type)
           written == [[x EXCEPT !.type = type, !.user = user]
                         EXCEPT !.kind = NoKind, !.desc = NoDesc, !.block = block \/ x.block]
           w == WriteArgument(x)
<1>1. w = IF d.Ty = "None" THEN x ELSE written
  BY DEF WriteArgument
<1>2. CASE d.Ty # "None"
  <2>1. IsTargetExt(type) /\ type # x.type => user = <<"address_convert", x.type>>
    BY DEF conversion, IsTargetExt, IsPointer
  <2>2. IsTargetExt(type) /\ type = x.type => user = None
    BY DEF Settled
  <2> HIDE DEF type, user, block, d, w
  <2>3. IsArgument(w) /\ w.type = type /\ w.user = user /\ w.kind = NoKind
    BY <1>1, <1>2 DEF IsArgument
  <2>4. \A t : <<"address_convert", t>> # None /\ <<"address_convert", t>>[1] = "address_convert"
    BY DEF None
  <2>5. IsTargetExt(type) /\ type # x.type => ReaderDesc(w).Ty # "None"
    <3>1. type = getArgTargetTypeFromDesc(d, x)
      BY DEF type
    <3>2. QED
      BY <2>3, <3>1, TargetTypeDescribed
  <2>6. QED
    BY <2>1, <2>2, <2>3, <2>4, <2>5 DEF Settled, Marked, w
<1>3. QED
  BY <1>1, <1>2

LEMMA ReadArgumentTypes ==
  ASSUME NEW y, IsArgument(y), NEW converts \in BOOLEAN,
         Settled(y) \/ (converts /\ Marked(y))
  PROVE  IsArgument(ReadArgument(y, converts)) /\ Settled(ReadArgument(y, converts))
<1> DEFINE d == ReaderDesc(y)
           type == RestoredType(y, converts)
           user == IF Original(y, converts) = None THEN y.user ELSE None
           restored == [y EXCEPT !.type = type, !.user = user]
           z == ReadArgument(y, converts)
<1>1. z = IF d.Ty = "None" THEN restored
          ELSE [restored EXCEPT !.kind = mapSPIRVTypeToArgKind(d.Ty),
                                !.desc = mapSPIRVDescToArgDesc(d, y.block)]
  BY DEF ReadArgument
<1>2. IsTargetExt(type) => user = None
  <2>1. CASE Original(y, converts) = None
    <3>1. type = y.type /\ user = y.user
      <4>1. None[1] # "address_convert"
        BY DEF None
      <4>2. QED
        BY <2>1, <4>1 DEF RestoredType
    <3>2. ~(converts /\ Marked(y))
      BY <2>1 DEF Original, Marked
    <3>3. QED
      BY <3>1, <3>2 DEF Settled
  <2>2. CASE Original(y, converts) # None
    BY <2>2
  <2>3. QED
    BY <2>1, <2>2
<1> HIDE DEF type, user, d, z
<1>3. z.type = type /\ z.user = user /\ IsArgument(z)
  BY <1>1 DEF IsArgument
<1>4. QED
  BY <1>2, <1>3 DEF Settled, z

\* The writer's first loop leaves types and conversions alone.
LEMMA WrittenTypes ==
  ASSUME NEW m \in Modules, NEW k \in 1..Len(m.functions)
  PROVE  LET W == WriterRunOnFunction(m.functions[k], m.kernels, k)
         IN  /\ IsFunction(W) /\ Len(W.args) \in Nat /\ Has(W, "VCFunction")
             /\ \A a \in 1..Len(W.args) : IsArgument(W.args[a]) /\ Settled(W.args[a])
<1> DEFINE F == m.functions[k]
           S == Sized(F)
           W == WriterRunOnFunction(F, m.kernels, k)
<1>1. PICK kernel : FrontEndFunction(F, kernel)
  BY ModuleFacts
<1>2. /\ IsList(F.args, Len(F.args)) /\ Len(F.args) \in Nat
      /\ \A a \in 1..Len(F.args) : FrontEndArgument(F.args[a])
  BY <1>1 DEF FrontEndFunction, IsList
<1>3. IsFunction(W) /\ Len(W.args) \in Nat
  BY WrittenFields
<1>4. Has(W, "VCFunction")
  <2>1. <<"VCFunction", 0>> \in W.attributes
    BY <1>1, WrittenFields, CommonNames
  <2>2. <<"VCFunction", 0>>[1] = "VCFunction"
    OBVIOUS
  <2> HIDE DEF W
  <2>3. QED
    BY <2>1, <2>2 DEF Has
<1>5. ASSUME NEW x, FrontEndArgument(x) PROVE IsArgument(x) /\ Settled(x)
  <2>1. /\ IsTargetExt(x.type) => x.user = None
        /\ x = [type |-> x.type, byval |-> x.byval, user |-> x.user, kind |-> NoKind,
                iokind |-> NoKind, desc |-> NoDesc, block |-> FALSE]
    BY <1>5 DEF FrontEndArgument
  <2>2. x.kind = NoKind /\ x.iokind = NoKind /\ x.desc = NoDesc /\ x.block = FALSE
    BY <2>1
  <2>3. QED
    BY <2>1, <2>2 DEF IsArgument, Settled
<1>6. IsFunction(S) /\ S.args = F.args
  BY <1>1, SizedFields
<1>7. CASE k \in Numbered(m)
  <2>1. PICK j \in 1..Len(m.kernels) : m.kernels[j].function = k
    BY <1>7 DEF Numbered
  <2> DEFINE MD == m.kernels[j]
  <2>2. W = ApplyMetadata(S, MD)
    BY <2>1, WrittenKernel
  <2>3. FrontEndKernel(S, MD)
    <3>1. FrontEndKernel(F, MD)
      BY <2>1, ModuleFacts
    <3>2. QED
      BY <1>6, <3>1 DEF FrontEndKernel
  <2> HIDE DEF F, S, W, MD
  <2>4. W.args = [a \in 1..Len(S.args) |-> KernelArgument(S.args[a], MD, a)]
    BY <1>2, <1>6, <2>2, <2>3, AppliedFields, SMTT(30)
  <2>5. ASSUME NEW x, Settled(x), NEW a
        PROVE  IsArgument(KernelArgument(x, MD, a)) /\ Settled(KernelArgument(x, MD, a))
    BY <2>5 DEF KernelArgument, IsArgument, Settled
  <2>6. \A a \in 1..Len(W.args) : IsArgument(W.args[a]) /\ Settled(W.args[a])
    BY <1>2, <1>5, <1>6, <2>4, <2>5
  <2>7. QED
    BY <1>3, <1>4, <2>6 DEF W, F
<1>8. CASE k \notin Numbered(m)
  <2>1. W \in {S, [F EXCEPT !.attributes = Common(F)]}
    BY <1>8, WrittenFunction
  <2>2. [F EXCEPT !.attributes = Common(F)].args = F.args
    BY <1>1 DEF FrontEndFunction
  <2> HIDE DEF F, S, W
  <2>3. W.args = F.args
    BY <1>6, <2>1, <2>2
  <2>4. \A a \in 1..Len(W.args) : IsArgument(W.args[a]) /\ Settled(W.args[a])
    BY <1>2, <1>5, <2>3
  <2>5. QED
    BY <1>3, <1>4, <2>4 DEF W, F
<1>9. QED
  BY <1>7, <1>8

\* The writer's second loop and the translator.
LEMMA ConvertedTypes ==
  ASSUME NEW W, IsFunction(W), Len(W.args) \in Nat, Has(W, "VCFunction"),
         \A a \in 1..Len(W.args) : IsArgument(W.args[a]) /\ Settled(W.args[a])
  PROVE  Convertible(WriteKernel(W), Converts(WriteKernel(W)))
<1> DEFINE K == WriteKernel(W)
           args == [a \in 1..Len(W.args) |-> WriteArgument(W.args[a])]
<1>1. CASE W.cc = "SPIR_KERNEL" /\ ~W.used
  <2>1. K = [W EXCEPT !.args = args]
    BY <1>1 DEF WriteKernel
  <2> HIDE DEF args, K
  <2>2. K.args = args /\ K.cc = W.cc /\ K.attributes = W.attributes
    BY <2>1 DEF IsFunction
  <2>3. Len(args) = Len(W.args) /\ \A a \in 1..Len(W.args) : args[a] = WriteArgument(W.args[a])
    BY DEF args
  <2>4. K.cc = "SPIR_KERNEL" /\ Has(K, "VCFunction")
    BY <1>1, <2>2 DEF Has
  <2>5. ASSUME NEW a \in 1..Len(K.args)
        PROVE  /\ IsArgument(K.args[a])
               /\ Settled(K.args[a]) \/ (Marked(K.args[a]) /\ Converts(K))
    <3>1. a \in 1..Len(W.args) /\ K.args[a] = WriteArgument(W.args[a])
      BY <2>2, <2>3
    <3>2. IsArgument(K.args[a]) /\ (Settled(K.args[a]) \/ Marked(K.args[a]))
      BY <3>1, WriteArgumentTypes
    <3>3. QED
      BY <3>2 DEF Marked, Converts
  <2>6. QED
    BY <2>4, <2>5 DEF Convertible, K
<1>2. CASE ~(W.cc = "SPIR_KERNEL" /\ ~W.used)
  BY <1>2 DEF WriteKernel, Convertible
<1>3. QED
  BY <1>1, <1>2

LEMMA TranslatedTypes ==
  ASSUME NEW K, IsFunction(K), Len(K.args) \in Nat, NEW declared, Convertible(K, declared),
         NEW unused \in BOOLEAN
  PROVE  Convertible(Translated(K, unused), declared)
<1> DEFINE args == [a \in 1..Len(K.args) |->
                      IF unused THEN [K.args[a] EXCEPT !.user = None] ELSE K.args[a]]
           attributes == {x \in K.attributes : x[1] \in KnownToSPIRV}
           T == Translated(K, unused)
<1>1. T = [K EXCEPT !.attributes = attributes, !.args = args]
  BY DEF Translated
<1>2. /\ Len(args) = Len(K.args)
      /\ \A a \in 1..Len(K.args) :
           args[a] = IF unused THEN [K.args[a] EXCEPT !.user = None] ELSE K.args[a]
  OBVIOUS
<1>3. Has(K, "VCFunction") => \E x \in attributes : x[1] = "VCFunction"
  BY DEF Has, KnownToSPIRV
<1> HIDE DEF T, args, attributes
<1>4. T.args = args /\ T.cc = K.cc /\ T.attributes = attributes
  BY <1>1 DEF IsFunction
<1>5. Has(K, "VCFunction") => Has(T, "VCFunction")
  BY <1>3, <1>4 DEF Has
<1>6. ASSUME NEW a \in 1..Len(T.args)
      PROVE  /\ IsArgument(T.args[a])
             /\ \/ Settled(T.args[a])
                \/ /\ Marked(T.args[a]) /\ declared
                   /\ T.cc = "SPIR_KERNEL" /\ Has(T, "VCFunction")
  <2>1. /\ a \in 1..Len(K.args)
        /\ T.args[a] = IF unused THEN [K.args[a] EXCEPT !.user = None] ELSE K.args[a]
    BY <1>2, <1>4
  <2>2. CASE ~unused
    BY <1>4, <1>5, <2>1, <2>2 DEF Convertible
  <2>3. CASE unused
    <3>1. IsArgument(K.args[a])
      BY <2>1 DEF Convertible
    <3>2. IsArgument(T.args[a]) /\ T.args[a].user = None
      BY <2>1, <2>3, <3>1 DEF IsArgument
    <3>3. QED
      BY <3>2 DEF Settled
  <2>4. QED
    BY <2>2, <2>3
<1>7. QED
  BY <1>6 DEF Convertible, T

\* The reader's first loop, when it knows what has been declared.
LEMMA RestoredTypes ==
  ASSUME NEW T, IsFunction(T), Len(T.args) \in Nat, NEW declared \in BOOLEAN,
         Convertible(T, declared), NEW converts \in BOOLEAN, declared => converts
  PROVE  Unconverted(ReadKernel(T, converts))
<1> DEFINE R == ReadKernel(T, converts)
<1>1. /\ Len(R.args) = Len(T.args)
      /\ T.cc = "SPIR_KERNEL" /\ Has(T, "VCFunction") =>
           \A a \in 1..Len(T.args) : Read(T.args[a], converts, R.args[a])
      /\ ~(T.cc = "SPIR_KERNEL" /\ Has(T, "VCFunction")) => R = T
  BY ReadFields DEF ReadKernel
<1> HIDE DEF R
<1>2. ASSUME NEW a \in 1..Len(T.args) PROVE IsArgument(R.args[a]) /\ Settled(R.args[a])
  <2> DEFINE y == T.args[a]
  <2>1. IsArgument(y) /\ (Settled(y) \/ (Marked(y) /\ declared))
    BY DEF Convertible
  <2>2. CASE T.cc = "SPIR_KERNEL" /\ Has(T, "VCFunction")
    <3>1. R.args[a] = ReadArgument(y, converts) \/ (ReaderDesc(y).Ty = "None" /\ R.args[a] = y)
      BY <1>1, <2>2 DEF Read
    <3>2. CASE R.args[a] = ReadArgument(y, converts)
      <4>1. Settled(y) \/ (converts /\ Marked(y))
        BY <2>1
      <4>2. QED
        BY <2>1, <3>2, <4>1, ReadArgumentTypes
    <3>3. CASE ReaderDesc(y).Ty = "None" /\ R.args[a] = y
      BY <2>1, <3>3 DEF Marked
    <3>4. QED
      BY <3>1, <3>2, <3>3
  <2>3. CASE ~(T.cc = "SPIR_KERNEL" /\ Has(T, "VCFunction"))
    BY <1>1, <2>3 DEF Convertible
  <2>4. QED
    BY <2>2, <2>3
<1>3. QED
  BY <1>1, <1>2 DEF Unconverted, R

\* The reader's second loop.
LEMMA ReadFunctionTypes ==
  ASSUME NEW F, IsFunction(F), Len(F.args) \in Nat, Unconverted(F),
         NEW G, G \in {RestoreAttributes(F), ForgetKernelAttributes(RestoreAttributes(F))}
  PROVE  Unconverted(G)
<1> DEFINE R == RestoreAttributes(F)
           forgotten(x) == [x EXCEPT !.kind = NoKind, !.iokind = NoKind,
                                     !.desc = NoDesc, !.block = FALSE]
           args == [a \in 1..Len(F.args) |-> forgotten(F.args[a])]
<1>1. IsFunction(R) /\ R.args = F.args
  <2>1. \A attributes : LET S == [F EXCEPT !.attributes = attributes]
                       IN  IsFunction(S) /\ S.args = F.args
    BY DEF IsFunction
  <2>2. QED
    BY <2>1 DEF RestoreAttributes
<1> HIDE DEF R
<1>2. CASE G = R
  BY <1>1, <1>2 DEF Unconverted
<1>3. CASE G = ForgetKernelAttributes(R)
  <2>1. G.args = args
    BY <1>1, <1>3 DEF ForgetKernelAttributes, IsFunction
  <2>2. ASSUME NEW x, IsArgument(x), Settled(x)
        PROVE  IsArgument(forgotten(x)) /\ Settled(forgotten(x))
    <3>1. /\ IsArgument(forgotten(x))
          /\ forgotten(x).type = x.type /\ forgotten(x).user = x.user
      <4> DEFINE z == forgotten(x)
                 fields == {"type", "byval", "user", "kind", "iokind", "desc", "block"}
      <4>1. z = [field \in fields |-> z[field]]
        BY <2>2 DEF IsArgument
      <4>2. z.type = x.type /\ z.user = x.user
        BY <2>2 DEF IsArgument
      <4> HIDE DEF z
      <4>3. IsArgument(z)
        BY <4>1 DEF IsArgument
      <4>4. QED
        BY <4>2, <4>3 DEF z
    <3> HIDE DEF forgotten
    <3>2. QED
      BY <2>2, <3>1 DEF Settled
  <2> HIDE DEF forgotten
  <2>3. Len(args) = Len(F.args) /\ \A a \in 1..Len(F.args) : args[a] = forgotten(F.args[a])
    OBVIOUS
  <2> HIDE DEF args
  <2>4. QED
    BY <2>1, <2>2, <2>3 DEF Unconverted
<1>4. QED
  BY <1>2, <1>3 DEF R

-----------------------------------------------------------------------------
\* What the writer converts it has declared, and the declaration comes through
\* SPIR-V without the number that it may have had; what has been read has no
\* conversion.
Declared == ConvertName \in DOMAIN declarations

ConversionsDeclared ==
  /\ phase = "write_kernels" =>
       \A k \in 1..Size : k <= passed /\ Converts(WriteKernel(Written(k))) => Declared
  /\ phase \in {"written", "translated", "read_kernels"} =>
       \A k \in 1..Size : Converts(WriteKernel(Written(k))) => Declared
  /\ phase \in {"translated", "read_kernels"} =>
       \A name \in DOMAIN declarations : declarations[name] = New

ConversionsRead ==
  /\ phase = "read_kernels" => \A k \in 1..Size : k <= passed => Unconverted(functions[k])
  /\ phase \in {"read_functions", "read"} => \A k \in 1..Size : Unconverted(functions[k])

\* Each version of the library finds address_convert under the name that the writer
\* declares it with.
LEMMA ConvertFound ==
  ASSUME NEW lib \in Libraries
  PROVE  LET n == lookupGenXIntrinsicID[lib][ConvertName]
         IN  n # not_genx_intrinsic /\ ID_array[lib][n] = AddressConvert
<1>1. AddressConvert \in lib /\ ConvertTypes \in Types(AddressConvert)
  BY AddressConvertAssumption DEF Types
<1>2. QED
  BY <1>1, LookupFinds DEF Lookup, ConvertName

LEMMA DeclarationKnown ==
  ASSUME library \in Libraries, Declared, declarations[ConvertName] = New
  PROVE  isArgConvIntrinsic
<1>1. New.genx_intrinsic_id = 0
  BY DEF New, Declaration
<1>2. getGenXIntrinsicID(library, ConvertName, New) = lookupGenXIntrinsicID[library][ConvertName]
  BY <1>1, ZeroIsNone DEF getGenXIntrinsicID
<1>3. QED
  BY <1>2, ConvertFound DEF isArgConvIntrinsic, Declared

LEMMA BackLength ==
  ASSUME NEW m \in Modules, NEW k \in 1..Len(m.functions), NEW G, Back(m, k, G)
  PROVE  Len(G.args) \in Nat
<1> DEFINE W == WriterRunOnFunction(m.functions[k], m.kernels, k)
<1>1. IsFunction(W) /\ Len(W.args) \in Nat
  BY WrittenTypes
<1> HIDE DEF W
<1>2. PICK unused, known \in BOOLEAN :
        G = ReadKernel(Translated(WriteKernel(W), unused), known)
  BY DEF Back, W
<1>3. QED
  BY <1>1, <1>2, SentFields, ReadFields

LEMMA AdaptorTypes ==
  ASSUME Stages, ConversionsDeclared, ConversionsRead, AdaptorStep, UNCHANGED names
  PROVE  ConversionsDeclared' /\ ConversionsRead'
<1>1. /\ Len(functions) = Size /\ Size \in Nat /\ passed \in Nat
      /\ functions = [k \in 1..Size |-> functions[k]]
  BY StagesLength DEF Stages
<1>2. UNCHANGED Given
  BY DEF AdaptorStep, WriteGlobals, WriteFunction, EraseKernels, EndWriter, SkipReader,
         ReadGlobals, EndKernels, ReadFunction, EndReader, Loop, Step, End
<1>3. /\ Size' = Size /\ \A k : Written(k)' = Written(k)
      /\ UNCHANGED declarations /\ (Declared' <=> Declared)
  BY <1>2 DEF Size, Written, names, Declared
<1>4. CASE WriteGlobals \/ WriteFunction \/ SkipReader
  <2>1. phase' \in {"write_functions", "skipped"}
    BY <1>4 DEF WriteGlobals, WriteFunction, SkipReader, Loop, Step
  <2>2. QED
    BY <2>1 DEF ConversionsDeclared, ConversionsRead
<1>5. CASE EraseKernels
  <2>1. phase' = "write_kernels" /\ passed' = 0
    BY <1>5 DEF EraseKernels, End, Loop
  <2>2. \A k \in 1..Size : ~(k <= 0)
    BY <1>1
  <2>3. QED
    BY <1>3, <2>1, <2>2 DEF ConversionsDeclared, ConversionsRead
<1>6. CASE EndWriter
  <2>1. phase = "write_kernels" /\ phase' = "written" /\ passed = Size
    BY <1>1, <1>6 DEF EndWriter, End, Loop
  <2>2. \A k \in 1..Size : k <= passed
    BY <1>1, <2>1
  <2>3. QED
    BY <1>3, <2>1, <2>2 DEF ConversionsDeclared, ConversionsRead
<1>7. CASE ReadGlobals
  <2>1. phase = "translated" /\ phase' = "read_kernels" /\ passed' = 0
    BY <1>7 DEF ReadGlobals, Loop
  <2>2. \A k \in 1..Size : ~(k <= 0)
    BY <1>1
  <2>3. QED
    BY <1>3, <2>1, <2>2 DEF ConversionsDeclared, ConversionsRead
<1>8. CASE EndKernels
  <2>1. /\ phase = "read_kernels" /\ phase' = "read_functions" /\ passed = Size
        /\ UNCHANGED functions
    BY <1>1, <1>8 DEF EndKernels, End, Loop
  <2>2. \A k \in 1..Size : k <= passed
    BY <1>1, <2>1
  <2>3. QED
    BY <1>3, <2>1, <2>2 DEF ConversionsDeclared, ConversionsRead
<1>9. CASE ReadFunction
  <2> DEFINE F == functions[passed + 1]
             R == RestoreAttributes(F)
  <2>1. /\ phase = "read_functions" /\ phase' = phase /\ passed < Len(functions)
        /\ \/ UNCHANGED functions
           \/ \E G \in {R, ForgetKernelAttributes(R)} :
                functions' = [functions EXCEPT ![passed + 1] = G]
    BY <1>9 DEF ReadFunction, Step
  <2>2. \A k \in 1..Size : Unconverted(functions[k])
    BY <2>1 DEF ConversionsRead
  <2>3. CASE UNCHANGED functions
    BY <1>3, <2>1, <2>2, <2>3 DEF ConversionsDeclared, ConversionsRead
  <2>4. ASSUME NEW G \in {R, ForgetKernelAttributes(R)},
               functions' = [functions EXCEPT ![passed + 1] = G]
        PROVE  \A k \in 1..Size : Unconverted(functions'[k])
    <3>1. passed + 1 \in 1..Size /\ passed + 1 > passed
      BY <1>1, <2>1
    <3>2. Back(Given, passed + 1, F)
      BY <2>1, <3>1 DEF Stages, Reading
    <3>3. IsFunction(F) /\ Len(F.args) \in Nat
      BY <3>1, <3>2, BackFields, BackLength DEF Stages, Size
    <3>4. Unconverted(G)
      BY <2>2, <3>1, <3>3, ReadFunctionTypes
    <3>5. \A k \in 1..Size : functions'[k] = IF k = passed + 1 THEN G ELSE functions[k]
      BY <1>1, <2>4, <3>1
    <3>6. QED
      BY <2>2, <3>4, <3>5
  <2>5. QED
    BY <1>3, <2>1, <2>3, <2>4 DEF ConversionsDeclared, ConversionsRead
<1>10. CASE EndReader
  <2>1. phase = "read_functions" /\ phase' = "read" /\ UNCHANGED functions
    BY <1>10 DEF EndReader, End, Loop
  <2>2. QED
    BY <1>3, <2>1 DEF ConversionsDeclared, ConversionsRead
<1>11. QED
  BY <1>4, <1>5, <1>6, <1>7, <1>8, <1>9, <1>10 DEF AdaptorStep

LEMMA WriteKernelFields ==
  ASSUME NEW W, IsFunction(W), Len(W.args) \in Nat
  PROVE  IsFunction(WriteKernel(W)) /\ Len(WriteKernel(W).args) \in Nat
<1> DEFINE args == [a \in 1..Len(W.args) |-> WriteArgument(W.args[a])]
<1>1. Len(args) \in Nat
  OBVIOUS
<1>2. WriteKernel(W) \in {W, [W EXCEPT !.args = args]}
  BY DEF WriteKernel
<1> HIDE DEF args
<1>3. QED
  BY <1>1, <1>2 DEF IsFunction

\* The steps in which the library has a part.
LEMMA LibraryTypes ==
  ASSUME Stages, IInv, ConversionsDeclared, ConversionsRead
  PROVE  RewriteKernelAndUses \/ TranslateModule \/ RestoreKernelFromUses =>
           ConversionsDeclared' /\ ConversionsRead'
<1>1. /\ Len(functions) = Size /\ Size \in Nat /\ passed \in Nat /\ Given \in Modules
      /\ library \in Libraries
  BY StagesLength DEF Stages, IInv
<1>2. ASSUME UNCHANGED Given PROVE Size' = Size /\ \A k : Written(k)' = Written(k)
  BY <1>2 DEF Size, Written
<1>3. ASSUME RewriteKernelAndUses PROVE ConversionsDeclared' /\ ConversionsRead'
  <2> DEFINE K == WriteKernel(functions[passed + 1])
  <2>1. /\ phase = "write_kernels" /\ phase' = phase /\ passed' = passed + 1
        /\ passed < Len(functions) /\ UNCHANGED Given
        /\ functions' = [functions EXCEPT ![passed + 1] = K]
    BY <1>3 DEF RewriteKernelAndUses, RewriteKernel, Step
  <2>2. passed + 1 \in 1..Size /\ functions'[passed + 1] = K
    BY <2>1, OneFunction
  <2>3. K = WriteKernel(Written(passed + 1))
    <3>1. ~(passed + 1 <= passed)
      BY <1>1
    <3>2. functions[passed + 1] = Written(passed + 1)
      BY <2>1, <2>2, <3>1 DEF Stages, Rewriting
    <3>3. QED
      BY <3>2
  <2> HIDE DEF K
  <2>4. (Declared => Declared') /\ (Converts(K) => Declared')
    <3>1. CASE getGenXDeclaration(AddressConvert, ConvertTypes)
      <4>1. DOMAIN declarations' = DOMAIN declarations \cup {ConvertName}
        BY <3>1 DEF getGenXDeclaration, ConvertName
      <4>2. QED
        BY <4>1 DEF Declared
    <3>2. CASE UNCHANGED names /\ ~Converts(K)
      BY <3>2 DEF names, Declared
    <3>3. QED
      BY <1>3, <2>2, <3>1, <3>2 DEF RewriteKernelAndUses
  <2>5. ASSUME NEW k \in 1..Size, k <= passed + 1, Converts(WriteKernel(Written(k)))
        PROVE  Declared'
    <3>1. k = passed + 1 \/ k <= passed
      BY <1>1, <2>5
    <3>2. CASE k = passed + 1
      BY <2>3, <2>4, <2>5, <3>2
    <3>3. CASE k <= passed
      BY <2>1, <2>4, <2>5, <3>3 DEF ConversionsDeclared
    <3>4. QED
      BY <3>1, <3>2, <3>3
  <2>6. QED
    BY <1>2, <2>1, <2>5 DEF ConversionsDeclared, ConversionsRead
<1>4. ASSUME TranslateModule PROVE ConversionsDeclared' /\ ConversionsRead'
  <2>1. phase = "written" /\ phase' = "translated" /\ UNCHANGED Given
    BY <1>4 DEF TranslateModule, Translate
  <2>2. declarations' = [name \in DOMAIN declarations |-> New]
    BY <1>4 DEF TranslateModule, LoseAttributes
  <2>3. Declared' <=> Declared
    BY <2>2 DEF Declared
  <2>4. QED
    BY <1>2, <2>1, <2>2, <2>3 DEF ConversionsDeclared, ConversionsRead
<1>5. ASSUME RestoreKernelFromUses PROVE ConversionsDeclared' /\ ConversionsRead'
  <2> DEFINE T == functions[passed + 1]
             W == Written(passed + 1)
             R == ReadKernel(T, isArgConvIntrinsic)
             declared == Converts(WriteKernel(W))
  <2>1. /\ phase = "read_kernels" /\ phase' = phase /\ passed' = passed + 1
        /\ passed < Len(functions) /\ UNCHANGED <<Given, names>>
        /\ functions' = [functions EXCEPT ![passed + 1] = R]
    BY <1>5 DEF RestoreKernelFromUses, RestoreKernel, Step
  <2>2. /\ passed + 1 \in 1..Size /\ functions'[passed + 1] = R
        /\ \A k \in 1..Size : k # passed + 1 => functions'[k] = functions[k]
    BY <2>1, OneFunction
  <2>3. InSPIRV(passed + 1, T)
    <3>1. ~(passed + 1 <= passed)
      BY <1>1
    <3>2. QED
      BY <2>1, <2>2, <3>1 DEF Stages, Restoring
  <2>4. PICK unused \in BOOLEAN : T = Translated(WriteKernel(W), unused)
    BY <2>3 DEF InSPIRV
  <2>5. /\ IsFunction(W) /\ Len(W.args) \in Nat /\ Has(W, "VCFunction")
        /\ \A a \in 1..Len(W.args) : IsArgument(W.args[a]) /\ Settled(W.args[a])
    BY <1>1, <2>2, WrittenTypes DEF Written, Size
  <2>6. declared => isArgConvIntrinsic
    <3>1. declared => Declared
      BY <2>1, <2>2 DEF ConversionsDeclared
    <3>2. Declared => declarations[ConvertName] = New
      BY <2>1 DEF ConversionsDeclared, Declared
    <3>3. QED
      BY <1>1, <3>1, <3>2, DeclarationKnown
  <2>7. isArgConvIntrinsic \in BOOLEAN /\ declared \in BOOLEAN
    BY DEF isArgConvIntrinsic, Converts
  <2> HIDE DEF W, T
  <2>8. IsFunction(T) /\ Len(T.args) \in Nat
    BY <2>4, <2>5, SentFields
  <2>9. Convertible(T, declared)
    <3>1. Convertible(WriteKernel(W), declared)
      BY <2>5, ConvertedTypes
    <3>2. IsFunction(WriteKernel(W)) /\ Len(WriteKernel(W).args) \in Nat
      BY <2>5, WriteKernelFields
    <3>3. QED
      BY <2>4, <3>1, <3>2, TranslatedTypes
  <2> HIDE DEF declared, R
  <2>10. Unconverted(R)
    BY <2>6, <2>7, <2>8, <2>9, RestoredTypes DEF R
  <2>11. ASSUME NEW k \in 1..Size, k <= passed + 1 PROVE Unconverted(functions'[k])
    <3>1. k = passed + 1 \/ (k <= passed /\ k # passed + 1)
      BY <1>1, <2>11
    <3>2. QED
      BY <2>1, <2>2, <2>10, <3>1 DEF ConversionsRead
  <2>12. ConversionsDeclared'
    <3>1. UNCHANGED declarations
      BY <2>1 DEF names
    <3>2. QED
      BY <1>2, <2>1, <3>1 DEF ConversionsDeclared, Declared
  <2>13. QED
    BY <1>2, <2>1, <2>11, <2>12 DEF ConversionsRead
<1>6. QED
  BY <1>3, <1>4, <1>5

\* Types of SPIR-V are gone from the kernels that have been read, whichever versions
\* of the library wrote the conversions and read them: the reader knows each call
\* that is left, by the name of its declaration, since no number of another version
\* comes through SPIR-V, and the lookup finds it in each version.
THEOREM TypesComeBack == Spec => []TypesRestored
<1>1. Init => ConversionsDeclared /\ ConversionsRead
  BY DEF Init, AdaptorsInit, ConversionsDeclared, ConversionsRead
<1>2. ASSUME Stages, IInv, ConversionsDeclared, ConversionsRead, [Next]_vars
      PROVE  ConversionsDeclared' /\ ConversionsRead'
  <2>1. CASE Declare \/ RestoreDeclarations
    <3>1. phase \in {"front_end", "read"} /\ UNCHANGED adaptors
      BY <2>1 DEF Declare, RestoreDeclarations
    <3>2. UNCHANGED <<phase, passed, functions, Given>>
      BY <3>1 DEF adaptors
    <3>3. QED
      BY <1>2, <3>1, <3>2 DEF ConversionsDeclared, ConversionsRead, Size
  <2>2. CASE Upgrade \/ UNCHANGED vars
    <3>1. UNCHANGED <<phase, passed, functions, Given, declarations>>
      BY <2>2 DEF Upgrade, ChangeLibrary, vars, adaptors, names
    <3>2. QED
      BY <1>2, <3>1 DEF ConversionsDeclared, ConversionsRead, Size, Written, Declared
  <2>3. CASE AdaptorStep /\ UNCHANGED names
    BY <1>2, <2>3, AdaptorTypes
  <2>4. CASE RewriteKernelAndUses \/ TranslateModule \/ RestoreKernelFromUses
    BY <1>2, <2>4, LibraryTypes
  <2>5. QED
    BY <1>2, <2>1, <2>2, <2>3, <2>4 DEF Next
<1>3. Stages /\ ConversionsRead => TypesRestored
  BY StagesLength DEF ConversionsRead, TypesRestored, Unconverted, Settled, Functions
<1>4. Spec => []Stages
  BY ImplementsAdaptors, StagesAlways, PTL
<1>5. Spec => []IInv
  BY ImplementsNames, NamesInitIInv, NamesNextIInv, PTL DEF NamesSpec
<1>6. QED
  BY <1>1, <1>2, <1>3, <1>4, <1>5, PTL DEF Spec
=============================================================================
