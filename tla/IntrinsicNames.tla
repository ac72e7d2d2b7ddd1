---------------------------- MODULE IntrinsicNames ----------------------------
(***************************************************************************)
(* From an intrinsic to the name of its declaration and back.              *)
(*                                                                         *)
(* Intrinsics.py sorts the identifiers of the table; their places are the  *)
(* enumeration, and GenXIntrinsicNameTable is searched by bisection. The   *)
(* functions of GenXIntrinsics.cpp declare an intrinsic under the name of  *)
(* the table followed by its types, find the intrinsic of a declaration,   *)
(* and keep its number in metadata of the declaration: a cache that stays  *)
(* with the module when the library changes.                               *)
(*                                                                         *)
(* A name is a sequence of characters, each a number that keeps the order  *)
(* of the real ones: the dot, digits, the underscore, letters. It begins   *)
(* with the dot after "llvm.genx".                                         *)
(***************************************************************************)
EXTENDS Integers, Sequences, FiniteSets

CONSTANTS
  Libraries,   \* the versions of the table, each a set of identifiers
  Overloaded,  \* the identifiers that are overloaded
  Suffixes,    \* the mangled types of a list of types
  Caches,      \* the values enable-genx-intrinsics-cache may have
  MaxDeclarations  \* bound: the declarations of the module

\* A version of the table is finite and has an intrinsic.
ASSUME NamesAssumption ==
  /\ \A lib \in Libraries : lib # {} /\ IsFiniteSet(lib)
  /\ Caches \subseteq BOOLEAN

VARIABLES
  library,                    \* the version of the library that runs
  EnableGenXIntrinsicsCache,
  declarations                \* of the module: a function of names

names == <<library, EnableGenXIntrinsicsCache, declarations>>

Dot == 0
Underscore == 10

\* An identifier has no dot; a list of types begins with one.
ASSUME CharactersAssumption ==
  /\ \A lib \in Libraries : \A id \in lib : id \in Seq(Nat \ {Dot})
  /\ \A Tys \in Suffixes : Tys \in Seq(Nat) /\ Tys # <<>> /\ Tys[1] = Dot

-----------------------------------------------------------------------------
(* Intrinsics.py.                                                          *)

\* id.replace("_", "."), after the dot that is always there.
Dotted(id) == <<Dot>> \o [k \in 1..Len(id) |-> IF id[k] = Underscore THEN Dot ELSE id[k]]

\* The order of strings.
Less(s, t) ==
  \E k \in 1..Len(t) :
    /\ \A j \in 1..(k - 1) : j <= Len(s) /\ s[j] = t[j]
    /\ k > Len(s) \/ s[k] < t[k]

\* Mutant: identifiers are compared as they are written.
RawCompare(ikl, ikr) == Less(ikl, ikr)

ik_compare(ikl, ikr) == Less(Dotted(ikl), Dotted(ikr))

\* sorted(Intrinsics): the place of an identifier counts those before it.
ID_array ==
  [lib \in Libraries |->
     [n \in 1..Cardinality(lib) |->
        CHOOSE id \in lib : Cardinality({x \in lib : ik_compare(x, id)}) = n - 1]]

GenXIntrinsicNameTable ==
  [lib \in Libraries |-> [n \in 1..Cardinality(lib) |-> Dotted(ID_array[lib][n])]]

-----------------------------------------------------------------------------
(* GenXIntrinsics.cpp: names to numbers. Number 0 is not_genx_intrinsic.   *)

not_genx_intrinsic == 0

\* startswith.
IsPrefix(s, t) == Len(s) <= Len(t) /\ SubSeq(t, 1, Len(s)) = s

\* strncmp(s + from, t + from, n) < 0.
PartLess(s, t, from, n) ==
  LET part(u) == SubSeq(u, from + 1, IF from + n <= Len(u) THEN from + n ELSE Len(u))
  IN  Less(part(s), part(t))

\* Where the component that begins after from ends.
ComponentEnd(Name, from) ==
  LET dots == {p \in (from + 2)..Len(Name) : Name[p] = Dot}
  IN  IF dots = {} THEN Len(Name) ELSE (CHOOSE p \in dots : \A q \in dots : p <= q) - 1

\* No intrinsic has a name that goes on after the name of an overloaded one with
\* a component that begins like its types: "add.i32..." after "add". No name of
\* Intrinsic_definitions.py does.
ASSUME TypesAssumption ==
  \A lib \in Libraries : \A id \in lib \cap Overloaded, Tys \in Suffixes, x \in lib :
    LET Name == Dotted(id) \o Tys
    IN  ~IsPrefix(SubSeq(Name, 1, ComponentEnd(Name, Len(Dotted(id)))), Dotted(x))

\* The first of some places before high, high when there is none.
Earliest(places, high) ==
  CHOOSE k \in places \cup {high} : \A j \in places \cup {high} : k <= j

\* The range of the table the search has come to: Low..(High - 1).
Ranges == [CmpEnd : Nat, Low : Nat, High : Nat, LastLow : Nat]

\* equal_range, for the component after CmpEnd.
Narrowed(NameTable, Name, r) ==
  LET next == ComponentEnd(Name, r.CmpEnd)
      less(k)    == PartLess(NameTable[k], Name, r.CmpEnd, next - r.CmpEnd)
      greater(k) == PartLess(Name, NameTable[k], r.CmpEnd, next - r.CmpEnd)
      first == Earliest({k \in r.Low..(r.High - 1) : ~less(k)}, r.High)
      last  == Earliest({k \in first..(r.High - 1) : greater(k)}, r.High)
  IN  [CmpEnd |-> next, Low |-> first, High |-> last, LastLow |-> r.Low]

\* One component after the other, the table is narrowed to the names that have
\* it or begin with it; LastLow is the first name of the last range that is not
\* empty.
FindName(NameTable, Name) ==
  LET search[r \in Ranges] ==
        IF r.CmpEnd >= Len(Name) \/ r.High <= r.Low
          THEN IF r.High > r.Low THEN r.Low ELSE r.LastLow
          ELSE search[Narrowed(NameTable, Name, r)]
  IN  search[[CmpEnd |-> 0, Low |-> 1, High |-> Len(NameTable) + 1, LastLow |-> 1]]

\* What is found must begin the name, up to a dot.
lookupGenXIntrinsicByName(NameTable, Name) ==
  LET Found == FindName(NameTable, Name)
  IN  IF /\ Found \in 1..Len(NameTable)
         /\ IsPrefix(NameTable[Found], Name)
         /\ Len(NameTable[Found]) = Len(Name) \/ Name[Len(NameTable[Found]) + 1] = Dot
        THEN Found ELSE not_genx_intrinsic

\* The names a declaration can have: getGenXName.
getGenXName(id, Tys) == Dotted(id) \o Tys
Types(id) == {<<>>} \cup (IF id \in Overloaded THEN Suffixes ELSE {})
Names == UNION {{getGenXName(id, Tys) : Tys \in Types(id)} : id \in UNION Libraries}

\* findTargetSubtable has one target, "genx", with the whole table.
lookupGenXIntrinsicID ==
  [lib \in Libraries |-> [Name \in Names |->
     lookupGenXIntrinsicByName(GenXIntrinsicNameTable[lib], Name)]]

\* A declaration: the attributes it has, as the intrinsic they are those of (<<>>:
\* none), and genx_intrinsic_id, 0 when it is not there. The versions that
\* wrote the two are kept for the properties alone.
Declaration(attributes, attributes_by, md, md_by) ==
  [attributes |-> attributes, attributes_by |-> attributes_by,
   genx_intrinsic_id |-> md, md_by |-> md_by]

New == Declaration(<<>>, {}, 0, {})

\* Mutant: the cached number is taken for granted.
TrustedNumber(lib, Name, F) ==
  IF F.genx_intrinsic_id \in 1..Cardinality(lib) THEN F.genx_intrinsic_id
                                                 ELSE lookupGenXIntrinsicID[lib][Name]

\* The cached number when its name begins the name of the declaration.
getGenXIntrinsicID(lib, Name, F) ==
  LET Id == F.genx_intrinsic_id
  IN  IF /\ Id \in 1..Cardinality(lib)
         /\ IsPrefix(GenXIntrinsicNameTable[lib][Id], Name)
        THEN Id ELSE lookupGenXIntrinsicID[lib][Name]

\* Mutant: attributes by the cached number, whoever wrote it.
AttributesOfNumber(lib, Name, F) ==
  [F EXCEPT !.attributes = ID_array[lib][TrustedNumber(lib, Name, F)], !.attributes_by = lib]

\* setAttributes(getAttributes(ID)).
SetAttributes(lib, Name, F) ==
  [F EXCEPT !.attributes = ID_array[lib][getGenXIntrinsicID(lib, Name, F)],
            !.attributes_by = lib]

\* Mutant: the number is written again each time.
RefreshNumber(lib, cached, Name, F) ==
  LET G == SetAttributes(lib, Name, F)
  IN  IF cached THEN [G EXCEPT !.genx_intrinsic_id = getGenXIntrinsicID(lib, Name, F),
                               !.md_by = lib]
                ELSE G

\* Mutant: the number is written from 0.
NumberFromZero(lib, cached, Name, F) ==
  LET G == SetAttributes(lib, Name, F)
  IN  IF cached /\ F.genx_intrinsic_id = 0
        THEN [G EXCEPT !.genx_intrinsic_id = getGenXIntrinsicID(lib, Name, F) - 1,
                       !.md_by = lib]
        ELSE G

resetGenXAttributes(lib, cached, Name, F) ==
  LET G == SetAttributes(lib, Name, F)
  IN  IF cached /\ F.genx_intrinsic_id = 0
        THEN [G EXCEPT !.genx_intrinsic_id = getGenXIntrinsicID(lib, Name, F),
                       !.md_by = lib]
        ELSE G

-----------------------------------------------------------------------------
(* What happens to the declarations of a module.                           *)

NamesInit ==
  /\ library \in Libraries
  /\ EnableGenXIntrinsicsCache \in Caches
  /\ declarations = <<>>

\* The module has every declaration once: getFunction, or Function::Create.
getGenXDeclaration(id, Tys) ==
  LET Name == getGenXName(id, Tys)
      F == IF Name \in DOMAIN declarations THEN declarations[Name] ELSE New
  IN  /\ id \in library
      /\ Cardinality(DOMAIN declarations \cup {Name}) <= MaxDeclarations
      /\ declarations' =
           [m \in DOMAIN declarations \cup {Name} |->
              IF m = Name
                THEN resetGenXAttributes(library, EnableGenXIntrinsicsCache, Name, F)
                ELSE declarations[m]]
      /\ UNCHANGED <<library, EnableGenXIntrinsicsCache>>

\* GenXRestoreIntrAttr::runOnModule.
RestoreIntrAttr ==
  /\ declarations' = [m \in DOMAIN declarations |->
                        SetAttributes(library, m, declarations[m])]
  /\ UNCHANGED <<library, EnableGenXIntrinsicsCache>>

\* SPIR-V keeps neither attributes nor metadata of a declaration.
LoseAttributes ==
  /\ declarations' = [m \in DOMAIN declarations |-> New]
  /\ UNCHANGED <<library, EnableGenXIntrinsicsCache>>

\* The module is read by another version, which has the intrinsics it declares.
ChangeLibrary ==
  /\ library' \in Libraries \ {library}
  /\ \A m \in DOMAIN declarations : lookupGenXIntrinsicID[library'][m] # not_genx_intrinsic
  /\ UNCHANGED <<EnableGenXIntrinsicsCache, declarations>>

NamesNext ==
  \/ \E id \in library : \E Tys \in Types(id) : getGenXDeclaration(id, Tys)
  \/ RestoreIntrAttr
  \/ LoseAttributes
  \/ ChangeLibrary

NamesSpec == NamesInit /\ [][NamesNext]_names

-----------------------------------------------------------------------------
(* Properties.                                                             *)

\* ID_array and lookupGenXIntrinsicByName: every intrinsic is found under each
\* name it can be declared with, though its name may begin that of another
\* ("raw.send", "raw.send.noresult", "raw.sends") and the order of the table
\* is not that of the identifiers.
NamesFound ==
  \A id \in library : \A Tys \in Types(id) :
    LET n == lookupGenXIntrinsicID[library][getGenXName(id, Tys)]
    IN  n # not_genx_intrinsic /\ ID_array[library][n] = id

\* resetGenXAttributes: the number in the metadata is what the lookup of the
\* version that wrote it gives, whatever has been cached, lost and read since.
CacheIsLookup ==
  \A m \in DOMAIN declarations :
    declarations[m].genx_intrinsic_id # 0 =>
      declarations[m].genx_intrinsic_id =
        lookupGenXIntrinsicID[declarations[m].md_by][m]

\* getGenXIntrinsicID, with a number of this version: the cache changes nothing.
CacheCoherent ==
  \A m \in DOMAIN declarations :
    declarations[m].md_by \in {{}, library} =>
      getGenXIntrinsicID(library, m, declarations[m]) = lookupGenXIntrinsicID[library][m]

\* The intrinsics whose names begin the name m.
Begins(m) ==
  LET table == GenXIntrinsicNameTable[library]
  IN  {n \in 1..Len(table) : IsPrefix(table[n], m)}

\* "we need to check that metadata is correct and can be actually used": a number
\* of another version does no harm to a declaration, when the name of one intrinsic
\* alone begins its name. (It does where add3c is declared and the number is that
\* of add3 by now.)
StaleNumberHarmless ==
  \A m \in DOMAIN declarations :
    Cardinality(Begins(m)) = 1 =>
      getGenXIntrinsicID(library, m, declarations[m]) = lookupGenXIntrinsicID[library][m]

\* resetGenXAttributes and GenXRestoreIntrAttr: a declaration that this version gave
\* its attributes has those of the intrinsic it was made for. A number of another
\* version, which the attributes were looked up by, is not taken for the intrinsic,
\* when the name of one intrinsic alone begins its name.
AttributesOfTheIntrinsic ==
  \A m \in DOMAIN declarations :
    LET F == declarations[m]
    IN  F.attributes_by = library
          /\ (F.md_by \in {{}, library} \/ Cardinality(Begins(m)) = 1)
          => F.attributes = ID_array[library][lookupGenXIntrinsicID[library][m]]
=============================================================================
