----------------------------- MODULE SPIRVRoundTrip -----------------------------
(***************************************************************************)
(* A module on its way from a front end to a back end, through SPIR-V: the *)
(* adaptors of KernelArguments, which declare and look for the intrinsic   *)
(* address_convert, and the declarations of IntrinsicNames, in a library   *)
(* that need not be of one version on both sides.                          *)
(***************************************************************************)
EXTENDS KernelArguments, IntrinsicNames

CONSTANTS AddressConvert,  \* the identifier address_convert
          ConvertTypes     \* the types of a conversion, old and new

\* Every version of the library has the intrinsic, with these types.
ASSUME AddressConvertAssumption ==
  /\ AddressConvert \in Overloaded
  /\ ConvertTypes \in Suffixes
  /\ \A lib \in Libraries : AddressConvert \in lib

vars == <<adaptors, names>>

Init == AdaptorsInit /\ NamesInit

\* The front end and the back end declare intrinsics.
Declare ==
  /\ phase \in {"front_end", "read"}
  /\ \E id \in library : \E Tys \in Types(id) : getGenXDeclaration(id, Tys)
  /\ UNCHANGED adaptors

\* rewriteArgumentUses: the conversions of a kernel, and their declaration.
Converts(F) == \E k \in 1..Len(F.args) : F.args[k].user[1] = "address_convert"
RewriteKernelAndUses ==
  /\ RewriteKernel
  /\ IF Converts(functions'[passed + 1])
       THEN getGenXDeclaration(AddressConvert, ConvertTypes)
       ELSE UNCHANGED names

\* The translator keeps names and types.
TranslateModule == Translate /\ LoseAttributes

\* isArgConvIntrinsic, for a call of the declaration.
ConvertName == getGenXName(AddressConvert, ConvertTypes)
isArgConvIntrinsic ==
  /\ ConvertName \in DOMAIN declarations
  /\ LET id == getGenXIntrinsicID(library, ConvertName, declarations[ConvertName])
     IN  ID_array[library][id] = AddressConvert

RestoreKernelFromUses == RestoreKernel(isArgConvIntrinsic) /\ UNCHANGED names

\* The attributes of intrinsics are restored by a pass after the reader.
RestoreDeclarations == phase = "read" /\ RestoreIntrAttr /\ UNCHANGED adaptors

\* Another version of the library reads the module, as bitcode or as SPIR-V.
Upgrade ==
  /\ phase \in {"front_end", "written", "translated", "read"}
  /\ ChangeLibrary
  /\ UNCHANGED adaptors

Next ==
  \/ Declare
  \/ AdaptorStep /\ UNCHANGED names
  \/ RewriteKernelAndUses
  \/ TranslateModule
  \/ RestoreKernelFromUses
  \/ RestoreDeclarations
  \/ Upgrade

Spec == Init /\ [][Next]_vars
=============================================================================
