--------------------------- MODULE MCIntrinsicTables ---------------------------
(***************************************************************************)
(* The generator on the table of the repository, and on small tables of    *)
(* what the comments of Intrinsic_definitions.py allow and the table of    *)
(* today does not use: pointers, structures of five, eight codes in a      *)
(* word, "ALL", attributes of several names, a platform that is none.      *)
(***************************************************************************)
EXTENDS IntrinsicUsers

Entry(result, args, attrs, plats) ==
  [name |-> "made_up", result |-> result, arguments |-> args,
   attributes |-> attrs, platforms |-> plats]

MadeUp ==
  {Entry(<<"void">>, <<"ptr_local", "ptr_private">>, <<"ReadWriteArgMem">>, <<>>),
   Entry(<<"int", "int", "any", "half", "anyptr">>, <<"=1">>, <<"NoDuplicate">>,
         <<<<"ALL", "">>, <<"~", "XeLP">>>>),
   Entry(<<"int">>, Rep("int", 7), <<"Convergent", "NoMem">>,
         <<<<"+", "XeLP">>, <<"", "Gen9">>>>),
   Entry(<<"int">>, Rep("int", 6) \o <<"double">>, <<"NoMem", "Convergent">>,
         <<<<"-", "Gen9">>>>),
   Entry(<<"void">>, <<"any">>, <<"NoReturn", "ReadMem">>,
         <<<<"~", "Gen9">>, <<"-", "XeHP">>, <<"~", "Gen8">>>>),
   Entry(<<"anyvector">>, <<"=0", "short8", "any", "=1", "vararg">>, <<"NoMem">>,
         <<<<"+", "Xe3P">>>>),
   Entry(<<"void">>, Rep("double", 7), <<"None">>, <<<<"", "Gen99">>>>)}

\* The raw sends alone.
SendsTable == {SelectSeq(Imported_Intrinsics, LAMBDA e : e.name \in Sends)}

\* The table of the repository; each of its intrinsics in a table of its own,
\* where an error shows after a few steps; the made-up ones in pairs.
AllTables == {Imported_Intrinsics}
             \cup {<<Imported_Intrinsics[k]>> : k \in 1..Len(Imported_Intrinsics)}
             \cup {<<e, f>> : e, f \in MadeUp}
=============================================================================
