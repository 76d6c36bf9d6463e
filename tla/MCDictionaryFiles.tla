-------------------------- MODULE MCDictionaryFiles --------------------------
(***************************************************************************)
(* Definitions that grow: a smaller matrix and a larger one with ids that  *)
(* need it, more categories, another character set, no matrix.def, and     *)
(* one whose unk.def lacks a category.                                     *)
(***************************************************************************)
EXTENDS DictionaryFiles

Def(cs, us, n, ids, charset) ==
  [categories |-> cs, unkCategories |-> us,
   ids |-> [f \in Dictionaries |-> ids], matrix |-> n, charset |-> charset]

Small == Def({"DEFAULT"}, {"DEFAULT"}, <<1, 2>>, {<<1, 0>>}, "utf-8")
Large == Def({"DEFAULT", "KANJI"}, {"DEFAULT", "KANJI"}, <<1, 3>>, {<<2, 0>>}, "utf-8")
Recoded == [Large EXCEPT !.charset = "euc-jp", !.ids = [f \in Dictionaries |-> {<<0, 0>>}]]
Bare == Def({"DEFAULT"}, {"DEFAULT"}, Absent, {<<0, 0>>}, "utf-8")
Broken == Def({"DEFAULT"}, {"DEFAULT", "KANJI"}, <<2, 1>>, {<<0, 1>>, <<1, 0>>}, "utf-8")

MCSources == {Small, Large, Recoded, Bare, Broken}

MCCommands == {{}, {"s", "m"}, {"U"}, {"C"}, {"u"}}
=============================================================================
