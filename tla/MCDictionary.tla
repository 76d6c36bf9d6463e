---------------------------- MODULE MCDictionary ----------------------------
(***************************************************************************)
(* Files of a few lines over two letters that change their order when they *)
(* are converted, a third letter that cannot be converted, values of eight *)
(* bits of which two hold the number of homographs, and an array of a few  *)
(* cells.                                                                  *)
(***************************************************************************)
EXTENDS Dictionary, TLC

Options(type, wakati, formatted) == [type |-> type, wakati |-> wakati, formatted |-> formatted]

Noun == <<"N", "x">>
Verb == <<"V", "y">>
Odd == <<"O", "z">>        \* cannot be converted
Ugly == <<"U", "x">>       \* cannot be formatted
Alien == <<"A", "x">>      \* rewritten to something without a left id
Proper == <<"P", "y">>     \* rewritten to a right id outside of the matrix
Wild == <<"W", "y">>       \* has ids, and no unigram rule

MCPosId(f) == IF f = Noun THEN 1 ELSE -1
MCModelCost(w, f) == (IF f = Noun THEN 3 ELSE 2) + Len(w)
MCRecoded == (1 :> 2) @@ (2 :> 1)
MCRecodedFeature(f) == IF f = Odd THEN None ELSE f \o <<"r">>
MCNodeFormat(f) == IF Head(f) = "U" THEN None ELSE <<Head(f)>>

T(t) == [text |-> t]
C(n) == [column |-> n]

MCUnigramRules == << [source |-> <<{"N", "V", "A", "P", "B"}>>, target |-> <<C(1)>>] >>
MCLeftRules ==
  << [source |-> <<{"N"}>>, target |-> <<C(1), T("l")>>],
     [source |-> <<{"V", "A", "P", "W"}, Star>>, target |-> <<C(2)>>],
     [source |-> <<Star>>, target |-> <<T("other"), C(3)>>] >>
MCRightRules ==
  << [source |-> <<{"W"}>>, target |-> <<T("V")>>],
     [source |-> <<Star, {"x", "y"}>>, target |-> <<C(1)>>] >>
MCLeftIds == (<<"N", "l">> :> 1) @@ (<<"y">> :> 0)
MCRightIds == (<<"N">> :> 0) @@ (<<"V">> :> 1) @@ (<<"P">> :> 2)

E(w, lid, rid, cost, f) == [word |-> w, lid |-> lid, rid |-> rid, cost |-> cost, feature |-> f]

Words == {<<1>>, <<2>>, <<1, 1>>, <<1, 2>>, <<2, 1>>, <<1, 2, 1>>}

Plain(w) == E(w, (Len(w) - 1) % 3, 0, Len(w), IF Head(w) = 1 THEN Noun ELSE Verb)
Again(w) == E(w, 0, 1, 0, Verb)

\* the words in any order, some of them twice, in one file or two
Ordinary ==
  { Options("sys", FALSE, FALSE) @@ [files |-> <<f>>] :
      f \in [1 .. 3 -> { Plain(w) : w \in Words } \union { Again(<<1>>), Again(<<2, 1>>) }] }

\* homographs up to more than the bits can hold, before and after other words
Crowd(n) == [ i \in 1 .. n |-> E(<<1>>, 0, 0, i, Noun) ]
Crowded ==
  { Options("sys", FALSE, FALSE) @@ [files |-> << <<Plain(<<1, 2>>)>>, Crowd(n) \o <<Plain(<<2>>)>> >>] :
      n \in 2 .. 6 }

\* more entries than an index can hold before its sign shows
Overfull ==
  { Options("sys", TRUE, FALSE) @@ [files |-> << [ i \in 1 .. 33 |-> E(<<2>>, 0, 0, 0, Noun) ] \o <<Plain(<<1>>)>> >>] }

\* every word, so that the array fills up
AllWords == UNION { [1 .. n -> 1 .. 2] : n \in 1 .. 3 }
Full == { Options("sys", FALSE, FALSE) @@
            [files |-> << [ i \in 1 .. 2 |-> Plain(<<2, i>>) ] \o
                          [ i \in 1 .. 6 |-> Plain(<<1, 1, 1>> \o [ j \in 1 .. i |-> 1 + ((i + j) % 2) ]) ] >>] }

Special ==
  { Oversized, BadFormat, E(<<>>, 0, 0, 0, Noun), E(<<3>>, 0, 0, 0, Noun),
    E(<<1>>, 0, 0, 0, Odd), E(<<1>>, 0, 0, 0, Ugly), E(<<1>>, 2, 0, 0, Noun),
    E(<<1>>, 0, -1, 0, Noun), E(<<1>>, IntMax, 0, 9, Verb), E(<<1>>, IntMax, 0, 0, Alien),
    E(<<1>>, IntMax, IntMax, IntMax, Noun), E(<<1>>, 0, 0, IntMax, Verb),
    E(<<1>>, -1, 0, 0, <<"B">>), E(<<1>>, -1, 0, 0, Proper), E(<<1>>, 0, -1, 0, Wild),
    E(<<1>>, 3, 0, 0, Noun), E(<<1>>, 0, 0, 12, Noun) }

Odds ==
  { Options(t, w, m) @@ [files |-> << <<Plain(<<2>>), l, Again(<<1, 2>>)>> >>] :
      t \in {"sys", "unk", "usr"}, w \in BOOLEAN, m \in BOOLEAN, l \in Special }

Absent ==
  { Options(t, FALSE, FALSE) @@ [files |-> fs] :
      t \in {"sys", "unk"}, fs \in { <<Missing>>, << <<Plain(<<2>>)>>, Missing >>, << <<>> >> } }

MCInputs == Ordinary \union Crowded \union Overfull \union Full \union Odds \union Absent

MCUnkDefault == << E(<<1>>, 0, 0, 0, Noun), E(<<1, 2>>, 0, 0, 0, Noun) >>

FilesOf(in) == { in.files[f] : f \in DOMAIN in.files } \ {Missing}
MCLines == UNION { { f[l] : l \in DOMAIN f } :
                     f \in UNION { FilesOf(in) : in \in MCInputs } \union {MCUnkDefault} }
=============================================================================
