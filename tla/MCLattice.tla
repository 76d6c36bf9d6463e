----------------------------- MODULE MCLattice -----------------------------
(***************************************************************************)
(* Small dictionaries for the lattice of one sentence.  The two letters    *)
(* differ in every unknown word rule: a invokes unknown words beside the   *)
(* dictionary's, grouped and of up to two letters; b only where the        *)
(* dictionary has none; their categories overlap.                          *)
(***************************************************************************)
EXTENDS NBestGenerator, TLC

CONSTANTS a, b, sp, nul

Info5(type, default_type, length, group, invoke) ==
  [type |-> type, default_type |-> default_type, length |-> length,
   group |-> group, invoke |-> invoke]
Tok(attr, wcost, feature) ==
  [lcAttr |-> attr, rcAttr |-> attr, wcost |-> wcost, feature |-> feature]

MCProperty ==
  (a :> Info5({"alpha"}, "alpha", 2, TRUE, TRUE)) @@
  (b :> Info5({"alpha", "num"}, "num", 0, TRUE, FALSE)) @@
  (sp :> Info5({"space"}, "space", 0, TRUE, FALSE)) @@
  (nul :> Info5({"default"}, "default", 0, TRUE, FALSE))

MCDictionaries ==
  << (<<a>> :> <<Tok(1, 1, <<"N", "x">>), Tok(0, 1, <<"V", "x">>)>>) @@
     (<<a, b>> :> <<Tok(1, 1, <<"N", "y">>)>>),
     (<<b, b>> :> <<Tok(0, -1, <<"N", "u">>)>>) >>
MCUnkTokens ==
  [c \in {"alpha", "num", "space", "default"} |->
    <<Tok(IF c = "num" THEN 1 ELSE 0, 2, <<"U", c>>)>>]

\* matrix.bin for attributes 0 and 1
MCMatrix == [i \in 0..3 |-> <<0, 1, 2, 0>>[i + 1]]
MCWeight(c) == 5 - c   \* positive and falling for the costs -1..4

Texts(letters, n) == UNION { [1..k -> letters] : k \in 0..n }
Ends(text, c) == text # <<>> /\ Last(text) = c

OneBest == { {}, {"ALL_MORPHS"} }
AllPath == { {"NBEST"}, {"MARGINAL_PROB"}, {"NBEST", "MARGINAL_PROB", "ALL_MORPHS"} }
Plain(t, r) == [text |-> t, request |-> r, constraint |-> NoConstraint]

\* one call of set_boundary_constraint, one of set_feature_constraint, or both
Features == { <<"*">>, <<"N">>, <<"N", "u">>, <<"X">> }
Bounded(n) == { SetBoundary(NoConstraint, n, p, type) : p \in 0..n, type \in {"token", "inside"} }
Constraints(n) ==
  Bounded(n) \union { SetFeature(c, n, p, q, f) :
                      c \in Bounded(n) \union {NoConstraint},
                      p \in 0..n-1, q \in 1..n, f \in Features }

Constrained(texts) ==
  UNION { { [text |-> t, request |-> {}, constraint |-> c] : c \in Constraints(Len(t)) } :
          t \in texts }

Lines(surface) ==
  { <<[surface |-> s, feature |-> f], [surface |-> u, feature |-> g]>> :
    s \in surface, u \in surface, f \in Features \union {None}, g \in {None, <<"N">>} }

\* without constraints any sentence, but for trailing white space in the marginals;
\* with constraints, sentences without white space
MCInputs ==
  { Plain(t, r) : t \in Texts({a, b, sp}, 3), r \in OneBest }
  \union { Plain(t, {"NBEST"}) : t \in Texts({a, b, sp}, 2) }
  \union { Plain(t, r) : t \in { u \in Texts({a, b, sp}, 2) \union {<<a, sp, b>>} :
                                 ~ Ends(u, sp) }, r \in AllPath }
  \union { Plain(t, {"MARGINAL_PROB"}) : t \in { u \in Texts({a, b, sp}, 3) : ~ Ends(u, sp) } }
  \union Constrained((Texts({a, b}, 2) \ {<<>>}) \union {<<a, a, b>>, <<b, a, b>>})
  \union { Plain(l, {"PARTIAL"}) : l \in Lines({<<a>>, <<b>>, <<a, b>>}) }

\* sentences that end in white space, for the marginals
TrailingInputs ==
  { Plain(t, {"MARGINAL_PROB"}) : t \in { u \in Texts({a, b, sp}, 2) : Ends(u, sp) } }

\* what ConstraintsAreHonoured assumes of the constraints
ASSUME MCConstraints == ConstraintsFit

\* and what LinksAreTheResult assumes of the tokens
ASSUME MCTokens == TokensDiffer
=============================================================================
