----------------------------- MODULE Rewriting -----------------------------
(***************************************************************************)
(* Rewriting of features (dictionary_rewriter.cpp).  A feature is the      *)
(* sequence of its columns.  A rule has a source, for each of its columns  *)
(* the set of texts that match or Star for all ("*"), and a target whose   *)
(* columns are a text or a reference $n to a column of the input.          *)
(***************************************************************************)
EXTENDS Integers, Sequences

CONSTANT Star

MatchRewritePattern(pat, col) == pat = Star \/ col \in pat

Applies(rule, feature) ==
  /\ Len(rule.source) <= Len(feature)
  /\ \A i \in DOMAIN rule.source : MatchRewritePattern(rule.source[i], feature[i])

\* [column |-> n], or [text |-> t]
IsReference(elm) == "column" \in DOMAIN elm

RefersInside(rule, feature) ==
  \A i \in DOMAIN rule.target :
    IsReference(rule.target[i]) => rule.target[i].column \in 1 .. Len(feature)

Target(rule, feature) ==
  [ i \in DOMAIN rule.target |->
      IF IsReference(rule.target[i]) THEN feature[rule.target[i].column]
      ELSE rule.target[i].text ]

\* the numbers of the rules that apply; the first of them is used
Applying(rules, feature) == { i \in DOMAIN rules : Applies(rules[i], feature) }

\* the result of a list of rules, the empty set if none applies or the one that
\* does refers to a column that is not there, at which the program ends
Rewrite(rules, feature) ==
  { Target(rules[i], feature) :
      i \in { k \in Applying(rules, feature) :
                /\ \A j \in Applying(rules, feature) : k <= j
                /\ RefersInside(rules[k], feature) } }
=============================================================================
