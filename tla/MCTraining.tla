----------------------------- MODULE MCTraining -----------------------------
(***************************************************************************)
(* Three sentences over two words: features used by nodes and by paths,    *)
(* one of them used once, one only by EOS, and an old model with a         *)
(* feature that does not occur.                                            *)
(***************************************************************************)
EXTENDS Training, TLC

Path(node, link, answer) == [node |-> node, link |-> link, eos |-> node = "eos", answer |-> answer]

MCFeatures == {"A", "W", "E", "AA", "Z"}
MCKeys == {"a", "b", "eos", "aa", "ab", "end"}

MCFeaturesOf ==
  ("a" :> <<"A", "W">>) @@ ("b" :> <<"W">>) @@ ("eos" :> <<"E">>) @@
  ("aa" :> <<"AA">>) @@ ("ab" :> <<"AA", "W">>) @@ ("end" :> <<>>)

One == << Path("a", "ab", TRUE), Path("eos", "end", TRUE) >>
Two == << Path("a", "ab", FALSE), Path("b", "aa", TRUE), Path("eos", "end", TRUE) >>
Three == << Path("a", "aa", TRUE), Path("a", "ab", FALSE), Path("eos", "end", FALSE), Path("eos", "ab", TRUE) >>

MCCorpora == { <<One, Two, Three>>, <<Three, Unended, One>>, <<Three, Empty>> }

MCOldModels == { <<>>, << [feature |-> "Z", weight |-> 1], [feature |-> "W", weight |-> 1] >> }
=============================================================================
