----------------------------- MODULE MCSession -----------------------------
(***************************************************************************)
(* Two sentences, one of them with two results, another whose analysis     *)
(* gives up, a partial text that is one line, and a sentence longer than a *)
(* chunk of the pool; a chunk holds one other written result and little    *)
(* more.                                                                   *)
(***************************************************************************)
EXTENDS Session, TLC

CONSTANTS ab, empty, long, ab_line, wide

MCSize ==
  Restrict((ab :> 2) @@ (empty :> 0) @@ (long :> 3) @@ (ab_line :> 3) @@ (wide :> 20), Texts)
MCJoined == [t \in Texts |-> IF t = ab_line THEN ab ELSE t]

Word(surface, feature) == [surface |-> surface, feature |-> feature]
MCResults ==
  (ab :> << <<Word(2, 2)>>, <<Word(1, 1), Word(1, 3)>> >>) @@
  (empty :> << <<>> >>) @@ (long :> <<>>) @@
  (ab_line :> << <<Word(3, 1)>> >>) @@ (wide :> << <<Word(20, 1)>> >>)
MCMorphs ==
  (ab :> <<Word(1, 1), Word(2, 2), Word(1, 3)>>) @@ (empty :> <<>>) @@ (long :> <<>>) @@
  (ab_line :> <<Word(3, 1)>>) @@ (wide :> <<Word(20, 1)>>)

MCRequestTypes ==
  { {}, {"NBEST"}, {"PARTIAL"}, {"NBEST", "PARTIAL"},
    {"MARGINAL_PROB"}, {"ALLOCATE_SENTENCE", "NBEST", "ALL_MORPHS"} }

\* those that decide where a sentence lies
PoolRequestTypes == { {}, {"PARTIAL"}, {"ALLOCATE_SENTENCE"} }

\* bound: a long sentence, and any call once a long string was copied, is followed
\* only through settings that decide where a sentence lies, without a search and
\* without callers' buffers
LongStringsApart ==
  pool.long > 0 \/ (lattice.sentence # None /\ lattice.sentence.text = wide) =>
    /\ {request_type, lattice.request_type} \subseteq PoolRequestTypes
    /\ agenda = {} /\ call.dest = None

SmallRequestTypes == { {}, {"MARGINAL_PROB"} }
=============================================================================
