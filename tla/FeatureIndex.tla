---------------------------- MODULE FeatureIndex ----------------------------
(***************************************************************************)
(* EncoderFeatureIndex of feature_index.cpp: the numbers of the features,  *)
(* the cache of feature vectors, and shrink, which drops the rare features *)
(* and renumbers the others.                                               *)
(*                                                                         *)
(* index is a record: dic maps features to ids, maxid is the next id,      *)
(* cache maps the key of a node (rewritten feature and character type) or  *)
(* of a path (two rewritten features) to its vector of ids and the number  *)
(* of its uses.  Nodes and paths hold a pointer to their vector, which     *)
(* here is their key.  What the templates make of a key is a constant.     *)
(***************************************************************************)
EXTENDS Integers, Sequences, FiniteSets, SequencesExt, Functions

CONSTANTS
  Features,
  Keys,             \* of nodes and paths
  FeaturesOf        \* of a key, a sequence

ASSUME FeaturesAssumption == FeaturesOf \in [Keys -> Seq(Features)]

NoFunction == [x \in {} |-> 0]
NewIndex == [dic |-> NoFunction, maxid |-> 0, cache |-> NoFunction]

Extend(f, x, y) == [z \in DOMAIN f \union {x} |-> IF z = x THEN y ELSE f[z]]

\* id
Number(index, feature) ==
  IF feature \in DOMAIN index.dic THEN index
  ELSE [index EXCEPT !.dic = Extend(@, feature, index.maxid), !.maxid = @ + 1]

\* buildFeature, for one key
Use(index, key) ==
  IF key \in DOMAIN index.cache
  THEN [index EXCEPT !.cache[key].count = @ + 1]
  ELSE LET named == FoldLeft(Number, index, FeaturesOf[key])
           vector == [n \in DOMAIN FeaturesOf[key] |-> named.dic[FeaturesOf[key][n]]]
       IN [named EXCEPT !.cache = Extend(@, key, [vector |-> vector, count |-> 1])]

BuildFeature(index, path) == Use(Use(index, path.node), path.link)

\* reopen: the features of an old model, a sequence of feature and weight
Reopen(model) ==
  [NewIndex EXCEPT !.maxid = Len(model),
     !.dic = [f \in { model[n].feature : n \in DOMAIN model } |->
                CHOOSE i \in 0 .. Len(model) - 1 :
                  /\ model[i + 1].feature = f
                  /\ \A j \in 0 .. i - 1 : model[j + 1].feature # f]]

-----------------------------------------------------------------------------
(* shrink *)

Occurrences(vector, id) == Cardinality({ n \in DOMAIN vector : vector[n] = id })

\* freqv: a vector counts as often as it was used
Frequency(index, id) ==
  SumFunction([key \in DOMAIN index.cache |->
         index.cache[key].count * Occurrences(index.cache[key].vector, id)])

Kept(index, freq) == { i \in 0 .. index.maxid - 1 : Frequency(index, i) >= freq }

\* old2new
Renumbered(kept, id) == Cardinality({ i \in kept : i < id })

\* fault: the ids left in a vector stay as they were
VectorKept(kept, vector) ==
  FoldLeft(LAMBDA to, id : IF id \in kept THEN Append(to, id) ELSE to, <<>>, vector)

\* the ids left, moved to the front one by one
VectorRenumbered(kept, vector) ==
  FoldLeft(LAMBDA to, id : IF id \in kept THEN Append(to, Renumbered(kept, id)) ELSE to,
           <<>>, vector)

Shrink(index, freq) ==
  IF freq <= 1 THEN index
  ELSE LET kept == Kept(index, freq)
       IN [maxid |-> Cardinality(kept),
           dic |-> [f \in { g \in DOMAIN index.dic : index.dic[g] \in kept } |->
                      Renumbered(kept, index.dic[f])],
           cache |-> [key \in DOMAIN index.cache |->
                        [index.cache[key] EXCEPT !.vector = VectorRenumbered(kept, @)]]]

ShrinkObserved(index, freq, observed) ==
  IF freq <= 1 THEN observed
  ELSE LET kept == Kept(index, freq)
       IN [n \in 0 .. Cardinality(kept) - 1 |->
             observed[CHOOSE i \in kept : Renumbered(kept, i) = n]]
=============================================================================
