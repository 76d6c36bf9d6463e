------------------------------ MODULE Training ------------------------------
(***************************************************************************)
(* CRFLearner of learner.cpp with the parts of learner_tagger.cpp it       *)
(* calls: reading the corpus into the feature index and the observed       *)
(* counts, the iterations whose gradient is computed by threads that share *)
(* the weights and the feature vectors, and the test that ends them.       *)
(*                                                                         *)
(* A sentence of the corpus is its lattice: a sequence of paths in the     *)
(* order they are built, each with the keys of its right node and its      *)
(* link, whether that node is EOS and whether it is in the answer.         *)
(* Probabilities are left out: every path is expected once, a sentence's   *)
(* loss is the sum of the costs of the paths that are not in the answer,   *)
(* and 2C is 1.  The optimizer may answer anything.                        *)
(***************************************************************************)
EXTENDS FeatureIndex

CONSTANTS
  Corpora,          \* sequences of sentences, Empty or Unended, one sentence at least
  Empty,            \* EOS without a word before it
  Unended,          \* words without EOS before the end or before an overlong line
  OldModels,        \* sequences of [feature, weight], empty if there is none
  Freqs,            \* --freq
  ThreadNums,       \* --thread
  EtaNum, EtaDen,   \* --eta
  Weights           \* of a feature

Sentence == Seq([node : Keys, link : Keys, eos : BOOLEAN, answer : BOOLEAN])

\* an old model names a feature once, as Save writes it
ASSUME TrainingAssumption ==
  /\ Corpora \subseteq Seq({Empty, Unended} \union Sentence)
  /\ OldModels \subseteq Seq([feature : Features, weight : Int])
  /\ \A model \in OldModels : \A m, n \in DOMAIN model :
       model[m].feature = model[n].feature => m = n
  /\ Freqs \subseteq Int
  /\ ThreadNums \subseteq Nat \ {0}
  /\ EtaNum \in Nat \ {0} /\ EtaDen \in Nat \ {0}
  /\ Weights \subseteq Int

VARIABLES
  corpus,           \* what is left of the file
  old, freq, threads,
  phase,            \* of the main thread
  index,            \* feature_index
  x,                \* the sentences
  observed,
  alpha, old_alpha,
  worker,           \* of each thread: state, next, f, expected
  obj, expected,
  first, prev_obj, converge,
  model             \* the file written

data == <<index, x, observed, old_alpha>>
setting == <<old, freq, threads>>
progress == <<first, prev_obj, converge>>
vars == <<corpus, setting, phase, data, alpha, worker, obj, expected, progress, model>>

Resized(f, n) == [i \in 0 .. n - 1 |-> IF i \in DOMAIN f THEN f[i] ELSE 0]
Zero(n) == [i \in 0 .. n - 1 |-> 0]
Plus(f, g) == [i \in DOMAIN f |-> f[i] + g[i]]

\* what a path adds to a count; the vector of EOS itself counts for nothing
PathCount(ind, path, id) ==
  Occurrences(ind.cache[path.link].vector, id)
  + IF path.eos THEN 0 ELSE Occurrences(ind.cache[path.node].vector, id)

Count(ind, paths) ==
  [id \in 0 .. ind.maxid - 1 |-> SumFunction([n \in DOMAIN paths |-> PathCount(ind, paths[n], id)])]

Cost(path) == SumFunction([id \in DOMAIN alpha |-> alpha[id] * PathCount(index, path, id)])

Answer(sentence) == Restrict(sentence, { n \in DOMAIN sentence : sentence[n].answer })
Wrong(sentence) == Restrict(sentence, { n \in DOMAIN sentence : ~ sentence[n].answer })

\* gradient: what it returns and what it adds to the expected counts
Loss(sentence) == LET w == Wrong(sentence) IN SumFunction([n \in DOMAIN w |-> Cost(w[n])])
Expectation(sentence) == Count(index, sentence)

-----------------------------------------------------------------------------
(* Reading the corpus *)

Reading == phase = "read" /\ corpus # <<>>

ReadSentence ==
  /\ Reading /\ Head(corpus) \notin {Empty, Unended}
  /\ index' = FoldLeft(BuildFeature, index, Head(corpus))
  /\ observed' = Plus(Resized(observed, index'.maxid), Count(index', Answer(Head(corpus))))
  /\ x' = Append(x, Head(corpus))
  /\ corpus' = Tail(corpus)
  /\ UNCHANGED <<setting, phase, alpha, old_alpha, worker, obj, expected, progress, model>>

Die ==
  /\ Reading /\ Head(corpus) = Empty
  /\ phase' = "dead"
  /\ UNCHANGED <<corpus, setting, data, alpha, worker, obj, expected, progress, model>>

\* read returns true, and the stream is at its end: what was read is lost, and
\* what follows in the file
ReadUnended ==
  /\ Reading /\ Head(corpus) = Unended
  /\ corpus' = <<>>
  /\ UNCHANGED <<setting, phase, data, alpha, worker, obj, expected, progress, model>>

Idle(psize) == [state |-> "idle", next |-> 0, f |-> 0, expected |-> Zero(psize)]

Prepare ==
  /\ phase = "read" /\ corpus = <<>>
  /\ index' = Shrink(index, freq)
  /\ observed' = Resized(ShrinkObserved(index, freq, observed), index'.maxid)
  /\ old_alpha' = Resized(old_alpha, index'.maxid)
  /\ alpha' = old_alpha'
  /\ expected' = Zero(index'.maxid)
  /\ worker' = [i \in 0 .. threads - 1 |-> Idle(index'.maxid)]
  /\ phase' = "iterate"
  /\ UNCHANGED <<corpus, setting, x, obj, progress, model>>

-----------------------------------------------------------------------------
(* One iteration *)

Sentences == DOMAIN x

Iterate ==
  /\ phase = "iterate"
  /\ expected' = Zero(index.maxid) /\ obj' = 0
  /\ phase' = IF threads > 1 THEN "start" ELSE "sum"
  /\ UNCHANGED <<corpus, setting, data, alpha, worker, progress, model>>

WithoutThreads ==
  /\ phase = "sum"
  /\ obj' = SumFunction([s \in Sentences |-> Loss(x[s])])
  /\ expected' = [id \in DOMAIN expected |-> SumFunction([s \in Sentences |-> Expectation(x[s])[id]])]
  /\ phase' = "judge"
  /\ UNCHANGED <<corpus, setting, data, alpha, worker, progress, model>>

Start(i) ==
  /\ phase = "start" /\ worker[i].state = "idle"
  /\ \A j \in 0 .. i - 1 : worker[j].state # "idle"
  /\ worker' = [worker EXCEPT ![i].state = "started"]
  /\ phase' = IF i = threads - 1 THEN "join" ELSE phase
  /\ UNCHANGED <<corpus, setting, data, alpha, obj, expected, progress, model>>

\* fault: the thread adds to what it has from the last iteration
RunBeginAdding(i) ==
  /\ worker[i].state = "started"
  /\ worker' = [worker EXCEPT ![i] = [@ EXCEPT !.state = "running", !.next = i, !.f = 0]]
  /\ UNCHANGED <<corpus, setting, phase, data, alpha, obj, expected, progress, model>>

RunBegin(i) ==
  /\ worker[i].state = "started"
  /\ worker' = [worker EXCEPT ![i] = [state |-> "running", next |-> i, f |-> 0,
                                      expected |-> Zero(index.maxid)]]
  /\ UNCHANGED <<corpus, setting, phase, data, alpha, obj, expected, progress, model>>

Gradient(i) ==
  /\ worker[i].state = "running" /\ worker[i].next < Len(x)
  /\ LET sentence == x[worker[i].next + 1]
     IN worker' = [worker EXCEPT ![i].f = @ + Loss(sentence),
                                 ![i].expected = Plus(@, Expectation(sentence)),
                                 ![i].next = @ + threads]
  /\ UNCHANGED <<corpus, setting, phase, data, alpha, obj, expected, progress, model>>

RunEnd(i) ==
  /\ worker[i].state = "running" /\ worker[i].next >= Len(x)
  /\ worker' = [worker EXCEPT ![i].state = "done"]
  /\ UNCHANGED <<corpus, setting, phase, data, alpha, obj, expected, progress, model>>

\* every thread is joined, then their results are added
Reduce ==
  /\ phase = "join"
  /\ \A i \in DOMAIN worker : worker[i].state = "done"
  /\ obj' = SumFunction([i \in DOMAIN worker |-> worker[i].f])
  /\ expected' = [id \in DOMAIN expected |-> SumFunction([i \in DOMAIN worker |-> worker[i].expected[id]])]
  /\ worker' = [i \in DOMAIN worker |-> [worker[i] EXCEPT !.state = "idle"]]
  /\ phase' = "judge"
  /\ UNCHANGED <<corpus, setting, data, alpha, progress, model>>

-----------------------------------------------------------------------------
(* Judging its result *)

Square(n) == n * n
Objective == obj + SumFunction([id \in DOMAIN alpha |-> Square(alpha[id] - old_alpha[id])])

Distance(m, n) == IF m >= n THEN m - n ELSE n - m

\* diff < eta: a division by zero is infinite or not a number, by a negative
\* objective it is below any eta
Small ==
  \/ first /\ EtaDen < EtaNum
  \/ ~ first /\ prev_obj < 0
  \/ ~ first /\ prev_obj > 0 /\ Distance(prev_obj, Objective) * EtaDen < EtaNum * prev_obj

Converged == IF Small THEN converge + 1 ELSE 0

\* the model file cannot be opened, or it is written
Save ==
  /\ \/ phase' = "dead" /\ UNCHANGED model
     \/ phase' = "saved" /\ model' = [f \in DOMAIN index.dic |-> alpha[index.dic[f]]]
  /\ UNCHANGED alpha

\* optimize: new weights, no more change, or an error
Optimize ==
  \/ phase' = "iterate" /\ alpha' \in [DOMAIN alpha -> Weights] /\ UNCHANGED model
  \/ Save
  \/ phase' = "dead" /\ UNCHANGED <<alpha, model>>

\* fault: the value to compare with is that of the first iteration
JudgeByFirst ==
  /\ phase = "judge"
  /\ prev_obj' = IF first THEN Objective ELSE prev_obj
  /\ first' = FALSE /\ converge' = Converged
  /\ IF Converged = 3 THEN Save ELSE Optimize
  /\ UNCHANGED <<corpus, setting, data, worker, obj, expected>>

Judge ==
  /\ phase = "judge"
  /\ prev_obj' = Objective
  /\ first' = FALSE /\ converge' = Converged
  /\ IF Converged = 3 THEN Save ELSE Optimize
  /\ UNCHANGED <<corpus, setting, data, worker, obj, expected>>

-----------------------------------------------------------------------------

Init ==
  /\ corpus \in Corpora /\ old \in OldModels /\ freq \in Freqs /\ threads \in ThreadNums
  /\ phase = "read"
  /\ index = Reopen(old)
  /\ x = <<>> /\ observed = Zero(0)
  /\ old_alpha = [i \in 0 .. Len(old) - 1 |-> old[i + 1].weight] /\ alpha = Zero(0)
  /\ worker = NoFunction
  /\ obj = 0 /\ expected = Zero(0)
  /\ first = TRUE /\ prev_obj = 0 /\ converge = 0
  /\ model = NoFunction

MainStep ==
  \/ ReadSentence \/ Die \/ ReadUnended \/ Prepare
  \/ Iterate \/ WithoutThreads \/ (\E i \in DOMAIN worker : Start(i)) \/ Reduce \/ Judge

WorkerStep(i) == RunBegin(i) \/ Gradient(i) \/ RunEnd(i)

Next == MainStep \/ \E i \in DOMAIN worker : WorkerStep(i)

LargestThreads == CHOOSE n \in ThreadNums : \A m \in ThreadNums : m <= n

\* the main thread and the threads it started are scheduled again and again
Fairness ==
  /\ WF_vars(MainStep)
  /\ \A i \in 0 .. LargestThreads - 1 : WF_vars(i \in DOMAIN worker /\ WorkerStep(i))

Spec == Init /\ [][Next]_vars /\ Fairness

-----------------------------------------------------------------------------

\* how often a feature occurs in the paths of the corpus, or of its answers
Named(key, feature) == Cardinality({ n \in DOMAIN FeaturesOf[key] : FeaturesOf[key][n] = feature })

UsesOf(feature) ==
  SumFunction([s \in Sentences |->
         SumFunction([n \in DOMAIN x[s] |-> Named(x[s][n].node, feature) + Named(x[s][n].link, feature)])])

AnswersOf(feature) ==
  SumFunction([s \in Sentences |->
         SumFunction([n \in DOMAIN x[s] |->
                IF ~ x[s][n].answer THEN 0
                ELSE Named(x[s][n].link, feature)
                     + IF x[s][n].eos THEN 0 ELSE Named(x[s][n].node, feature)])])

KeysUsed == UNION { { x[s][n].node : n \in DOMAIN x[s] } \union { x[s][n].link : n \in DOMAIN x[s] } :
                      s \in Sentences }

FeaturesUsed == UNION { { FeaturesOf[k][n] : n \in DOMAIN FeaturesOf[k] } : k \in KeysUsed }
FeaturesOld == { old[n].feature : n \in DOMAIN old }

\* the numbers of those names that are kept, in their order
NumbersOf(ind, names, kept) ==
  FoldLeft(LAMBDA to, f : IF f \in kept THEN Append(to, ind.dic[f]) ELSE to, <<>>, names)

\* After shrink the numbers that the dictionary, the vectors of all nodes and
\* paths and the observed counts use are numbers of the same features, those that
\* occur often enough, although each of the three is renumbered by a loop of its
\* own (feature_index.cpp:461-526).  The weights of an old model stay with their
\* features as long as shrink drops none.
FeaturesAligned ==
  phase = "iterate" =>
    LET kept == IF freq <= 1 THEN FeaturesUsed \union FeaturesOld
                ELSE { f \in FeaturesUsed : UsesOf(f) >= freq }
    IN /\ DOMAIN index.dic = kept
       /\ { index.dic[f] : f \in kept } = 0 .. Cardinality(kept) - 1
       /\ index.maxid = Cardinality(kept)
       /\ \A k \in KeysUsed : index.cache[k].vector = NumbersOf(index, FeaturesOf[k], kept)
       /\ \A f \in kept : observed[index.dic[f]] = AnswersOf(f)
       /\ freq <= 1 =>
            \A n \in DOMAIN old : old_alpha[index.dic[old[n].feature]] = old[n].weight

\* What the threads computed is the objective and the expectation of every
\* sentence, each taken once and with the weights of this iteration, whatever
\* their number and order (learner.cpp:184-206, run).
ReducedIsSum ==
  phase = "judge" =>
    /\ obj = SumFunction([s \in Sentences |-> Loss(x[s])])
    /\ expected = [id \in 0 .. index.maxid - 1 |-> SumFunction([s \in Sentences |-> Count(index, x[s])[id]])]

\* Once the weights do not change any more the training ends, unless the
\* objective is zero: then the relative change is not a number, and only the
\* optimizer can end it (learner.cpp:228-250).
TrainingEnds ==
  (<>[][FALSE]_alpha /\ <>[](phase = "judge" => Objective # 0))
    => <>(phase \in {"saved", "dead"})
=============================================================================
