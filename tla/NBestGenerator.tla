--------------------------- MODULE NBestGenerator ---------------------------
(***************************************************************************)
(* NBestGenerator of nbest_generator.cpp, driven by Lattice::next: a best- *)
(* first search from EOS back to BOS over the paths of the lattice, whose  *)
(* estimate is the Viterbi cost of the node reached.  Together with the    *)
(* phases of Viterbi it is the life of one lattice, from the caller's      *)
(* parse to the last N-best result.                                        *)
(*                                                                         *)
(* A QueueElement is the chain of nodes from its node to EOS.              *)
(***************************************************************************)
EXTENDS Viterbi

VARIABLES
  agenda,    \* the QueueElements: [chain, fx, gx]
  results    \* the chains next() has answered with, in order

vars == <<latticeVars, agenda, results>>
searchVars == <<inputVars, pos, lookupVars, listVars, markVars>>

Init == InitLattice /\ agenda = {} /\ results = <<>>

Analyze == AnalyzeStep /\ UNCHANGED <<agenda, results>>

\* initNBest: NBestGenerator::set, if the request asks for it
InitNBest ==
  /\ place = "initNBest"
  /\ place' = "parsed"
  /\ agenda' = IF "NBEST" \in request THEN {[chain |-> <<EOS>>, fx |-> 0, gx |-> 0]} ELSE {}
  /\ UNCHANGED <<searchVars, prev, next, results>>

\* Lattice::next; without NBEST it only sets an error message
CallNext ==
  /\ place \in {"parsed", "result"}
  /\ "NBEST" \in request
  /\ place' = "searching"
  /\ UNCHANGED <<searchVars, prev, next, agenda, results>>

\* agenda_.top(): the order of equal elements is the heap's
Top(e) == e \in agenda /\ \A f \in agenda : e.fx <= f.fx
\* fault: the estimate leaves out the cost of the connection just taken
ElementWithoutPath(q, top) == [chain |-> <<q.lnode>> \o top.chain,
                               gx |-> q.cost + top.gx,
                               fx |-> cost[q.lnode] + top.gx]

Element(q, top) == [chain |-> <<q.lnode>> \o top.chain,
                    gx |-> q.cost + top.gx,
                    fx |-> cost[q.lnode] + q.cost + top.gx]

\* fault: the element is looked at but stays in the agenda
ExpandWithoutPop ==
  /\ place = "searching"
  /\ \E top \in agenda :
       /\ Top(top) /\ Head(top.chain).stat # "bos"
       /\ agenda' = agenda \union
            { Element(q, top) : q \in { p \in paths : p.rnode = Head(top.chain) } }
  /\ UNCHANGED <<searchVars, place, prev, next, results>>

Expand ==
  /\ place = "searching"
  /\ \E top \in agenda :
       /\ Top(top) /\ Head(top.chain).stat # "bos"
       /\ agenda' = (agenda \ {top}) \union
            { Element(q, top) : q \in { p \in paths : p.rnode = Head(top.chain) } }
  /\ UNCHANGED <<searchVars, place, prev, next, results>>

\* fault: the links are not rewritten along the path found
FindUnlinked ==
  /\ place = "searching"
  /\ \E top \in agenda : /\ Top(top) /\ Head(top.chain).stat = "bos"
                         /\ agenda' = agenda \ {top}
                         /\ results' = Append(results, top.chain)
  /\ place' = "result"
  /\ UNCHANGED <<searchVars, prev, next>>

\* a path back to BOS: it becomes the result, or ALL_MORPHS links every node again
Find ==
  /\ place = "searching"
  /\ \E top \in agenda :
       /\ Top(top) /\ Head(top.chain).stat = "bos"
       /\ agenda' = agenda \ {top}
       /\ results' = Append(results, top.chain)
       /\ LET linked == IF "ALL_MORPHS" \in request THEN AllMorphs ELSE top.chain
          IN  next' = NextAlong(linked) /\ prev' = PrevAlong(linked)
  /\ place' = "result"
  /\ UNCHANGED searchVars

Exhaust ==
  /\ place = "searching" /\ agenda = {}
  /\ place' = "exhausted"
  /\ UNCHANGED <<searchVars, prev, next, agenda, results>>

Search == Expand \/ Find \/ Exhaust
Next == Analyze \/ InitNBest \/ CallNext \/ Search

Spec == Init /\ [][Next]_vars

\* next() is one loop of one thread: called, it runs on
FairSpec == Spec /\ WF_vars(Search)
-----------------------------------------------------------------------------
(* The segmentations of the sentence that the lattice admits.              *)

\* UpTo[p]: the chains of nodes from BOS that end at p
SegmentationsTo ==
  LET UpTo[p \in 0..size] ==
        IF p = 0 THEN {<<BOS>>}
        ELSE UNION { { Append(s, n) : s \in UpTo[BeginOf(n)] } :
                     n \in UNION { { m \in ToSet(begin_nodes[q]) : EndOf(m) = p } : q \in 0..p-1 } }
  IN  UpTo

\* white space at the end belongs to no node: EOS follows the last node
Segmentations ==
  LET last == Max({ p \in 0..size : SegmentationsTo[p] # {} })
  IN  { Append(s, EOS) : s \in SegmentationsTo[last] }

\* what the links of a chain add up to, and what their weights multiply to
CostOf(chain) ==
  LET upTo[i \in 1..Len(chain)] ==
        IF i = 1 THEN 0 ELSE upTo[i - 1] + LocalCost(chain[i - 1], chain[i])
  IN  upTo[Len(chain)]
WeightOf(chain) ==
  LET upTo[i \in 1..Len(chain)] ==
        IF i = 1 THEN 1 ELSE upTo[i - 1] * Weight(LocalCost(chain[i - 1], chain[i]))
  IN  upTo[Len(chain)]

Read == place \in {"parsed", "searching", "result", "exhausted"}
Shown == place \in {"parsed", "result"}   \* the caller may follow the links

\* BOS, and what follows it along next
ResultList ==
  LET from[n \in Nodes] == IF next[n] = None THEN <<n>> ELSE <<n>> \o from[next[n]]
  IN  from[BOS]
-----------------------------------------------------------------------------
(* Properties                                                              *)

\* Every node is linked inside the lists the sentence allocated, and the
\* results are chains of linked nodes.
TypeOK ==
  /\ place \in {"initPartial", "scan", "lookup", "dictionary", "blank", "group", "count",
                "single", "stretch", "force", "connect", "too long sentence", "died", "forwardbackward",
                "buildBestLattice", "buildAllLattice", "initNBest", "parsed", "searching",
                "result", "exhausted"}
  /\ DOMAIN prev = Nodes /\ DOMAIN next = Nodes /\ isbest \subseteq Nodes
  /\ \A n \in Nodes : /\ cost[n] \in Int /\ cost[n] < CostLimit
                      /\ prev[n] \in Nodes \union {None}
                      /\ next[n] \in Nodes \union {None}
  /\ \A p \in DOMAIN end_nodes : \A n \in ToSet(end_nodes[p]) : n.stat # "eos" => EndOf(n) = p
  /\ \A i \in DOMAIN results : ToSet(results[i]) \subseteq Nodes

\* The nodes marked isbest are a segmentation of the sentence of least cost among
\* all the lattice admits, and the cost at EOS is that cost; parse gives up only
\* when no way to some node stays below the limit (viterbi, buildBestLattice).
BestPathOptimal ==
  /\ Read => \E s \in Segmentations : /\ isbest = ToSet(s) /\ cost[EOS] = CostOf(s)
                                      /\ \A t \in Segmentations : cost[EOS] <= CostOf(t)
  /\ place = "too long sentence" =>
       \E p \in DOMAIN begin_nodes : \E n \in ToSet(begin_nodes[p]) :
         \A s \in (IF n.stat = "eos" THEN { Front(t) : t \in Segmentations }
                   ELSE SegmentationsTo[p]) :
           CostOf(Append(s, n)) >= CostLimit

\* With MARGINAL_PROB, alpha at EOS is the weight of all segmentations, and the
\* probability of a node, exp(alpha + beta - Z), is the share of those through it:
\* the two passes over the lists agree on the same set of paths (forwardbackward).
MarginalsExact ==
  Read /\ "MARGINAL_PROB" \in request =>
    /\ alpha[EOS] = MapThenSumSet(WeightOf, Segmentations)
    /\ \A n \in Nodes :
         alpha[n] * beta[n] = MapThenSumSet(WeightOf, { s \in Segmentations : n \in ToSet(s) })

\* What the caller reads along next and prev after a parse or after next() is the
\* result: the best path, the N-best path just found or, with ALL_MORPHS, every
\* node once, whatever links earlier results left behind.
LinksAreResult ==
  Shown =>
    /\ IF "ALL_MORPHS" \in request
       THEN Len(ResultList) = Cardinality(Nodes) /\ ToSet(ResultList) = Nodes
       ELSE IF results = <<>> THEN ToSet(ResultList) = isbest
       ELSE ResultList = Last(results)
    /\ \A i \in 2..Len(ResultList) : prev[ResultList[i]] = ResultList[i - 1]

\* In every segmentation under constraints, no node ends inside a constrained
\* token, none spans a token boundary, and a constrained token is there with a
\* feature that matches (lookup, is_valid_node, initPartial).
ConstraintsHonoured ==
  Read /\ HasConstraint(constraint) => \A s \in Segmentations :
    /\ \A n \in ToSet(s) :
         /\ BoundaryAt(constraint, EndOf(n)) # "inside"
         /\ \A p \in n.surface+1..EndOf(n)-1 : BoundaryAt(constraint, p) # "token"
    /\ \A p \in 0..size-1 : FeatureAt(constraint, p) # None =>
         \E n \in ToSet(s) : /\ BeginOf(n) = p
                             /\ PartialMatch(FeatureAt(constraint, p), n.token.feature)

\* The answers of next() are the segmentations of the lattice, cheapest first, each
\* once, and it answers "no more" only when all have been given.
Ranking == INSTANCE PathRanking WITH
  Cost <- CostOf,
  candidates <- IF Read /\ "NBEST" \in request THEN Segmentations ELSE {},
  ranked <- results,
  exhausted <- place = "exhausted"
ImplementsRanking == Ranking!Spec

\* Every call of next() answers.
NextReturns == place = "searching" ~> place \in {"result", "exhausted"}
=============================================================================
