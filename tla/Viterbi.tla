------------------------------ MODULE Viterbi ------------------------------
(***************************************************************************)
(* Viterbi::analyze of viterbi.cpp: the lattice of a sentence is built     *)
(* from left to right, every node is linked to its cheapest left           *)
(* neighbour, and the lattice is then read in the ways the request asks    *)
(* for.  One action is one phase of analyze, or one position of the loop   *)
(* over the sentence.                                                      *)
(*                                                                         *)
(* Lists of nodes are sequences in the order of the bnext and enext lists. *)
(* A log-probability -theta * cost is abstracted to a positive weight, so  *)
(* logsumexp is a sum and its exponent an exact number.                    *)
(***************************************************************************)
EXTENDS Tokenizer

CONSTANTS
  Inputs,        \* what the caller may have prepared: [text, request,
                 \* constraint]; the text of a PARTIAL request is its lines
  LSize, Matrix, \* matrix.bin: costs at rcAttr + LSize * lcAttr
  CostLimit,     \* 2147483647, the initial best_cost of connect
  Weight(_)      \* exp(-theta * cost)

VARIABLES
  request,                 \* the flags of the request type
  begin_nodes, end_nodes,  \* position -> list of nodes
  cost, prev, next,        \* fields of the nodes linked so far
  isbest,                  \* the nodes marked isbest
  paths,                   \* the Paths of the lattice
  alpha, beta              \* exp of the fields of the same name

inputVars == <<sentence, request, constraint>>
listVars == <<begin_nodes, end_nodes, cost, paths>>
markVars == <<isbest, alpha, beta>>
latticeVars == <<inputVars, place, pos, lookupVars, listVars, prev, next, markVars>>

size == Len(sentence)
IsAllPath == request \intersect {"NBEST", "MARGINAL_PROB"} # {}

InitLattice ==
  /\ \E input \in Inputs : /\ sentence = input.text
                           /\ request = input.request
                           /\ constraint = input.constraint
  /\ place = "initPartial" /\ pos = 0
  /\ end = 0 /\ begin2 = 0 /\ begin3 = 0 /\ group_begin3 = None
  /\ cinfo = Property[Space] /\ found = <<>>
  /\ begin_nodes = <<>> /\ end_nodes = <<>>
  /\ cost = [n \in {BOSNode} |-> 0]
  /\ prev = [n \in {BOSNode} |-> None] /\ next = prev
  /\ isbest = {BOSNode}
  /\ paths = {}
  /\ alpha = <<>> /\ beta = <<>>
-----------------------------------------------------------------------------
(* initPartial and the head of viterbi<>                                   *)

\* the lines of the partial parsing format, read up to EOS
TextOfLines(lines) == FlattenSeq([i \in DOMAIN lines |-> lines[i].surface])

\* a token boundary around every line; a line with a feature is one token of it
ConstraintOfLines(lines) ==
  LET total == Len(TextOfLines(lines))
      begin == [k \in 1..Len(lines)+1 |-> Len(TextOfLines(SubSeq(lines, 1, k - 1)))]
      Inside(k, q) == begin[k] < q /\ q < begin[k + 1] /\ lines[k].feature # None
      BeginsAt(k, q) == begin[k] = q /\ lines[k].feature # None
  IN  IF lines = <<>> THEN NoConstraint
      ELSE [boundary |-> [q \in 0..total+3 |->
              IF q \in Range(begin) THEN "token"
              ELSE IF \E k \in DOMAIN lines : Inside(k, q) THEN "inside" ELSE "any"],
            feature |-> [q \in 0..total+3 |->
              IF \E k \in DOMAIN lines : BeginsAt(k, q)
              THEN lines[CHOOSE k \in DOMAIN lines : BeginsAt(k, q)].feature ELSE None]]

\* without PARTIAL: a constrained sentence begins and ends at a token boundary
ClosedConstraint(c, total) ==
  IF HasConstraint(c)
  THEN SetBoundary(SetBoundary(c, total, 0, "token"), total, total, "token")
  ELSE c

\* the PARTIAL text replaces the sentence; set_sentence drops the caller's constraints
InitPartial ==
  /\ place = "initPartial"
  /\ place' = "scan"
  /\ \/ /\ "PARTIAL" \notin request
        /\ constraint' = ClosedConstraint(constraint, size)
        /\ UNCHANGED sentence
     \/ /\ "PARTIAL" \in request
        /\ sentence' = TextOfLines(sentence)
        /\ constraint' = ConstraintOfLines(sentence)
  /\ begin_nodes' = [p \in 0..Len(sentence') |-> <<>>]
  /\ end_nodes' = [p \in 0..Len(sentence')+3 |-> IF p = 0 THEN <<BOSNode>> ELSE <<>>]
  /\ UNCHANGED <<request, pos, lookupVars, cost, paths, prev, next, markVars>>
-----------------------------------------------------------------------------
(* connect                                                                 *)

LocalCost(l, r) == Matrix[l.token.rcAttr + LSize * r.token.lcAttr] + r.token.wcost
CostThrough(l, r) == cost[l] + LocalCost(l, r)

\* fault: the comparison leaves out the cost of the left node
BestLeftGreedy(lnodes, r) ==
  { i \in DOMAIN lnodes :
      \A j \in DOMAIN lnodes :
        \/ LocalCost(lnodes[i], r) < LocalCost(lnodes[j], r)
        \/ LocalCost(lnodes[i], r) = LocalCost(lnodes[j], r) /\ i <= j }

\* the first of the cheapest left neighbours, if any is below the limit
BestLeft(lnodes, r) ==
  { i \in DOMAIN lnodes :
      /\ CostThrough(lnodes[i], r) < CostLimit
      /\ \A j \in DOMAIN lnodes :
           \/ CostThrough(lnodes[i], r) < CostThrough(lnodes[j], r)
           \/ CostThrough(lnodes[i], r) = CostThrough(lnodes[j], r) /\ i <= j }

\* the values of new, and those of old where new has none
Updated(old, new) ==
  [n \in DOMAIN old \union DOMAIN new |-> IF n \in DOMAIN new THEN new[n] ELSE old[n]]

PathsBetween(ls, rs) ==
  { [lnode |-> l, rnode |-> r, cost |-> LocalCost(l, r)] : l \in ls, r \in rs }

\* links the list rnodes at p, up to the first that has no left neighbour
Connect(p, rnodes, goto) ==
  LET lnodes == end_nodes[p]
      reached == SelectInSeq(rnodes, LAMBDA r : BestLeft(lnodes, r) = {})
      linked == IF reached = 0 THEN rnodes ELSE SubSeq(rnodes, 1, reached - 1)
      tried == IF reached = 0 THEN rnodes ELSE SubSeq(rnodes, 1, reached)
      Left(r) == lnodes[CHOOSE i \in BestLeft(lnodes, r) : TRUE]
      \* viterbi<> sets end_nodes[0] again at its end, so EOS never stays there
      Ending(x) == IF x = 0 THEN <<>>
                   ELSE Reverse(Picked(linked,
                                  { i \in DOMAIN linked : linked[i].rlength + p = x }))
  IN  /\ cost' = Updated(cost, [r \in ToSet(linked) |-> CostThrough(Left(r), r)])
      /\ prev' = Updated(prev, [r \in ToSet(linked) |-> Left(r)])
      /\ next' = Updated(next, [r \in ToSet(linked) |-> None])
      /\ end_nodes' = [x \in DOMAIN end_nodes |-> Ending(x) \o end_nodes[x]]
      /\ paths' = IF ~ IsAllPath THEN paths
                  ELSE paths \union PathsBetween(ToSet(lnodes), ToSet(tried))
      /\ place' = IF reached = 0 THEN goto ELSE "too long sentence"

\* a position no node ends at is passed over
SkipPosition ==
  /\ place = "scan" /\ pos < size
  /\ end_nodes[pos] = <<>>
  /\ pos' = pos + 1
  /\ UNCHANGED <<inputVars, place, lookupVars, listVars, prev, next, markVars>>

ScanPosition ==
  /\ Stage("scan", "lookup")
  /\ pos < size /\ end_nodes[pos] # <<>>
  /\ UNCHANGED <<inputVars, pos, lookupVars, listVars, prev, next, markVars>>

ConnectFound ==
  /\ place = "connect"
  /\ begin_nodes' = [begin_nodes EXCEPT ![pos] = found]
  /\ Connect(pos, found, "scan")
  /\ pos' = pos + 1
  /\ UNCHANGED <<inputVars, lookupVars, markVars>>

\* EOS is linked to the last position that nodes end at
ConnectEOS ==
  /\ place = "scan" /\ pos = size
  /\ begin_nodes' = [begin_nodes EXCEPT ![size] = <<EOSNode(size)>>]
  /\ Connect(Max({ p \in 0..size : end_nodes[p] # <<>> }), <<EOSNode(size)>>,
             "forwardbackward")
  /\ UNCHANGED <<inputVars, pos, lookupVars, markVars>>
-----------------------------------------------------------------------------
(* The readings of the finished lattice                                    *)

Nodes == DOMAIN cost
BOS == end_nodes[0][1]
EOS == begin_nodes[size][1]

\* logsumexp over a list of paths; a node without any keeps exp(0.0)
SumOver(Term(_), S) == IF S = {} THEN 1 ELSE MapThenSumSet(Term, S)

\* fault: the backward pass starts one position too early
EndingInsideShort == UNION { ToSet(end_nodes[p]) : p \in 0..size-1 }

\* calc_beta runs over the nodes that end inside the sentence; the beta of the
\* others stays what newNode made it
EndingInside == UNION { ToSet(end_nodes[p]) : p \in 0..size }

ForwardBackward ==
  LET calc_alpha[n \in Nodes] ==
        SumOver(LAMBDA q : Weight(q.cost) * calc_alpha[q.lnode], { q \in paths : q.rnode = n })
      calc_beta[n \in Nodes] ==
        IF n \notin EndingInside THEN 1
        ELSE SumOver(LAMBDA q : Weight(q.cost) * calc_beta[q.rnode], { q \in paths : q.lnode = n })
  IN  /\ place = "forwardbackward"
      /\ place' = "buildBestLattice"
      /\ IF "MARGINAL_PROB" \in request THEN alpha' = calc_alpha /\ beta' = calc_beta
         ELSE UNCHANGED <<alpha, beta>>
      /\ UNCHANGED <<inputVars, pos, lookupVars, listVars, prev, next, isbest>>

\* the links along a chain of nodes
IndexIn(chain, n) == SelectInSeq(chain, LAMBDA m : m = n)
NextAlong(chain) ==
  Updated(next, [n \in ToSet(Front(chain)) |-> chain[IndexIn(chain, n) + 1]])
PrevAlong(chain) ==
  Updated(prev, [n \in ToSet(Tail(chain)) |-> chain[IndexIn(chain, n) - 1]])

BuildBestLattice ==
  LET back[n \in Nodes] == IF prev[n] = None THEN <<n>> ELSE Append(back[prev[n]], n)
  IN  /\ place = "buildBestLattice"
      /\ place' = "buildAllLattice"
      /\ isbest' = isbest \union ToSet(back[EOS])
      /\ next' = NextAlong(back[EOS])
      /\ UNCHANGED <<inputVars, pos, lookupVars, listVars, prev, alpha, beta>>

\* with ALL_MORPHS the result list is every node of the lattice
AllMorphs == <<BOS>> \o FlattenSeq([i \in 1..size+1 |-> begin_nodes[i - 1]])

BuildAllLattice ==
  /\ place = "buildAllLattice"
  /\ place' = "initNBest"
  /\ IF "ALL_MORPHS" \in request
     THEN next' = NextAlong(AllMorphs) /\ prev' = PrevAlong(AllMorphs)
     ELSE UNCHANGED <<next, prev>>
  /\ UNCHANGED <<inputVars, pos, lookupVars, listVars, markVars>>

\* the attributes of tokens lie in the matrix
ASSUME CostAssumption ==
  /\ CostLimit \in Nat \ {0}
  /\ \A t \in Tokens : t.wcost \in Int
  /\ \A l, r \in Tokens \union {NullToken} : Matrix[l.rcAttr + LSize * r.lcAttr] \in Int

(* Callers pass texts of known characters and constraints made for them.   *)
(* Under constraints a text has no white space: a constraint set behind it *)
(* is looked for in front of it, and a lookup that finds nothing goes on   *)
(* past the end (tokenizer.cpp 317, 367).                                  *)
IsText(text) == text \in Seq(DOMAIN Property)
Spaceless(text) == \A i \in DOMAIN text : ~ IsKindOf(Property[Space], Property[text[i]])

\* the features that the constraints name
ConstraintFeatures ==
  {None} \union
    UNION { IF "PARTIAL" \in input.request THEN { line.feature : line \in ToSet(input.text) }
            ELSE Range(input.constraint.feature) : input \in Inputs }

IsConstraint(c, n) ==
  \/ c = NoConstraint
  \/ /\ c.boundary \in [0..n+3 -> {"any", "token", "inside"}]
     /\ c.feature \in [0..n+3 -> ConstraintFeatures] \union {<<>>}
     /\ c = [boundary |-> c.boundary, feature |-> c.feature]

ASSUME InputsAssumption ==
  \A input \in Inputs :
    IF "PARTIAL" \in input.request
    THEN /\ input.text \in Seq(ToSet(input.text))
         /\ IsText(TextOfLines(input.text)) /\ Spaceless(TextOfLines(input.text))
    ELSE /\ IsText(input.text) /\ IsConstraint(input.constraint, Len(input.text))
         /\ HasConstraint(input.constraint) => Spaceless(input.text)

\* Nothing in a constraint contradicts the rest of it: a feature is at a token
\* boundary, and a token ends within the stretch that one lookup reads
\* (set_feature_constraint, tokenizer.cpp 217)
KeepsToTokens(c, n) ==
  /\ \A p \in 0..n-1 : FeatureAt(c, p) # None => BoundaryAt(c, p) = "token"
  /\ \A p \in 0..n-1 : \E q \in p+1..n : q <= p + MaxLookup + 1 /\ BoundaryAt(c, q) # "inside"

\* so it is for the constraints that initPartial makes of the inputs
ConstraintsFit ==
  \A input \in Inputs :
    LET partial == "PARTIAL" \in input.request
        total == Len(IF partial THEN TextOfLines(input.text) ELSE input.text)
        c == IF partial THEN ConstraintOfLines(input.text)
             ELSE ClosedConstraint(input.constraint, total)
    IN  HasConstraint(c) => KeepsToTokens(c, total)

\* A token is its record in the image, and no two of a word, of a word in two
\* dictionaries or of an unknown category are the same: then nodes that lookup
\* makes apart differ here too, where a node is what its fields are
TokensDiffer ==
  /\ \A d \in DOMAIN Dictionaries : \A w \in DOMAIN Dictionaries[d] : IsInjective(Dictionaries[d][w])
  /\ \A d, e \in DOMAIN Dictionaries : d # e =>
       \A w \in DOMAIN Dictionaries[d] \intersect DOMAIN Dictionaries[e] :
         ToSet(Dictionaries[d][w]) \intersect ToSet(Dictionaries[e][w]) = {}
  /\ \A c \in DOMAIN UnkTokens : IsInjective(UnkTokens[c])

\* no node is a null pointer
NodeTokens ==
  Tokens \union {NullToken} \union { [NullToken EXCEPT !.feature = f] : f \in ConstraintFeatures }
NodeRecords ==
  [stat : {"bos", "nor", "unk", "eos"}, surface : Int, length : Int, rlength : Int,
   token : NodeTokens]

ASSUME NullAssumption == None \notin NodeRecords

LookupStep == Lookup /\ UNCHANGED <<request, listVars, prev, next, markVars>>

AnalyzeStep ==
  \/ InitPartial \/ SkipPosition \/ ScanPosition \/ LookupStep \/ ConnectFound \/ ConnectEOS
  \/ ForwardBackward \/ BuildBestLattice \/ BuildAllLattice
=============================================================================
