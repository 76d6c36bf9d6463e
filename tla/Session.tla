------------------------------ MODULE Session ------------------------------
(***************************************************************************)
(* One lattice and the calls a program makes on it: a Tagger's own         *)
(* lattice, reached only through the calls of TaggerImpl, or a client's    *)
(* lattice with the calls of LatticeImpl (tagger.cpp, string_buffer.cpp).  *)
(* What the calls hand to each other is modelled: the settings copied from *)
(* tagger to lattice and reset on the way, the sentence and features in    *)
(* the pool, the links of the nodes, the agenda of the N-best search, and  *)
(* the output buffers.  An analysis itself is its list of results, which   *)
(* Viterbi and NBestGenerator compute; results are written in the plain    *)
(* format of a lattice, which is also the Writer's default.                *)
(*                                                                         *)
(* asked observes what the caller is entitled to: the text, the settings   *)
(* he chose, and how many results he has been through since the analysis.  *)
(***************************************************************************)
EXTENDS ChunkFreeList, SequencesExt

CONSTANTS
  None,
  Texts,          \* what callers pass: sentences and partial texts
  Size,           \* bytes of a text
  Joined,         \* a partial text without its tabs, features and line ends
  TooLong,        \* the texts whose analysis gives up
  Results,        \* of a text, cheapest first; a result is a sequence of words
  Morphs,         \* of a text: all its words, the list of ALL_MORPHS
  RequestTypes,   \* the settings callers choose from
  Thetas, DefaultTheta,
  Capacities,     \* of buffers that callers provide
  NBestMax,       \* NBEST_MAX
  Numbers,        \* of results asked for
  MaxLong         \* bound: calls that copy long strings end with so many of them

VARIABLES
  owner,          \* "tagger" or "client"
  request_type, theta,   \* of the tagger
  lattice,        \* [request_type, theta, sentence, result]
  agenda,         \* results the search still holds, and whether their nodes are the lattice's
  pool,           \* the strings' memory
  ostrs,          \* the lattice's own output buffer
  pc, call,       \* where the call in progress is, and its arguments
  answer,         \* what the last call returned
  used,           \* the settings the last analysis read
  asked

settings == <<owner, request_type, theta>>
vars == <<settings, lattice, agenda, pool, ostrs, pc, call, answer, used, asked>>

-----------------------------------------------------------------------------
\* StringBuffer: growing, or of the caller's fixed capacity

Growing == [pieces |-> <<>>, size |-> 0, capacity |-> None, error |-> FALSE]
Fixed(capacity) == [Growing EXCEPT !.capacity = capacity]

\* clear() leaves the error
Cleared(os) == [os EXCEPT !.pieces = <<>>, !.size = 0]

\* write with reserve: what does not fit is left out, what fits clears the error
Write(os, piece) ==
  IF os.capacity = None \/ os.size + piece.size < os.capacity
  THEN [os EXCEPT !.pieces = Append(@, piece), !.size = @ + piece.size, !.error = FALSE]
  ELSE [os EXCEPT !.error = TRUE]

WriteAll(os, pieces) == FoldLeft(Write, os, pieces)

Terminator == [what |-> "end", of |-> None, word |-> 0, size |-> 1]

Failed == [ok |-> FALSE, text |-> <<>>]
Done == [ok |-> TRUE, text |-> <<>>]

\* the terminator and str(), which is null after an error
Str(os) == IF Write(os, Terminator).error THEN Failed ELSE [ok |-> TRUE, text |-> os.pieces]

\* writeLattice: rank 0 stands for the list of all morphs
WordsOf(t, k) == IF k = 0 THEN Morphs[t] ELSE Results[t][k]

\* a node by itself, as toString(node) writes it
NodePieces(t, k, i) ==
  LET w == WordsOf(t, k)[i]
      piece(what, size) == [what |-> what, of |-> <<t, k>>, word |-> i, size |-> size]
  IN  << piece("surface", w.surface), piece("tab", 1), piece("feature", w.feature) >>

LineEnd == [what |-> "line", of |-> None, word |-> 0, size |-> 1]

Rendered(t, k) ==
  FlattenSeq([i \in 1..Len(WordsOf(t, k)) |-> Append(NodePieces(t, k, i), LineEnd)])
    \o <<[what |-> "EOS", of |-> <<t, k>>, word |-> 0, size |-> 4]>>

Bytes(pieces) == FoldLeft(LAMBDA n, piece : n + piece.size, 0, pieces)

Buffer(dest) == IF dest = None THEN ostrs ELSE Fixed(dest)
Kept(os, dest) == IF dest = None THEN os ELSE ostrs

-----------------------------------------------------------------------------
\* where a text lies that is not in the pool
Caller == [chunk |-> 0, from |-> 0, size |-> 0]
LocalBuffer == [chunk |-> -1, from |-> 0, size |-> 0]

NoCall == [op |-> "none", n |-> None, dest |-> None, os |-> Growing, i |-> 0, served |-> 0]

Init ==
  /\ owner \in {"tagger", "client"}
  /\ request_type \in RequestTypes /\ theta \in Thetas   \* TaggerImpl::open
  /\ owner = "client" => request_type = {} /\ theta = DefaultTheta   \* not used
  /\ lattice = [request_type |-> {}, theta |-> DefaultTheta, sentence |-> None, result |-> None]
  /\ agenda = {} /\ pool = EmptyPool /\ ostrs = Growing
  /\ pc = "idle" /\ call = NoCall /\ answer = Done /\ used = None /\ asked = None

Idle == pc = "idle"
Allowed(r) == r \in RequestTypes   \* bounds the combinations of request types

\* TaggerImpl: set_request_type and its deprecated relatives
Choose(r) ==
  /\ Idle /\ owner = "tagger" /\ Allowed(r)
  /\ request_type' = r
  /\ UNCHANGED <<owner, theta, lattice, agenda, pool, ostrs, pc, call, answer, used, asked>>

SetRequestType == \E r \in RequestTypes : Choose(r)
SetPartial == \/ Choose(request_type \union {"PARTIAL"})
              \/ Choose(request_type \ {"PARTIAL"})
SetAllMorphs == \/ Choose(request_type \union {"ALL_MORPHS"})
                \/ Choose(request_type \ {"ALL_MORPHS"})
\* levels only add request types
SetLatticeLevel == \/ Choose(request_type \union {"NBEST"})
                   \/ Choose(request_type \union {"MARGINAL_PROB"})
SetTheta ==
  /\ Idle /\ owner = "tagger"
  /\ theta' \in Thetas
  /\ UNCHANGED <<owner, request_type, lattice, agenda, pool, ostrs, pc, call, answer, used, asked>>

\* fault: the request types are added to the lattice's
InitRequestTypeAdding(l) ==
  [l EXCEPT !.request_type = @ \union request_type, !.theta = theta]

InitRequestType(l) == [l EXCEPT !.request_type = request_type, !.theta = theta]

WithNBest(op, r) == IF op \in {"parseNBestInit", "parseNBest"} THEN r \union {"NBEST"} ELSE r

-----------------------------------------------------------------------------
\* LatticeImpl::clear: the agenda keeps its elements, their nodes are freed
Dead(elements) == { [e EXCEPT !.live = FALSE] : e \in elements }
ClearedLattice(l) ==
  [request_type |-> l.request_type, theta |-> DefaultTheta, sentence |-> None, result |-> None]

Stored(r) == "ALLOCATE_SENTENCE" \in r \/ "PARTIAL" \in r

\* fault: clear() runs after sentence_ has been set
LoadedThenCleared(l, t, at, src) == ClearedLattice(l)

\* sentence t, copied from the region src to the region at
Loaded(l, t, at, src) ==
  [request_type |-> l.request_type, theta |-> DefaultTheta, result |-> None,
   sentence |-> [text |-> t, at |-> at, intact |-> at = src \/ ~ Overlap(at, src)]]

\* Allocator::strdup: the terminator, and one byte more
CopySize(n) == n + 2

\* texts whose sentence or results are long strings
LongTexts ==
  { t \in Texts :
      \/ CopySize(Size[t]) > ShortRequest
      \/ \E k \in 1..Len(Results[t]) : CopySize(Bytes(Rendered(t, k))) > ShortRequest }

WithinBound(t) == pool.long < MaxLong \/ t \notin LongTexts

\* LatticeImpl::set_sentence on lattice l with pool p, the text t lying at src
SetSentence(l, p, t, src) ==
  /\ agenda' = Dead(agenda)
  /\ ostrs' = Cleared(ostrs)
  /\ LET free == Free(p)  req == CopySize(Size[t]) IN
     IF Stored(l.request_type)
     THEN \E i \in FirstFit(free, req) :
            /\ pool' = Take(free, i, req)
            /\ lattice' = Loaded(l, t, Given(free, i, req), src)
     ELSE pool' = free /\ lattice' = Loaded(l, t, src, src)

\* initPartial has room for the joined text and its end only if it is shorter
Acceptable(t, r) == "PARTIAL" \in r => Size[Joined[t]] < Size[t]
Analyzed(t, r) == IF "PARTIAL" \in r THEN Joined[t] ELSE t

Ask(t, r, th) == [text |-> Analyzed(t, r), request_type |-> r, theta |-> th, served |-> 0]

\* parse, parseToNode, parseNBestInit and parseNBest of a Tagger, up to the analysis
TaggerParse(op, t, n, dest) ==
  /\ Idle /\ owner = "tagger" /\ WithinBound(t)
  /\ LET l == InitRequestType(lattice)
         r == WithNBest(op, request_type) IN
     /\ Acceptable(t, r)
     /\ SetSentence([l EXCEPT !.request_type = WithNBest(op, @)], pool, t, Caller)
     /\ asked' = Ask(t, r, theta)
  /\ pc' = "initPartial"
  /\ call' = [NoCall EXCEPT !.op = op, !.n = n, !.dest = dest]
  /\ answer' = Done /\ used' = None
  /\ UNCHANGED settings

\* the same on a client's lattice, call by call
ClientSetRequestType ==
  /\ Idle /\ owner = "client" /\ lattice.result = None
  /\ \E r \in RequestTypes : lattice' = [lattice EXCEPT !.request_type = r]
  /\ UNCHANGED <<settings, agenda, pool, ostrs, pc, call, answer, used, asked>>

ClientSetTheta ==
  /\ Idle /\ owner = "client" /\ lattice.result = None
  /\ \E th \in Thetas : lattice' = [lattice EXCEPT !.theta = th]
  /\ UNCHANGED <<settings, agenda, pool, ostrs, pc, call, answer, used, asked>>

ClientSetSentence(t) ==
  /\ Idle /\ owner = "client" /\ Acceptable(t, lattice.request_type) /\ WithinBound(t)
  /\ SetSentence(lattice, pool, t, Caller)
  /\ call' = NoCall /\ answer' = Done /\ used' = None /\ asked' = None
  /\ UNCHANGED <<settings, pc>>

ClientClear ==
  /\ Idle /\ owner = "client"
  /\ lattice' = ClearedLattice(lattice)
  /\ agenda' = Dead(agenda) /\ pool' = Free(pool) /\ ostrs' = Cleared(ostrs)
  /\ call' = NoCall /\ answer' = Done /\ used' = None /\ asked' = None
  /\ UNCHANGED <<settings, pc>>

\* once per set_sentence
ClientParse ==
  /\ Idle /\ owner = "client"
  /\ lattice.sentence # None /\ used = None /\ lattice.result = None
  /\ Acceptable(lattice.sentence.text, lattice.request_type)
  /\ asked' = Ask(lattice.sentence.text, lattice.request_type, lattice.theta)
  /\ pc' = "initPartial"
  /\ call' = [NoCall EXCEPT !.op = "parseLattice"]
  /\ answer' = Done
  /\ UNCHANGED <<settings, lattice, agenda, pool, ostrs, used>>

-----------------------------------------------------------------------------
\* Viterbi::analyze
InitPartial ==
  /\ pc = "initPartial"
  /\ IF "PARTIAL" \in lattice.request_type
     THEN SetSentence(lattice, pool, Joined[lattice.sentence.text], LocalBuffer)
     ELSE UNCHANGED <<lattice, agenda, pool, ostrs>>
  /\ pc' = "analyze"
  /\ UNCHANGED <<settings, call, answer, used, asked>>

Listed(t, k, l) == [text |-> t, rank |-> IF "ALL_MORPHS" \in l.request_type THEN 0 ELSE k]

\* fault: NBestGenerator::set adds to the agenda
NewAgendaOnTop(l) ==
  agenda \union { [text |-> l.sentence.text, rank |-> k, live |-> TRUE] :
                  k \in 1..Len(Results[l.sentence.text]) }

\* NBestGenerator::set
NewAgenda(l) ==
  { [text |-> l.sentence.text, rank |-> k, live |-> TRUE] :
    k \in 1..Len(Results[l.sentence.text]) }

Nodes(res) == [ok |-> TRUE, text |-> Rendered(res.text, res.rank)]

\* what the call does with the analysis
Use(res) ==
  CASE call.op \in {"parse", "toString"} ->
         pc' = "write" /\ UNCHANGED <<call, answer>>
    [] call.op = "parseNBest" ->
         /\ pc' = "enumerate"
         /\ call' = [call EXCEPT !.os = Cleared(Buffer(call.dest))]
         /\ UNCHANGED answer
    [] call.op = "parseToNode" ->
         pc' = "idle" /\ answer' = Nodes(res) /\ UNCHANGED call
    [] OTHER -> pc' = "idle" /\ answer' = Done /\ UNCHANGED call

Analyze ==
  /\ pc = "analyze"
  /\ used' = [request_type |-> lattice.request_type, theta |-> lattice.theta]
  /\ IF lattice.sentence.text \in TooLong
     THEN /\ pc' = "idle" /\ answer' = Failed
          /\ UNCHANGED <<lattice, agenda, call>>
     ELSE /\ lattice' = [lattice EXCEPT !.result = Listed(lattice.sentence.text, 1, lattice)]
          /\ agenda' = IF "NBEST" \in lattice.request_type THEN NewAgenda(lattice) ELSE agenda
          /\ Use(Listed(lattice.sentence.text, 1, lattice))
  /\ UNCHANGED <<settings, pool, ostrs, asked>>

-----------------------------------------------------------------------------
\* fault: the buffer is not cleared before the result is written
WriteOutAppending ==
  /\ pc = "write"
  /\ LET os == WriteAll(Buffer(call.dest), Rendered(lattice.result.text, lattice.result.rank)) IN
     /\ answer' = Str(os)
     /\ ostrs' = Kept(os, call.dest)
  /\ pc' = "idle"
  /\ UNCHANGED <<settings, lattice, agenda, pool, call, used, asked>>

\* LatticeImpl::toString
WriteOut ==
  /\ pc = "write"
  /\ LET os == WriteAll(Cleared(Buffer(call.dest)),
                        Rendered(lattice.result.text, lattice.result.rank)) IN
     /\ answer' = Str(os)
     /\ ostrs' = Kept(os, call.dest)
  /\ pc' = "idle"
  /\ UNCHANGED <<settings, lattice, agenda, pool, call, used, asked>>

\* NBestGenerator::next and buildResultForNBest: a freed node may be met at any time
Best(e) == e \in agenda /\ \A f \in agenda : f.live => e.rank <= f.rank
NextResult == { e \in agenda : Best(e) \/ ~ e.live }
HasNext == "NBEST" \in lattice.request_type /\ agenda # {}

Advance(e) ==
  /\ agenda' = agenda \ {e}
  /\ lattice' = [lattice EXCEPT !.result = Listed(e.text, e.rank, lattice)]

\* one more result, or one try too many
ServedOneMore ==
  [asked EXCEPT !.served = IF @ > Len(Results[asked.text]) THEN @ ELSE @ + 1]

\* enumNBestAsString
RefuseNumber ==
  /\ pc = "enumerate" /\ call.n \notin 1..NBestMax
  /\ pc' = "idle" /\ answer' = Failed
  /\ ostrs' = Kept(call.os, call.dest)
  /\ UNCHANGED <<settings, lattice, agenda, pool, call, used, asked>>

Enumerate ==
  /\ pc = "enumerate" /\ call.n \in 1..NBestMax
  /\ call.i < call.n /\ HasNext
  /\ \E e \in NextResult :
       /\ Advance(e)
       /\ LET res == Listed(e.text, e.rank, lattice) IN
          call' = [call EXCEPT !.i = @ + 1, !.os = WriteAll(@, Rendered(res.text, res.rank))]
  /\ asked' = ServedOneMore
  /\ UNCHANGED <<settings, pool, ostrs, pc, answer, used>>

EndEnumeration ==
  /\ pc = "enumerate" /\ call.n \in 1..NBestMax
  /\ call.i = call.n \/ ~ HasNext
  /\ pc' = "idle" /\ answer' = Str(call.os)
  /\ ostrs' = Kept(call.os, call.dest)
  /\ UNCHANGED <<settings, lattice, agenda, pool, call, used, asked>>

\* the caller asks for a result only after an analysis that succeeded
HasResult == Idle /\ lattice.result # None
Searching == HasResult /\ used # None /\ "NBEST" \in used.request_type

\* next and nextNode; for a client Lattice::next and bos_node
CallNext(op, dest) ==
  /\ Searching
  /\ IF HasNext
     THEN /\ \E e \in NextResult : /\ Advance(e)
                                   /\ answer' = IF op = "next" THEN Done
                                                ELSE Nodes(Listed(e.text, e.rank, lattice))
          /\ pc' = IF op = "next" THEN "write" ELSE "idle"
     ELSE /\ answer' = Failed
          /\ UNCHANGED <<lattice, agenda, pc>>
  /\ asked' = ServedOneMore
  /\ call' = [NoCall EXCEPT !.op = op, !.dest = dest]
  /\ UNCHANGED <<settings, pool, ostrs, used>>

NextNode == CallNext("nextNode", None)
TaggerNext(dest) == owner = "tagger" /\ CallNext("next", dest)

ClientToString(dest) ==
  /\ HasResult /\ owner = "client"
  /\ pc' = "write"
  /\ call' = [NoCall EXCEPT !.op = "toString", !.dest = dest]
  /\ answer' = Done
  /\ UNCHANGED <<settings, lattice, agenda, pool, ostrs, used, asked>>

ClientEnumerate(n, dest) ==
  /\ Searching /\ owner = "client"
  /\ pc' = "enumerate"
  /\ call' = [NoCall EXCEPT !.op = "enumNBest", !.n = n, !.dest = dest,
                            !.os = Cleared(Buffer(dest)), !.served = asked.served]
  /\ answer' = Done
  /\ UNCHANGED <<settings, lattice, agenda, pool, ostrs, used, asked>>

\* formatNode with the first node of the result, or with none
FormatNode(dest) ==
  /\ HasResult
  /\ LET words == WordsOf(lattice.result.text, lattice.result.rank)
         os == WriteAll(Cleared(Buffer(dest)),
                        NodePieces(lattice.result.text, lattice.result.rank, 1)) IN
     IF words = <<>>
     THEN answer' = Failed /\ ostrs' = Kept(Cleared(Buffer(dest)), dest)
     ELSE answer' = Str(os) /\ ostrs' = Kept(os, dest)
  /\ call' = [NoCall EXCEPT !.op = "formatNode", !.dest = dest]
  /\ UNCHANGED <<settings, lattice, agenda, pool, pc, used, asked>>

-----------------------------------------------------------------------------
\* LatticeImpl::set_result with the text that result k of t is written as

Overwritten(l, region) ==
  [l EXCEPT !.sentence.intact = @ /\ ~ Overlap(l.sentence.at, region)]

\* fault: the sentence is put into the pool before the text it is cut from
ClientSetResultDirectly(t, k) ==
  /\ Idle /\ owner = "client" /\ Joined[t] = t /\ WithinBound(t)
  /\ LET req == CopySize(Size[t]) IN
     \E i \in FirstFit(pool, req) :
        SetSentence(lattice, Take(pool, i, req), t, Given(pool, i, req))
  /\ pc' = "setResult"
  /\ call' = [NoCall EXCEPT !.op = "setResult", !.n = k]
  /\ answer' = Done /\ used' = None
  /\ asked' = [text |-> t, request_type |-> {}, theta |-> DefaultTheta, served |-> k]
  /\ UNCHANGED settings

ClientSetResult(t, k) ==
  /\ Idle /\ owner = "client" /\ Joined[t] = t /\ WithinBound(t)
  /\ LET text == CopySize(Bytes(Rendered(t, k)))  req == CopySize(Size[t]) IN
     \E i \in FirstFit(pool, text) :
       LET p == Take(pool, i, text) IN
       \E j \in FirstFit(p, req) : SetSentence(lattice, Take(p, j, req), t, Given(p, j, req))
  /\ pc' = "setResult"
  /\ call' = [NoCall EXCEPT !.op = "setResult", !.n = k]
  /\ answer' = Done /\ used' = None
  /\ asked' = [text |-> t, request_type |-> {}, theta |-> DefaultTheta, served |-> k]
  /\ UNCHANGED settings

\* one node of the result: its feature is copied into the pool
CopyFeature ==
  /\ pc = "setResult"
  /\ LET words == Results[asked.text][call.n] IN
     /\ call.i < Len(words)
     /\ LET req == CopySize(words[call.i + 1].feature) IN
        \E i \in FirstFit(pool, req) :
          /\ pool' = Take(pool, i, req)
          /\ lattice' = Overwritten(lattice, Given(pool, i, req))
  /\ call' = [call EXCEPT !.i = @ + 1]
  /\ UNCHANGED <<settings, agenda, ostrs, pc, answer, used, asked>>

EndSetResult ==
  /\ pc = "setResult" /\ call.i = Len(Results[asked.text][call.n])
  /\ lattice' = [lattice EXCEPT !.result = [text |-> asked.text, rank |-> call.n]]
  /\ pc' = "idle" /\ answer' = Done
  /\ UNCHANGED <<settings, agenda, pool, ostrs, call, used, asked>>

ASSUME TextsAssumption ==
  /\ Size \in [Texts -> Nat] /\ Joined \in [Texts -> Texts]
  /\ \A t \in Texts :
       /\ Results[t] \in Seq(Seq([surface : Nat, feature : Nat]))
       /\ Morphs[t] \in Seq([surface : Nat, feature : Nat])
       /\ t \notin TooLong => Results[t] # <<>>

ASSUME CapacitiesAssumption == Capacities \subseteq Nat /\ None \notin Capacities

\* the text of a result holds its words' surfaces, which make up the sentence,
\* and has more than room for their features and the ends of these
ASSUME ResultTextAssumption ==
  \A t \in Texts : Joined[t] = t =>
    \A k \in 1..Len(Results[t]) :
      LET words == Results[t][k]
          text == CopySize(Bytes(Rendered(t, k)))
      IN  /\ CopySize(Size[t]) < text
          /\ \E copied \in [0..Len(words) -> 0..text - 1] :
               /\ copied[0] = 0
               /\ \A i \in 1..Len(words) : copied[i] = copied[i - 1] + CopySize(words[i].feature)

ASSUME MaxLongAssumption == MaxLong \in Nat

-----------------------------------------------------------------------------
Dests == Capacities \union {None}

TaggerCall ==
  \/ \E t \in Texts, dest \in Dests : TaggerParse("parse", t, None, dest)
  \/ \E t \in Texts, op \in {"parseToNode", "parseNBestInit"} : TaggerParse(op, t, None, None)
  \/ \E t \in Texts, n \in Numbers, dest \in Dests : TaggerParse("parseNBest", t, n, dest)
  \/ \E dest \in Dests : TaggerNext(dest)

ClientCall ==
  \/ \E t \in Texts : ClientSetSentence(t)
  \/ ClientClear \/ ClientParse \/ ClientSetRequestType \/ ClientSetTheta
  \/ \E dest \in Dests : ClientToString(dest)
  \/ \E n \in Numbers, dest \in Dests : ClientEnumerate(n, dest)
  \/ \E t \in Texts : \E k \in 1..Len(Results[t]) : ClientSetResult(t, k)

Setting == SetRequestType \/ SetPartial \/ SetAllMorphs \/ SetLatticeLevel \/ SetTheta

Work == InitPartial \/ Analyze \/ WriteOut \/ RefuseNumber \/ Enumerate \/ EndEnumeration
          \/ CopyFeature \/ EndSetResult

Next == Setting \/ TaggerCall \/ ClientCall \/ NextNode
          \/ (\E dest \in Dests : FormatNode(dest)) \/ Work

Spec == Init /\ [][Next]_vars

-----------------------------------------------------------------------------

RequestTypeSet == SUBSET UNION (RequestTypes \union {{"NBEST"}})
ThetaSet == Thetas \union {DefaultTheta}

SentenceType == [text : Texts, at : Region, intact : BOOLEAN]
ResultType == { r \in [text : Texts, rank : Nat] : r.rank <= Len(Results[r.text]) }

LatticeType ==
  [request_type : RequestTypeSet, theta : ThetaSet,
   sentence : SentenceType \union {None}, result : ResultType \union {None}]

AgendaType == { e \in [text : Texts, rank : Nat \ {0}, live : BOOLEAN] :
                e.rank <= Len(Results[e.text]) }

AskedType == [text : Texts, request_type : RequestTypeSet, theta : ThetaSet, served : Nat]

UsedType == [request_type : RequestTypeSet, theta : ThetaSet]

ASSUME NoneAssumption ==
  /\ None \notin SentenceType /\ None \notin ResultType
  /\ None \notin AskedType /\ None \notin UsedType

(* Between calls and inside them: a call and a result have a sentence and  *)
(* somebody who asked, and what is written out exists.                     *)
TypeOK ==
  /\ pc \in {"idle", "initPartial", "analyze", "write", "enumerate", "setResult"}
  /\ request_type \in RequestTypes /\ theta \in Thetas
  /\ lattice \in LatticeType
  /\ \A e \in agenda : e \in AgendaType
  /\ asked = None \/ asked \in AskedType
  /\ pc # "idle" \/ lattice.result # None => lattice.sentence # None /\ asked # None
  /\ pc \in {"write", "enumerate"} => lattice.result # None

(* Whatever was called before, a call that has ended answers what its own  *)
(* text, the settings of its caller and the number of results he has       *)
(* already been through determine: every result once, in order, then none; *)
(* the whole text of it; and for a caller's buffer that is too small       *)
(* nothing that would not fit.                                             *)
Shown(k) == IF "ALL_MORPHS" \in asked.request_type THEN 0 ELSE k
TextOf(k) == Rendered(asked.text, Shown(k))
Count == Len(Results[asked.text])
LastShown == IF asked.served = 0 THEN 1 ELSE IF asked.served > Count THEN Count ELSE asked.served
Left(from) == IF from <= Count THEN Count - from ELSE 0
Enumeration(from, n) ==
  FlattenSeq([i \in 1..(IF n <= Left(from) THEN n ELSE Left(from)) |-> TextOf(from + i)])

Due ==
  IF asked.text \in TooLong /\ used # None THEN Failed
  ELSE CASE call.op \in {"parse", "parseToNode"} -> [ok |-> TRUE, text |-> TextOf(1)]
         [] call.op = "toString" -> [ok |-> TRUE, text |-> TextOf(LastShown)]
         [] call.op \in {"next", "nextNode"} ->
              IF asked.served > Count THEN Failed
              ELSE [ok |-> TRUE, text |-> TextOf(asked.served)]
         [] call.op \in {"parseNBest", "enumNBest"} ->
              IF call.n \notin 1..NBestMax THEN Failed
              ELSE [ok |-> TRUE, text |-> Enumeration(call.served, call.n)]
         [] call.op = "formatNode" ->
              IF WordsOf(asked.text, Shown(LastShown)) = <<>> THEN Failed
              ELSE [ok |-> TRUE, text |-> NodePieces(asked.text, Shown(LastShown), 1)]
         [] OTHER -> Done

Fitting(pieces) == call.dest = None \/ Bytes(pieces) + Terminator.size < call.dest

AnswerRight ==
  Idle /\ asked # None /\ call.op # "none" =>
    \/ answer = Due
    \/ Due.ok /\ ~ Fitting(Due.text) /\ (answer.ok => Fitting(answer.text))

(* A document's promise (runda.h 1256, 1310, 1323): a call that writes     *)
(* into a caller's buffer returns null if the whole text does not fit.     *)
NullWhenTooSmall ==
  Idle /\ asked # None /\ call.op # "none" /\ Due.ok /\ ~ Fitting(Due.text) => ~ answer.ok

(* An analysis reads the request types that its caller has chosen, with    *)
(* NBEST for the N-best calls only, whatever calls came before.            *)
RequestInForce ==
  used # None => used.request_type = asked.request_type

(* Marginal probabilities are computed with the theta that the caller has  *)
(* set (runda.h 1389).                                                     *)
ThetaInForce ==
  used # None /\ "MARGINAL_PROB" \in used.request_type => used.theta = asked.theta

(* The text that the nodes of a finished call point into is the caller's   *)
(* own or a copy in the pool that nothing has been written over, never the *)
(* working memory of an analysis; a tagger's ALLOCATE_SENTENCE makes it a  *)
(* copy.                                                                   *)
TextIntact ==
  Idle /\ lattice.sentence # None =>
    /\ lattice.sentence.intact
    /\ lattice.sentence.at # LocalBuffer
    /\ owner = "tagger" /\ "ALLOCATE_SENTENCE" \in lattice.request_type =>
         lattice.sentence.at # Caller

(* The search for the next result meets only nodes of the lattice's        *)
(* present sentence: nothing is left of searches that ended early.         *)
NextReadsLive ==
  Searching \/ pc = "enumerate" => \A e \in agenda : e.live /\ e.text = asked.text

(* Strings given out since the pool was last freed do not overlap.         *)
RegionsDisjoint == Disjoint(pool)

(* The chunks held are bounded by the heaviest single use of the lattice   *)
(* and the number of strings longer than ShortRequest that it ever took in *)
(* (freelist.h:53): calls without such strings add nothing, however many.  *)
PoolBounded == Bounded(pool)
=============================================================================
