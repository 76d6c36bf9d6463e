----------------------------- MODULE Tokenizer -----------------------------
(***************************************************************************)
(* Tokenizer::lookup of tokenizer.cpp: the nodes that may begin at one     *)
(* position of the sentence, from the dictionaries and from the unknown    *)
(* word rules of the character properties, under the boundary and feature  *)
(* constraints of the lattice.  The actions are the stages of one lookup,  *)
(* from place "lookup" to "connect" or to the CHECK_DIE that ends the      *)
(* program; Viterbi runs them for each position it comes to.               *)
(*                                                                         *)
(* A sentence is a sequence of characters; positions count from zero as in *)
(* the code, a character is one position wide, and the character after the *)
(* last is the terminating Nul.                                            *)
(***************************************************************************)
EXTENDS Integers, SequencesExt

CONSTANTS
  Property,          \* character -> CharInfo: [type, default_type, length,
                     \* group, invoke], type being a set of categories
  Space, Nul,        \* the characters 0x20 and 0x00
  Dictionaries,      \* the system dictionary, then the user dictionaries:
                     \* each a function from words to their tokens
  UnkTokens,         \* category -> its tokens in unk.dic
  MaxGroupingSize,   \* max-grouping-size
  MaxLookup,         \* 65535: the longest stretch one lookup reads
  None               \* a null pointer

VARIABLES
  sentence, constraint,   \* of the lattice
  pos,                    \* the position looked up: begin - sentence
  place,                  \* where the program is
  end, begin2, begin3, group_begin3, cinfo,   \* the locals of lookup
  found                   \* the bnext list of nodes made so far: result_node

sentenceVars == <<sentence, constraint, pos>>
lookupVars == <<end, begin2, begin3, group_begin3, cinfo, found>>

Words == UNION { DOMAIN Dictionaries[d] : d \in DOMAIN Dictionaries }

Tokens ==
  UNION { UNION { ToSet(Dictionaries[d][w]) : w \in DOMAIN Dictionaries[d] } :
          d \in DOMAIN Dictionaries }
    \union UNION { ToSet(UnkTokens[c]) : c \in DOMAIN UnkTokens }

ASSUME TokenizerAssumption ==
  /\ {Space, Nul} \subseteq DOMAIN Property
  /\ Dictionaries \in Seq(ToSet(Dictionaries)) /\ <<>> \notin Words
  /\ \A d \in DOMAIN Dictionaries : \A w \in DOMAIN Dictionaries[d] :
       Dictionaries[d][w] \in Seq(Tokens)
  /\ \A c \in DOMAIN Property :   \* open: "cannot find UNK category"
       Property[c].default_type \in DOMAIN UnkTokens
  /\ \A c \in DOMAIN UnkTokens : UnkTokens[c] \in Seq(Tokens) /\ UnkTokens[c] # <<>>
  /\ MaxGroupingSize > 0 /\ MaxLookup \in Nat \ {0}
-----------------------------------------------------------------------------
(* Constraints: boundary_constraint_ and feature_constraint_ of the        *)
(* lattice.  NoConstraint is both vectors empty.                           *)

NoConstraint == [boundary |-> <<>>, feature |-> <<>>]
HasConstraint(c) == c.boundary # <<>>
BoundaryAt(c, p) == IF HasConstraint(c) THEN c.boundary[p] ELSE "any"
FeatureAt(c, p) == IF c.feature # <<>> THEN c.feature[p] ELSE None

\* the vectors are made, four positions longer than the sentence, when first written
SetBoundary(c, size, p, type) ==
  [c EXCEPT !.boundary = [q \in 0..size+3 |-> IF q = p THEN type ELSE BoundaryAt(c, q)]]

SetFeature(c, size, begin, past, feature) ==
  LET stop == IF past < size THEN past ELSE size
  IN  IF begin >= past \/ feature = None THEN c
      ELSE [boundary |-> [q \in 0..size+3 |-> IF q \in {begin, stop} THEN "token"
                                              ELSE IF begin < q /\ q < stop THEN "inside"
                                              ELSE BoundaryAt(c, q)],
            feature |-> [q \in 0..size+3 |-> IF q = begin THEN feature ELSE FeatureAt(c, q)]]
-----------------------------------------------------------------------------
(* Nodes                                                                   *)

Node(stat, surface, length, rlength, token) ==
  [stat |-> stat, surface |-> surface, length |-> length, rlength |-> rlength,
   token |-> token]

BeginOf(n) == n.surface + n.length - n.rlength   \* before the white space
EndOf(n) == n.surface + n.length

NullToken == [lcAttr |-> 0, rcAttr |-> 0, wcost |-> 0, feature |-> <<"BOS/EOS">>]
BOSNode == Node("bos", 0, 0, 0, NullToken)
EOSNode(size) == Node("eos", size, 0, 0, NullToken)

\* the elements at the given places, in their order
Picked(s, places) ==
  LET upTo[i \in 0..Len(s)] == IF i = 0 THEN <<>>
                               ELSE IF i \in places THEN Append(upTo[i - 1], s[i])
                               ELSE upTo[i - 1]
  IN  upTo[Len(s)]

\* features are sequences of columns; a column "*" matches anything
PartialMatch(f1, f2) ==
  \A i \in DOMAIN f1 \intersect DOMAIN f2 : f1[i] = "*" \/ f1[i] = f2[i]

\* fault: a feature constraint is taken to match any node of its span
IsValidNodeAnyFeature(c, n) == BoundaryAt(c, EndOf(n)) # "inside"

IsValidNode(c, n) ==
  /\ BoundaryAt(c, EndOf(n)) # "inside"
  /\ \/ FeatureAt(c, BeginOf(n)) = None
     \/ /\ BoundaryAt(c, BeginOf(n)) = "token"
        /\ BoundaryAt(c, EndOf(n)) = "token"
        /\ PartialMatch(FeatureAt(c, BeginOf(n)), n.token.feature)
-----------------------------------------------------------------------------
(* Character runs                                                          *)

Info(text, p) == Property[IF p < Len(text) THEN text[p + 1] ELSE Nul]
IsKindOf(c, d) == c.type \intersect d.type # {}

\* seekToOtherType: from begin while each character is of a kind with the one
\* before it (the first with c); a begin past the limit runs into the Nul
SeekToOtherType(text, begin, limit, c) ==
  LET Before(p) == IF p = begin THEN c ELSE Info(text, p - 1)
      Stops(p) == p = limit \/ ~ IsKindOf(Before(p), Info(text, p))
  IN  CHOOSE p \in begin..Len(text)+1 : Stops(p) /\ \A q \in begin..p-1 : ~ Stops(q)
-----------------------------------------------------------------------------
\* where the lookup must stop reading: the next token boundary
LookupEnd(text, c, from) ==
  LET clipped == IF Len(text) - from >= MaxLookup THEN from + MaxLookup ELSE Len(text)
      bounds == { n \in from+1..Len(text)-1 : BoundaryAt(c, n) = "token" }
  IN  IF bounds = {} THEN clipped ELSE Min(bounds)

\* commonPrefixSearch: the lengths of the dictionary's words at begin, shortest
\* first; a length limit of zero means none (darts.h takes the strlen)
PrefixLengths(dic, text, begin, limit) ==
  LET reach == IF limit = 0 THEN Len(text) - begin ELSE limit
  IN  Picked([k \in 1..reach |-> k],
             { k \in 1..reach : SubSeq(text, begin + 1, begin + k) \in DOMAIN dic })
-----------------------------------------------------------------------------
(* lookup; each stage sees the nodes found before it, the last made first  *)

Valid(nodes) == Picked(nodes, { k \in DOMAIN nodes : IsValidNode(constraint, nodes[k]) })

\* fault: rlength leaves out the white space
MadeAfterSpace(stat, tokens, past) ==
  Reverse(Valid([k \in DOMAIN tokens |->
                   Node(stat, begin2, past - begin2, past - begin2, tokens[k])]))

Made(stat, tokens, past) ==
  Reverse(Valid([k \in DOMAIN tokens |->
                   Node(stat, begin2, past - begin2, past - pos, tokens[k])]))

\* ADDUNKNWON, with begin3 at past
Unknown(past, info) == Made("unk", UnkTokens[info.default_type], past)

Stage(from, to) == place = from /\ place' = to

\* white space before the token; cinfo is of the last character looked at
SkipSpace ==
  /\ Stage("lookup", "dictionary")
  /\ end' = LookupEnd(sentence, constraint, pos)
  /\ begin2' = SeekToOtherType(sentence, pos, end', Property[Space])
  /\ begin3' = begin2' + 1
  /\ cinfo' = Info(sentence, IF begin2' = end' THEN end' - 1 ELSE begin2')
  /\ found' = <<>>
  /\ UNCHANGED <<sentenceVars, group_begin3>>

\* an unknown word is only looked for if nothing is found or the character invokes it
SearchDictionaries ==
  LET Prefixed(dic) ==
        LET lengths == PrefixLengths(dic, sentence, begin2, end - begin2)
        IN  FlattenSeq(Reverse([i \in DOMAIN lengths |->
              Made("nor", dic[SubSeq(sentence, begin2 + 1, begin2 + lengths[i])],
                   begin2 + lengths[i])]))
  IN  /\ place = "dictionary"
      /\ found' = FlattenSeq(Reverse([d \in DOMAIN Dictionaries |-> Prefixed(Dictionaries[d])]))
      /\ place' = IF found' # <<>> /\ ~ cinfo.invoke THEN "connect"
                  ELSE IF begin3 > end THEN "blank" ELSE "group"
      /\ UNCHANGED <<sentenceVars, end, begin2, begin3, group_begin3, cinfo>>

\* nothing but white space up to end
AddBlank ==
  /\ place = "blank"
  /\ found' = Unknown(begin3, cinfo) \o found
  /\ place' = IF found' # <<>> THEN "connect" ELSE "group"
  /\ UNCHANGED <<sentenceVars, end, begin2, begin3, group_begin3, cinfo>>

\* a run of characters of a kind, unless it is too long
AddGroup ==
  /\ Stage("group", "count")
  /\ IF cinfo.group
     THEN /\ group_begin3' = SeekToOtherType(sentence, begin3, end, cinfo)
          /\ found' = IF group_begin3' - begin3 <= MaxGroupingSize
                      THEN Unknown(group_begin3', cinfo) \o found ELSE found
     ELSE group_begin3' = None /\ UNCHANGED found
  /\ UNCHANGED <<sentenceVars, end, begin2, begin3, cinfo>>

\* the loop of i = begin3 - begin2 up to cinfo.length; at the group's end it stays
Counting ==
  /\ begin3 - begin2 <= cinfo.length
  /\ begin3 <= end
  /\ begin3 # group_begin3

AddCounted ==
  /\ place = "count" /\ Counting
  /\ found' = Unknown(begin3, cinfo) \o found
  /\ IF IsKindOf(cinfo, Info(sentence, begin3))
     THEN begin3' = begin3 + 1 /\ UNCHANGED place
     ELSE place' = "single" /\ UNCHANGED begin3
  /\ UNCHANGED <<sentenceVars, end, begin2, group_begin3, cinfo>>

EndCounting ==
  /\ Stage("count", "single")
  /\ ~ Counting
  /\ UNCHANGED <<sentenceVars, end, begin2, begin3, group_begin3, cinfo, found>>

AddSingle ==
  /\ place = "single"
  /\ found' = IF found = <<>> THEN Unknown(begin3, cinfo) ELSE found
  /\ place' = IF found' = <<>> /\ HasConstraint(constraint) THEN "stretch" ELSE "connect"
  /\ UNCHANGED <<sentenceVars, end, begin2, begin3, group_begin3, cinfo>>

\* under constraints: one node up to the next place where a token may end,
\* with the feature of the constraint if no unknown word fits
AddStretched ==
  /\ place = "stretch"
  /\ begin3' = CHOOSE p \in begin2+1..Len(sentence)+1 :
                 /\ p > end \/ BoundaryAt(constraint, p) # "inside"
                 /\ \A q \in begin2+1..p-1 : q <= end /\ BoundaryAt(constraint, q) = "inside"
  /\ cinfo' = Info(sentence, begin3' - 1)
  /\ found' = Unknown(begin3', cinfo')
  /\ place' = IF found' # <<>> THEN "connect" ELSE "force"
  /\ UNCHANGED <<sentenceVars, end, begin2, group_begin3>>

\* CHECK_DIE(new_node->feature)
AddForced ==
  /\ place = "force"
  /\ found' = <<Node("unk", begin2, begin3 - begin2, begin3 - pos,
                     [NullToken EXCEPT !.feature = FeatureAt(constraint, pos)])>>
  /\ place' = IF FeatureAt(constraint, pos) = None THEN "died" ELSE "connect"
  /\ UNCHANGED <<sentenceVars, end, begin2, begin3, group_begin3, cinfo>>

Lookup ==
  \/ SkipSpace \/ SearchDictionaries \/ AddBlank \/ AddGroup
  \/ AddCounted \/ EndCounting \/ AddSingle \/ AddStretched \/ AddForced
=============================================================================
