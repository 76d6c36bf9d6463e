----------------------------- MODULE Dictionary -----------------------------
(***************************************************************************)
(* Dictionary::compile of dictionary.cpp up to the image in memory, and    *)
(* the lookups in an image that was opened: the lines of the csv files     *)
(* become tokens, the tokens are sorted by word, equal words are packed    *)
(* into one value of the double array, and a text's prefixes find them     *)
(* again.                                                                  *)
(*                                                                         *)
(* A word is a sequence of bytes.  A line whose cost or ids are empty has  *)
(* IntMax in their place (toInt).  Conversion between character sets maps  *)
(* bytes to bytes and features to features, some of them to none.          *)
(***************************************************************************)
EXTENDS DoubleArray, Rewriting, FiniteSets

CONSTANTS
  Lines,             \* of csv files: [word, lid, rid, cost, feature], BadFormat or Oversized
  Inputs,            \* [type, wakati, formatted, files]: options and csv files
  UnkDefault,        \* UNK_DEF_DEFAULT, the lines of a missing unk.def
  LeftSize, RightSize,       \* of the connection matrix, as compile finds them
  UnigramRules, LeftRules, RightRules,       \* rewrite.def
  LeftIds, RightIds,         \* left-id.def, right-id.def: functions of features
  PosId(_),          \* POSIDGenerator::id
  ModelCost(_, _),   \* calcCost of a word and a feature
  Recoded,           \* iconv: a function of bytes, those it cannot convert are missing
  RecodedFeature(_), \* the same for a feature; None if it cannot be converted
  NodeFormat(_),     \* writeNode of a feature; None if it fails
  None,
  Missing,           \* in place of a file that does not exist
  BadFormat,         \* in place of a line without five fields
  Oversized,         \* in place of a line that does not fit the buffer
  IntMax,            \* INT_MAX
  CountSize,         \* numbers of tokens that a value can hold (256)
  ShortMax,          \* SHRT_MAX
  MaxText            \* bound: bytes of a text looked up

ASSUME DictionaryAssumption ==
  /\ \A line \in Lines : line \in {BadFormat, Oversized} \/ line.word \in Seq(0 .. MaxByte)
  /\ UnkDefault \in Seq(Lines)
  /\ Missing \notin Seq(Lines)
  /\ \A in \in Inputs : in.files \in Seq({Missing} \union Seq(Lines))
  /\ \A b \in DOMAIN Recoded : Recoded[b] \in 0 .. MaxByte
  /\ LeftSize \in Nat /\ RightSize \in Nat
  /\ IntMax \in Nat /\ CountSize \in Nat \ {0} /\ ShortMax \in Nat /\ MaxText \in Nat

VARIABLES
  input,             \* the options and the files
  unread,            \* what is left of the files
  stage,             \* of compile
  dic,               \* words with their tokens
  fbuf,              \* the features, in the order of their offsets
  lexsize

vars == <<daVars, input, unread, stage, dic, fbuf, lexsize>>

-----------------------------------------------------------------------------
(* Reading the files *)

File == Head(unread)
Line == Head(File)
NextLine == <<Tail(File)>> \o Tail(unread)

Reading == stage = "read" /\ unread # <<>>

OpenMissing ==
  /\ Reading /\ File = Missing
  /\ IF input.type = "unk"
     THEN unread' = <<UnkDefault>> \o Tail(unread) /\ UNCHANGED stage
     ELSE stage' = "dead" /\ UNCHANGED unread
  /\ UNCHANGED <<daVars, input, dic, fbuf, lexsize>>

\* getline fails at the end of a file, and at a line that does not fit the buffer
GetlineFails == File = <<>> \/ (File # <<>> /\ Line = Oversized)

EndOfFile ==
  /\ Reading /\ File # Missing /\ GetlineFails
  /\ unread' = Tail(unread)
  /\ UNCHANGED <<daVars, input, stage, dic, fbuf, lexsize>>

AtLine == Reading /\ File # Missing /\ ~ GetlineFails

IdMissing(id) == id < 0 \/ id = IntMax

WantsIds(line) == IdMissing(line.lid) \/ IdMissing(line.rid)

\* the ids of the rewritten feature; none if one of the three lists of rules
\* does not apply or what it makes has no id
FoundIds(line) ==
  { <<LeftIds[l], RightIds[r]>> :
      u \in Rewrite(UnigramRules, line.feature),
      l \in Rewrite(LeftRules, line.feature) \cap DOMAIN LeftIds,
      r \in Rewrite(RightRules, line.feature) \cap DOMAIN RightIds }

\* the files of ids are believed only if they are as large as the matrix
ContextIdsFit ==
  Cardinality(DOMAIN LeftIds) = LeftSize /\ Cardinality(DOMAIN RightIds) = RightSize

\* the ids of an entry, none if the program ends looking for them
IdsOf(line) ==
  IF ~ WantsIds(line) THEN {<<line.lid, line.rid>>}
  ELSE IF ContextIdsFit THEN FoundIds(line) ELSE {}

\* is_valid: a left id is a column of the matrix, a right id a row
IsValid(ids) == ids[1] \in 0 .. RightSize - 1 /\ ids[2] \in 0 .. LeftSize - 1

AsUnsignedShort(n) == n % (2 * (ShortMax + 1))

AsShort(n) == ((n + ShortMax + 1) % (2 * (ShortMax + 1))) - (ShortMax + 1)

CostOf(line) == IF line.cost = IntMax THEN ModelCost(line.word, line.feature) ELSE line.cost

Dies(line) ==
  IF line = BadFormat THEN TRUE
  ELSE \/ line.cost = IntMax /\ input.type # "usr"
       \/ IdsOf(line) = {}
       \/ \E ids \in IdsOf(line) : ~ IsValid(ids)

Convertible(word) == \A i \in DOMAIN word : word[i] \in DOMAIN Recoded

Skipped(line) ==
  \/ line.word = <<>>
  \/ RecodedFeature(line.feature) = None
  \/ input.type # "unk" /\ ~ Convertible(line.word)

WordOf(line) ==
  IF input.type = "unk" THEN line.word ELSE [ i \in DOMAIN line.word |-> Recoded[line.word[i]] ]

FeatureOf(line) ==
  IF input.formatted THEN NodeFormat(RecodedFeature(line.feature)) ELSE RecodedFeature(line.feature)

TokenOf(line) ==
  LET ids == CHOOSE i \in IdsOf(line) : TRUE
  IN [lcAttr |-> ids[1], rcAttr |-> ids[2], posid |-> AsUnsignedShort(PosId(line.feature)),
      wcost |-> AsShort(CostOf(line)), feature |-> Len(fbuf)]

Die ==
  /\ AtLine
  /\ \/ Dies(Line)
     \/ ~ Dies(Line) /\ ~ Skipped(Line) /\ FeatureOf(Line) = None
  /\ stage' = "dead"
  /\ UNCHANGED <<daVars, input, unread, dic, fbuf, lexsize>>

Skip ==
  /\ AtLine
  /\ ~ Dies(Line) /\ Skipped(Line)
  /\ unread' = NextLine
  /\ UNCHANGED <<daVars, input, stage, dic, fbuf, lexsize>>

\* fault: the offset of a token is taken after its feature was appended
AddAfterwards ==
  /\ AtLine
  /\ ~ Dies(Line) /\ ~ Skipped(Line) /\ FeatureOf(Line) # None
  /\ fbuf' = IF input.wakati THEN fbuf ELSE Append(fbuf, FeatureOf(Line))
  /\ dic' = Append(dic, [word |-> WordOf(Line), token |-> [TokenOf(Line) EXCEPT !.feature = @ + 1]])
  /\ lexsize' = lexsize + 1
  /\ unread' = NextLine
  /\ UNCHANGED <<daVars, input, stage>>

Add ==
  /\ AtLine
  /\ ~ Dies(Line) /\ ~ Skipped(Line) /\ FeatureOf(Line) # None
  /\ dic' = Append(dic, [word |-> WordOf(Line), token |-> TokenOf(Line)])
  /\ fbuf' = IF input.wakati THEN fbuf ELSE Append(fbuf, FeatureOf(Line))
  /\ lexsize' = lexsize + 1
  /\ unread' = NextLine
  /\ UNCHANGED <<daVars, input, stage>>

-----------------------------------------------------------------------------
(* Sorting and packing *)

Before(u, v) ==
  \E n \in 0 .. Len(u) :
    /\ n <= Len(v) /\ \A k \in 1 .. n : u[k] = v[k]
    /\ \/ n = Len(u) /\ n < Len(v)
       \/ n < Len(u) /\ n < Len(v) /\ u[n + 1] < v[n + 1]

\* entries that come before the i-th when the sort is stable
Preceding(i) ==
  { j \in DOMAIN dic :
      Before(dic[j].word, dic[i].word) \/ (dic[j].word = dic[i].word /\ j < i) }

Sorted ==
  [ n \in DOMAIN dic |-> dic[CHOOSE i \in DOMAIN dic : Cardinality(Preceding(i)) = n - 1] ]

Sort ==
  /\ stage = "read" /\ unread = <<>>
  /\ dic' = Sorted
  /\ fbuf' = IF input.wakati THEN Append(fbuf, <<>>) ELSE fbuf
  /\ stage' = IF dic = <<>> THEN "undefined" ELSE "pack"
  /\ UNCHANGED <<daVars, input, unread, lexsize>>

\* the first entry of every word
Heads == { i \in DOMAIN dic : i = 1 \/ dic[i - 1].word # dic[i].word }

Homographs(i) == { j \in DOMAIN dic : dic[j].word = dic[i].word }

\* conversion of a size_t to result_type
AsInt(n) == ((n + IntMax + 1) % (2 * (IntMax + 1))) - (IntMax + 1)

Packed(i) == AsInt(Cardinality(Homographs(i)) + (i - 1) * CountSize)

NthHead(n) == CHOOSE i \in Heads : Cardinality({ j \in Heads : j < i }) = n - 1

Pack ==
  /\ stage = "pack"
  /\ LET n == Cardinality(Heads)
     IN Build([ k \in 1 .. n |-> dic[NthHead(k)].word ], [ k \in 1 .. n |-> Packed(NthHead(k)) ])
  /\ stage' = "build"
  /\ UNCHANGED <<input, unread, dic, fbuf, lexsize>>

BuildDoubleArray ==
  /\ stage = "build"
  /\ BuildStep
  /\ UNCHANGED <<input, unread, stage, dic, fbuf, lexsize>>

Built ==
  /\ stage = "build" /\ building \in {"built", "error -2", "error -3"}
  /\ stage' = IF building = "built" THEN "image" ELSE "dead"
  /\ UNCHANGED <<daVars, input, unread, dic, fbuf, lexsize>>

-----------------------------------------------------------------------------

Init ==
  /\ input \in Inputs
  /\ unread = input.files
  /\ stage = "read"
  /\ dic = <<>> /\ fbuf = <<>> /\ lexsize = 0
  /\ EmptyArray

Next ==
  \/ OpenMissing \/ EndOfFile
  \/ Die \/ Skip \/ Add
  \/ Sort \/ Pack \/ BuildDoubleArray \/ Built

Spec == Init /\ [][Next]_vars

-----------------------------------------------------------------------------
(* Lookups in the image *)

\* fault: the number is read with one bit less
TokenSizeOneBitLess(value) == value % (CountSize \div 2)

TokenSize(value) == value % CountSize
TokenIndex(value) == value \div CountSize

Entry(token) ==
  [lcAttr |-> token.lcAttr, rcAttr |-> token.rcAttr, posid |-> token.posid,
   wcost |-> token.wcost, feature |-> fbuf[token.feature + 1]]

\* what the tokenizer makes of one result of the search
Tokens(value) ==
  [ j \in 1 .. TokenSize(value) |-> Entry(dic[TokenIndex(value) + j].token) ]

-----------------------------------------------------------------------------
(* What the image should answer, from the files alone *)

LinesIn(file) == IF file = Missing THEN UnkDefault ELSE file

\* places of the lines that are read: those before one that does not fit
Places ==
  { p \in UNION { {f} \X DOMAIN LinesIn(input.files[f]) : f \in DOMAIN input.files } :
      \A l \in 1 .. p[2] : LinesIn(input.files[p[1]])[l] # Oversized }

LineAt(p) == LinesIn(input.files[p[1]])[p[2]]

Earlier(p, q) == p[1] < q[1] \/ (p[1] = q[1] /\ p[2] < q[2])

PlacesOf(word) == { p \in Places : ~ Skipped(LineAt(p)) /\ WordOf(LineAt(p)) = word }

CostFits(line) == CostOf(line) \in - ShortMax - 1 .. ShortMax

EntryOfLine(entry, line) ==
  /\ IF WantsIds(line)
     THEN ContextIdsFit /\ <<entry.lcAttr, entry.rcAttr>> \in FoundIds(line)
     ELSE entry.lcAttr = line.lid /\ entry.rcAttr = line.rid
  /\ entry.lcAttr < RightSize /\ entry.rcAttr < LeftSize
  /\ entry.posid = AsUnsignedShort(PosId(line.feature))
  /\ CostFits(line) => entry.wcost = CostOf(line)
  /\ entry.feature = IF input.wakati THEN <<>> ELSE FeatureOf(line)

\* one entry for every line, in the order of the lines
Agree(entries, places) ==
  /\ Len(entries) = Cardinality(places)
  /\ \A p \in places :
       EntryOfLine(entries[1 + Cardinality({ q \in places : Earlier(q, p) })], LineAt(p))

Texts == UNION { [1 .. n -> 1 .. MaxByte] : n \in 0 .. MaxText }

Prefix(text, n) == SubSeq(text, 1, n)

\* A search of a text finds exactly those of its prefixes that are words of the
\* files, and for each of them its entries in the order of the files, with the
\* ids, cost and feature of their lines (compile, dictionary.cpp:296-484).  A
\* word with more entries than the number in its value can hold loses them, and
\* never those of other words.  With more entries than an unsigned int can index
\* the values would name others.
AnswersAreMap ==
  stage = "image" /\ lexsize * CountSize < 2 * (IntMax + 1) =>
    \A text \in Texts :
      LET found == CommonPrefixSearch(text, Len(text))
      IN /\ DOMAIN found = { n \in 1 .. Len(text) : PlacesOf(Prefix(text, n)) # {} }
         /\ \A n \in DOMAIN found :
              LET places == PlacesOf(Prefix(text, n))
              IN Cardinality(places) < CountSize => Agree(Tokens(found[n]), places)
         /\ ExactMatchSearch(text) =
              IF Len(text) \in DOMAIN found THEN found[Len(text)] ELSE -1

\* No search reads outside of the array in the image, whatever the text: build
\* adds room for every byte behind the last cell (darts.h:292).
SearchWithinImage ==
  stage = "image" => \A text \in Texts : CellsRead(text) \subseteq 0 .. size - 1

TypeOK ==
  /\ input \in Inputs
  /\ stage \in {"read", "pack", "build", "image", "dead", "undefined"}
  /\ lexsize = Len(dic) /\ Len(fbuf) \in {0, 1, lexsize}
  /\ \A i \in DOMAIN dic : dic[i].token.feature \in 0 .. lexsize - 1
  /\ DOMAIN base = DOMAIN check \union {0}
  /\ size \in Nat /\ progress \in 0 .. Len(keys)
=============================================================================
