---------------------------- MODULE DoubleArray ----------------------------
(***************************************************************************)
(* The double array of darts.h: build, which lays a sorted list of keys    *)
(* out as a trie, and the two searches.                                    *)
(*                                                                         *)
(* A node of the trie is the set of keys left .. right - 1 that agree in   *)
(* their first depth bytes; its children, the siblings, are told apart by  *)
(* a code, 0 for the key that ends here and byte + 1 for the others.       *)
(* insert looks for a begin such that the cells begin + code of all its    *)
(* siblings are free, and claims them.                                     *)
(*                                                                         *)
(* The array is kept sparse: DOMAIN check is the set of the cells claimed, *)
(* all others are zero in both fields.  The recursion of insert is the     *)
(* sequence stack, one iteration of its search for a begin is a step.      *)
(***************************************************************************)
EXTENDS Integers, Sequences

CONSTANTS
  MaxByte,     \* of a key's bytes (255)
  AllocMin,    \* cells the array has at first (8192)
  GrowNum,     \* the array grows by at least GrowNum / GrowDen (1.05)
  GrowDen

ASSUME DoubleArrayAssumption ==
  /\ MaxByte \in Nat
  /\ AllocMin \in Nat \ {0} /\ GrowNum \in Nat /\ GrowDen \in Nat \ {0}
  /\ AllocMin * (GrowNum - GrowDen) >= (MaxByte + 1) * GrowDen

VARIABLES
  keys,             \* key_, length_: the keys, sorted
  values,           \* value_
  base, check,      \* array_
  used,             \* used_: begins that were taken
  alloc,            \* alloc_size_
  size,             \* size_
  next_check_pos,
  progress,         \* leaves written
  stack,            \* calls of insert: siblings, begin, and the siblings still to do
  probe,            \* of the search under way: pos, nonzero_num and first
  building          \* where build is

daVars == <<keys, values, base, check, used, alloc, size, next_check_pos,
            progress, stack, probe, building>>

Larger(m, n) == IF m >= n THEN m ELSE n

-----------------------------------------------------------------------------
(* fetch: the siblings below a node *)

Live(p) == { i \in p.left .. p.right - 1 : Len(keys[i]) >= p.depth }

Code(i, p) == IF Len(keys[i]) = p.depth THEN 0 ELSE keys[i][p.depth + 1] + 1

Unsorted(p) == \E i, j \in Live(p) : i < j /\ Code(i, p) > Code(j, p)

Leftmost(i, p) == \A j \in Live(p) : Code(j, p) = Code(i, p) => i <= j

Right(i, p) ==
  CHOOSE r \in i + 1 .. p.right :
    /\ \A j \in Live(p) : j >= i /\ j < r => Code(j, p) = Code(i, p)
    /\ r = p.right \/ (r \in Live(p) /\ Code(r, p) # Code(i, p))

Siblings(p) ==
  { [code |-> Code(i, p), left |-> i, right |-> Right(i, p), depth |-> p.depth + 1] :
      i \in { k \in Live(p) : Leftmost(k, p) } }

Root == [code |-> 0, left |-> 1, right |-> Len(keys) + 1, depth |-> 0]

First(S) == CHOOSE n \in S : \A m \in S : n.code <= m.code
Last(S) == CHOOSE n \in S : \A m \in S : m.code <= n.code

-----------------------------------------------------------------------------
(* insert *)

Top == stack[Len(stack)]

StartOf(S) == Larger(First(S).code + 1, next_check_pos) - 1

Call(S) ==
  /\ stack' = Append(stack, [siblings |-> S, begin |-> 0, todo |-> S])
  /\ probe' = [pos |-> StartOf(S), nonzero |-> 0, first |-> FALSE]
  /\ alloc' = Larger(alloc, StartOf(S) + 1)
  /\ building' = "search"

\* an error ends the build, what the calls still write is of no use
Failed(code) == building' = code

\* fetch and insert below a node
Enter(p) ==
  IF Unsorted(p)
  THEN Failed("error -3") /\ UNCHANGED <<alloc, stack, probe>>
  ELSE Call(Siblings(p))

\* the cell that this iteration looks at
Pos == probe.pos + 1
Begin == Pos - First(Top.siblings).code
AllocForPos == Larger(alloc, Pos + 1)

CellsFrom(b, S) == { b + n.code : n \in S }

\* fault: a begin may be taken twice
FitsAgain(b, S) == CellsFrom(b, S) \cap DOMAIN check = {}

Fits(b, S) == b \notin used /\ CellsFrom(b, S) \cap DOMAIN check = {}

NextCheckPos == IF probe.first THEN next_check_pos ELSE Pos

TooShort == AllocForPos <= Begin + Last(Top.siblings).code

\* alloc_size_ * _max(1.05, 1.0 * key_size_ / progress_)
Grown == Larger((AllocForPos * GrowNum) \div GrowDen,
                (AllocForPos * Len(keys)) \div progress)

\* the begin of a search that has come to a place where all siblings fit
Claim(a) ==
  LET S == Top.siblings
      cells == CellsFrom(Begin, S)
      dense == 20 * probe.nonzero >= 19 * (Pos - NextCheckPos + 1)
  IN /\ used' = used \union {Begin}
     /\ size' = Larger(size, Begin + Last(S).code + 1)
     /\ check' = [c \in DOMAIN check \union cells |-> IF c \in cells THEN Begin ELSE check[c]]
     /\ base' = [c \in DOMAIN base \union cells |-> IF c \in cells THEN 0 ELSE base[c]]
     /\ next_check_pos' = IF dense THEN Pos ELSE NextCheckPos
     /\ stack' = [stack EXCEPT ![Len(stack)].begin = Begin]
     /\ alloc' = a
     /\ building' = "children"
     /\ UNCHANGED <<keys, values, progress, probe>>

ProbeOccupied ==
  /\ building = "search"
  /\ Pos \in DOMAIN check
  /\ probe' = [probe EXCEPT !.pos = Pos, !.nonzero = @ + 1]
  /\ alloc' = AllocForPos
  /\ UNCHANGED <<keys, values, base, check, used, size, next_check_pos, progress,
                 stack, building>>

AllocAfterProbe == IF TooShort THEN Grown ELSE AllocForPos

ProbeFree ==
  /\ building = "search"
  /\ Pos \notin DOMAIN check
  /\ TooShort => progress > 0
  /\ IF Fits(Begin, Top.siblings)
     THEN Claim(AllocAfterProbe)
     ELSE /\ probe' = [probe EXCEPT !.pos = Pos, !.first = TRUE]
          /\ next_check_pos' = NextCheckPos
          /\ alloc' = AllocAfterProbe
          /\ UNCHANGED <<keys, values, base, check, used, size, progress, stack, building>>

\* before the first leaf the factor is infinite, and so not a size
GrowWithoutProgress ==
  /\ building = "search"
  /\ Pos \notin DOMAIN check
  /\ TooShort /\ progress = 0
  /\ building' = "undefined"
  /\ UNCHANGED <<keys, values, base, check, used, alloc, size, next_check_pos,
                 progress, stack, probe>>

Child == First(Top.todo)
ChildCell == Top.begin + Child.code

\* the loop over the siblings has written the base of one and goes on
ChildDone(b) ==
  /\ base' = [base EXCEPT ![ChildCell] = b]
  /\ stack' = [stack EXCEPT ![Len(stack)].todo = @ \ {Child}]

AtChild == building = "children" /\ Top.todo # {}

Leaf ==
  /\ AtChild
  /\ Siblings(Child) = {}
  /\ ChildDone(- values[Child.left] - 1)
  /\ IF values[Child.left] < 0
     THEN Failed("error -2") /\ UNCHANGED progress
     ELSE progress' = progress + 1 /\ UNCHANGED building
  /\ UNCHANGED <<keys, values, check, used, alloc, size, next_check_pos, probe>>

Descend ==
  /\ AtChild
  /\ Siblings(Child) # {}
  /\ Enter(Child)
  /\ UNCHANGED <<keys, values, base, check, used, size, next_check_pos, progress>>

Caller == stack[Len(stack) - 1]

Return ==
  /\ building = "children" /\ Top.todo = {} /\ Len(stack) > 1
  /\ LET child == First(Caller.todo)
     IN /\ base' = [base EXCEPT ![Caller.begin + child.code] = Top.begin]
        /\ stack' = [SubSeq(stack, 1, Len(stack) - 1)
                       EXCEPT ![Len(stack) - 1].todo = @ \ {child}]
  /\ UNCHANGED <<keys, values, check, used, alloc, size, next_check_pos, progress,
                 probe, building>>

-----------------------------------------------------------------------------
(* build *)

EmptyArray ==
  /\ keys = <<>> /\ values = <<>>
  /\ base = [c \in {0} |-> 0] /\ check = [c \in {} |-> 0] /\ used = {}
  /\ alloc = 0 /\ size = 0 /\ next_check_pos = 0 /\ progress = 0
  /\ stack = <<>> /\ probe = [pos |-> 0, nonzero |-> 0, first |-> FALSE]
  /\ building = "idle"

\* called with the keys and their values
Build(ks, vs) ==
  /\ building = "idle"
  /\ keys' = ks /\ values' = vs
  /\ base' = [c \in {0} |-> 1]
  /\ building' = "root"
  /\ alloc' = AllocMin /\ next_check_pos' = 0 /\ progress' = 0
  /\ UNCHANGED <<check, used, size, stack, probe>>

\* the base of the root was set to 1 in advance, what this insert returns is dropped
InsertRoot ==
  /\ building = "root"
  /\ Enter(Root)
  /\ UNCHANGED <<keys, values, base, check, used, size, next_check_pos, progress>>

\* fault: no room behind the last cell
FinishTight ==
  /\ building = "children" /\ Top.todo = {} /\ Len(stack) = 1
  /\ UNCHANGED <<size, alloc>>
  /\ stack' = <<>>
  /\ used' = {}
  /\ building' = "built"
  /\ UNCHANGED <<keys, values, base, check, next_check_pos, progress, probe>>

Finish ==
  /\ building = "children" /\ Top.todo = {} /\ Len(stack) = 1
  /\ size' = size + MaxByte + 2
  /\ alloc' = Larger(alloc, size + MaxByte + 2)
  /\ stack' = <<>>
  /\ used' = {}
  /\ building' = "built"
  /\ UNCHANGED <<keys, values, base, check, next_check_pos, progress, probe>>

BuildStep ==
  \/ InsertRoot
  \/ ProbeOccupied \/ ProbeFree \/ GrowWithoutProgress
  \/ Leaf \/ Descend \/ Return \/ Finish

-----------------------------------------------------------------------------
(* The searches.  No sibling set begins at 0, which stands for a failed walk. *)

Base(c) == IF c \in DOMAIN base THEN base[c] ELSE 0
Check(c) == IF c \in DOMAIN check THEN check[c] ELSE 0

\* the cell that the walk from b reads for a byte
CellOf(b, byte) == b + byte + 1

Step(b, byte) ==
  IF b # 0 /\ Check(CellOf(b, byte)) = b THEN Base(CellOf(b, byte)) ELSE 0

\* walk[i]: the base that the first i bytes of text lead to
Walk(text, len) ==
  LET walk[i \in 0 .. len] == IF i = 0 THEN Base(0) ELSE Step(walk[i - 1], text[i])
  IN walk

IsEnd(b) == b # 0 /\ Check(b) = b /\ Base(b) < 0

\* -1 if there is none
ExactMatchSearch(text) ==
  LET b == Walk(text, Len(text))[Len(text)] IN IF IsEnd(b) THEN - Base(b) - 1 ELSE -1

\* the values of the prefixes of text that are keys, by their lengths
CommonPrefixSearch(text, len) ==
  LET walk == Walk(text, len)
  IN [ i \in { k \in 0 .. len : IsEnd(walk[k]) } |-> - Base(walk[i]) - 1 ]

\* every cell that the two searches of text read
CellsRead(text) ==
  LET walk == Walk(text, Len(text))
  IN {0} \union { walk[i] : i \in 0 .. Len(text) }
         \union { CellOf(walk[i - 1], text[i]) :
                    i \in { k \in 1 .. Len(text) : walk[k - 1] # 0 } }

-----------------------------------------------------------------------------

\* Two prefixes never share their children: the begins written into the bases
\* are all different (used_, darts.h:159), also different from the root's.  A build
\* that ends with a negative value has written that, too.
ChildrenUnshared ==
  building # "error -2" =>
    \A c, d \in DOMAIN base : base[c] > 0 /\ base[c] = base[d] => c = d

\* Nothing is written behind the cells that were allocated (darts.h:150), although
\* the array grows by a factor and not to the cell asked for.
WritesAllocated ==
  building # "undefined" => \A c \in DOMAIN check : c < alloc
=============================================================================
