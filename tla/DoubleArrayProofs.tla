------------------------- MODULE DoubleArrayProofs -------------------------
(***************************************************************************)
(* The building of a double array from any keys, and the searches in it:   *)
(* no cell is written that was not allocated, no two prefixes share their  *)
(* children, no search reads outside of the array, and the searches find   *)
(* exactly the keys.                                                       *)
(***************************************************************************)
EXTENDS DoubleArray, WellFoundedInduction, TLAPS

\* build called once with any keys, at least one, as compile calls it
BuildAny ==
  \E ks \in Seq(Seq(0 .. MaxByte)), vs \in Seq(Int) :
    ks # <<>> /\ Len(vs) = Len(ks) /\ Build(ks, vs)

ArrayNext == BuildAny \/ BuildStep

ArraySpec == EmptyArray /\ [][ArrayNext]_daVars

-----------------------------------------------------------------------------
(* Numbers *)

LEMMA LeastExists ==
  ASSUME NEW T \in SUBSET Nat, T # {}
  PROVE  \E m \in T : \A k \in T : m <= k
<1>1. PICK m \in T : \A k \in T : <<k, m>> \notin OpToRel(<, Nat)
  BY NatLessThanWellFounded, WFMin, Zenon
<1>2. \A k \in T : ~ (k < m)
  BY <1>1, Zenon DEF OpToRel
<1> QED BY <1>2, SMT

\* what holds for 0 and, of every number, for the next, holds for all
LEMMA NatSetInduction ==
  ASSUME NEW S, 0 \in S, \A n \in Nat : n \in S => n + 1 \in S
  PROVE  Nat \subseteq S
<1> SUFFICES ASSUME Nat \ S # {} PROVE FALSE
  OBVIOUS
<1>1. PICK m \in Nat \ S : \A k \in Nat \ S : m <= k
  BY LeastExists
<1>2. m # 0 /\ m - 1 \in Nat /\ m - 1 \notin Nat \ S
  BY <1>1, SMT
<1>3. m \in S
  BY <1>2, SMT
<1> QED BY <1>1, <1>3

LEMMA GreatestExists ==
  ASSUME NEW n \in Nat, NEW T \in SUBSET (0 .. n), T # {}
  PROVE  \E m \in T : \A k \in T : k <= m
<1> DEFINE U == { n - t : t \in T }
<1>1. U \in SUBSET Nat /\ U # {}
  <2>1. \A t \in T : n - t \in Nat
    BY SMT
  <2> QED BY <2>1
<1>2. PICK u \in U : \A k \in U : u <= k
  BY <1>1, LeastExists, Zenon
<1>3. PICK m \in T : u = n - m
  BY <1>2
<1>4. \A k \in T : n - m <= n - k
  BY <1>2, <1>3
<1> QED BY <1>4, SMT

LEMMA ProductMonotone ==
  ASSUME NEW i \in Nat, NEW j \in Nat, NEW k \in Nat, i <= j
  PROVE  i * k <= j * k
BY SMT

LEMMA QuotientBound ==
  ASSUME NEW p \in Nat, NEW q \in Nat, NEW d \in Nat \ {0}, q * d <= p
  PROVE  q <= p \div d
BY SMT

LEMMA QuotientNatural ==
  ASSUME NEW p \in Nat, NEW d \in Nat \ {0}
  PROVE  p \div d \in Nat
BY SMT

\* growing by the factor makes room for the siblings of a cell at the very end
LEMMA GrowthSuffices ==
  ASSUME NEW a \in Nat, a >= AllocMin
  PROVE  /\ (a * GrowNum) \div GrowDen \in Nat
         /\ (a * GrowNum) \div GrowDen >= a + MaxByte + 1
<1> USE DoubleArrayAssumption
<1>1. GrowNum > GrowDen
  <2>1. (MaxByte + 1) * GrowDen > 0
    BY SMT
  <2>2. AllocMin * (GrowNum - GrowDen) > 0
    BY <2>1, SMT
  <2> QED BY <2>2, SMT
<1> DEFINE g == GrowNum - GrowDen
<1>2. g \in Nat /\ GrowNum = GrowDen + g
  BY <1>1, SMT
<1>3. (MaxByte + 1) * GrowDen <= a * g
  <2>1. AllocMin * g <= a * g
    BY <1>2, ProductMonotone
  <2>2. (MaxByte + 1) * GrowDen <= AllocMin * g
    OBVIOUS
  <2>3. AllocMin * g \in Nat /\ a * g \in Nat /\ (MaxByte + 1) * GrowDen \in Nat
    BY <1>2, SMT
  <2> QED BY <2>1, <2>2, <2>3, SMT
<1>4. a * GrowNum = a * GrowDen + a * g
  BY <1>2, SMT
<1>5. (a + MaxByte + 1) * GrowDen = a * GrowDen + (MaxByte + 1) * GrowDen
  BY SMT
<1>6. (a + MaxByte + 1) * GrowDen <= a * GrowNum
  <2>1. a * GrowDen \in Nat /\ a * g \in Nat /\ (MaxByte + 1) * GrowDen \in Nat
    BY <1>2, SMT
  <2> QED BY <1>3, <1>4, <1>5, <2>1, SMT
<1>7. a * GrowNum \in Nat /\ a + MaxByte + 1 \in Nat
  BY SMT
<1> QED BY <1>6, <1>7, QuotientBound, QuotientNatural, SMT

-----------------------------------------------------------------------------
(* Siblings *)

Codes == 0 .. MaxByte + 1
Nodes == [code : Codes, left : 1 .. Len(keys), right : 1 .. Len(keys) + 1, depth : Nat]
Frames == [siblings : (SUBSET Nodes) \ {{}}, begin : Int, todo : SUBSET Nodes]

KeysInv ==
  /\ keys \in Seq(Seq(0 .. MaxByte)) /\ keys # <<>>
  /\ values \in Seq(Int) /\ Len(values) = Len(keys)

LEMMA FirstLast ==
  ASSUME NEW S \in SUBSET Nodes, S # {}
  PROVE  /\ First(S) \in S /\ \A m \in S : First(S).code <= m.code
         /\ Last(S) \in S /\ \A m \in S : m.code <= Last(S).code
<1> DEFINE cs == { n.code : n \in S }
<1>1. cs \in SUBSET (0 .. MaxByte + 1) /\ cs # {}
  BY DEF Nodes, Codes
<1>2. MaxByte + 1 \in Nat /\ cs \in SUBSET Nat
  BY <1>1, DoubleArrayAssumption, SMT
<1>3. \E n \in S : \A m \in S : n.code <= m.code
  <2>1. PICK c \in cs : \A d \in cs : c <= d
    BY <1>1, <1>2, LeastExists
  <2> QED BY <2>1
<1>4. \E n \in S : \A m \in S : m.code <= n.code
  <2>1. PICK c \in cs : \A d \in cs : d <= c
    BY <1>1, <1>2, GreatestExists
  <2> QED BY <2>1
<1> QED BY <1>3, <1>4 DEF First, Last

LEMMA ElementType ==
  ASSUME NEW S, NEW s \in Seq(S), NEW i \in 1 .. Len(s)
  PROVE  s[i] \in S
OBVIOUS

LEMMA CodeType ==
  ASSUME KeysInv, NEW p, p.left \in 1 .. Len(keys), p.right \in 1 .. Len(keys) + 1, p.depth \in Nat,
         NEW i \in Live(p)
  PROVE  i \in 1 .. Len(keys) /\ Code(i, p) \in Codes
<1>1. i \in 1 .. Len(keys) /\ Len(keys[i]) >= p.depth /\ keys[i] \in Seq(0 .. MaxByte)
  BY SMTT(30) DEF KeysInv, Live
<1>2. CASE Len(keys[i]) = p.depth
  BY <1>1, <1>2, DoubleArrayAssumption, SMT DEF Code, Codes
<1>3. CASE Len(keys[i]) # p.depth
  <2>1. p.depth + 1 \in 1 .. Len(keys[i])
    BY <1>1, <1>3, SMT
  <2>2. keys[i][p.depth + 1] \in 0 .. MaxByte
    BY <1>1, <2>1, ElementType, Zenon
  <2>3. \A k \in 0 .. MaxByte : k + 1 \in 0 .. MaxByte + 1
    BY DoubleArrayAssumption, SMT
  <2> QED BY <1>1, <1>3, <2>2, <2>3, Zenon DEF Code, Codes
<1> QED BY <1>1, <1>2, <1>3

\* what Right chooses
LEMMA RightSpec ==
  ASSUME KeysInv, NEW p, p.left \in 1 .. Len(keys), p.right \in 1 .. Len(keys) + 1,
         NEW i \in Live(p)
  PROVE  /\ Right(i, p) \in i + 1 .. p.right
         /\ \A j \in Live(p) : j >= i /\ j < Right(i, p) => Code(j, p) = Code(i, p)
         /\ Right(i, p) = p.right \/ (Right(i, p) \in Live(p) /\ Code(Right(i, p), p) # Code(i, p))
<1> DEFINE ends == { r \in i + 1 .. p.right : r = p.right \/ (r \in Live(p) /\ Code(r, p) # Code(i, p)) }
<1>1. i \in p.left .. p.right - 1 /\ i \in Nat /\ p.right \in Nat
  BY SMT DEF Live, KeysInv
<1>2. ends \in SUBSET Nat /\ p.right \in ends
  BY <1>1, SMT
<1>3. PICK r \in ends : \A k \in ends : r <= k
  BY <1>2, LeastExists
<1>4. ASSUME NEW j \in Live(p), j >= i, j < r PROVE Code(j, p) = Code(i, p)
  <2>1. CASE j = i
    BY <2>1
  <2>2. CASE j # i
    <3>1. j \in i + 1 .. p.right /\ j \notin ends
      BY <1>1, <1>2, <1>3, <1>4, <2>2, SMT DEF Live
    <3> QED BY <3>1
  <2> QED BY <2>1, <2>2
<1>5. r \in i + 1 .. p.right
  OBVIOUS
<1> QED BY <1>4, <1>5 DEF Right

\* the keys of a node end where the next one's begin, or its parent's end
LEMMA RightType ==
  ASSUME KeysInv, NEW p, p.left \in 1 .. Len(keys), p.right \in 1 .. Len(keys) + 1,
         NEW i \in Live(p)
  PROVE  Right(i, p) \in i + 1 .. p.right
BY RightSpec

LEMMA SiblingsType ==
  ASSUME KeysInv, NEW p, p.left \in 1 .. Len(keys), p.right \in 1 .. Len(keys) + 1, p.depth \in Nat
  PROVE  Siblings(p) \in SUBSET Nodes
<1> SUFFICES ASSUME NEW i \in Live(p)
             PROVE  [code |-> Code(i, p), left |-> i, right |-> Right(i, p), depth |-> p.depth + 1] \in Nodes
  BY DEF Siblings
<1>1. i \in 1 .. Len(keys) /\ Code(i, p) \in Codes
  BY CodeType
<1>2. Right(i, p) \in 1 .. Len(keys) + 1
  BY <1>1, RightType, SMTT(30) DEF KeysInv
<1> QED BY <1>1, <1>2, SMT DEF Nodes

LEMMA RootSiblings ==
  ASSUME KeysInv
  PROVE  Siblings(Root) \in (SUBSET Nodes) \ {{}}
<1>1. /\ Root.left = 1 /\ Root.right = Len(keys) + 1 /\ Root.depth = 0
      /\ Len(keys) \in Nat \ {0} /\ Len(keys[1]) \in Nat
  BY SMT DEF Root, KeysInv
<1>2. 1 \in Live(Root)
  BY <1>1, SMT DEF Live
<1>3. \A j \in Live(Root) : 1 <= j
  BY <1>1, SMT DEF Live
<1>4. Siblings(Root) # {}
  BY <1>2, <1>3 DEF Siblings, Leftmost
<1>5. Siblings(Root) \in SUBSET Nodes
  BY <1>1, SiblingsType, SMT
<1> QED BY <1>4, <1>5

LEMMA ChildSiblings ==
  ASSUME KeysInv, NEW n \in Nodes
  PROVE  Siblings(n) \in SUBSET Nodes
BY SiblingsType, SMT DEF Nodes

-----------------------------------------------------------------------------
(* The search for a begin *)

Probes == [pos : Nat, nonzero : Nat, first : BOOLEAN]

Sized ==
  /\ size \in Nat
  /\ building # "idle" =>
       /\ KeysInv
       /\ alloc \in Nat /\ alloc >= AllocMin
       /\ next_check_pos \in Nat /\ progress \in Nat

Framed ==
  /\ stack \in Seq(Frames)
  /\ building \in {"search", "children"} => stack # <<>>
  /\ building = "search" => probe \in Probes /\ First(Top.siblings).code <= probe.pos

\* nothing is taken before the root's children are
Untouched ==
  /\ building \in {"idle", "root"} => stack = <<>> /\ used = {} /\ DOMAIN check = {}
  /\ building = "root" => next_check_pos = 0

Written == DOMAIN check \subseteq Int /\ \A c \in DOMAIN check : c < alloc

LEMMA TopType ==
  ASSUME stack \in Seq(Frames), stack # <<>>
  PROVE  /\ Top \in Frames /\ Len(stack) \in Nat \ {0}
         /\ Top.siblings \in SUBSET Nodes /\ Top.siblings # {}
         /\ Top.begin \in Int /\ Top.todo \in SUBSET Nodes
         /\ First(Top.siblings) \in Nodes /\ Last(Top.siblings) \in Nodes
         /\ \A n \in Top.siblings : n.code <= Last(Top.siblings).code
<1>1. Len(stack) \in Nat \ {0}
  BY SMT
<1>2. Top \in Frames
  <2>1. Len(stack) \in 1 .. Len(stack)
    BY <1>1, SMT
  <2> QED BY <2>1, ElementType, Zenon DEF Top
<1>3. /\ Top.siblings \in SUBSET Nodes /\ Top.siblings # {}
      /\ Top.begin \in Int /\ Top.todo \in SUBSET Nodes
  BY <1>2 DEF Frames
<1> QED BY <1>1, <1>2, <1>3, FirstLast, Zenon

LEMMA CodeRange ==
  ASSUME NEW n \in Nodes
  PROVE  n.code \in Nat /\ n.code <= MaxByte + 1
BY DoubleArrayAssumption, SMT DEF Nodes, Codes

LEMMA LargerType ==
  ASSUME NEW m \in Nat, NEW n \in Nat
  PROVE  Larger(m, n) \in Nat /\ Larger(m, n) >= m /\ Larger(m, n) >= n
BY SMT DEF Larger

LEMMA PlaceType ==
  ASSUME Sized, Framed, building = "search"
  PROVE  /\ Pos \in Nat /\ Pos = probe.pos + 1
         /\ Begin \in Nat \ {0} /\ Begin <= Pos
         /\ AllocForPos \in Nat /\ AllocForPos > Pos /\ AllocForPos >= alloc
<1>1. probe \in Probes /\ First(Top.siblings).code <= probe.pos /\ stack \in Seq(Frames) /\ stack # <<>>
  BY DEF Framed
<1>2. First(Top.siblings) \in Nodes
  BY <1>1, TopType
<1>3. First(Top.siblings).code \in Nat
  BY <1>2, CodeRange
<1>4. Pos \in Nat /\ Pos = probe.pos + 1 /\ Begin \in Nat \ {0} /\ Begin <= Pos
  <2>1. probe.pos \in Nat
    BY <1>1 DEF Probes
  <2> QED BY <1>1, <1>3, <2>1, SMT DEF Pos, Begin
<1>5. alloc \in Nat
  BY DEF Sized
<1>6. AllocForPos \in Nat /\ AllocForPos >= alloc /\ AllocForPos >= Pos + 1
  <2>1. Pos + 1 \in Nat
    BY <1>4, SMT
  <2> QED BY <1>5, <2>1, LargerType, Zenon DEF AllocForPos
<1> QED BY <1>4, <1>6, SMT

\* the cells of the siblings, also behind a growth by the factor only, are inside
LEMMA Room ==
  ASSUME Sized, Framed, building = "search", TooShort => progress > 0
  PROVE  /\ AllocAfterProbe \in Nat /\ AllocAfterProbe >= AllocForPos
         /\ \A n \in Top.siblings : Begin + n.code \in Int /\ Begin + n.code < AllocAfterProbe
<1>1. /\ Pos \in Nat /\ Begin \in Nat \ {0} /\ Begin <= Pos
      /\ AllocForPos \in Nat /\ AllocForPos > Pos /\ AllocForPos >= alloc
  BY PlaceType
<1>2. /\ Top.siblings \in SUBSET Nodes
      /\ Last(Top.siblings) \in Nodes
      /\ \A n \in Top.siblings : n.code <= Last(Top.siblings).code
  BY TopType DEF Framed
<1>3. Last(Top.siblings).code \in Nat /\ \A n \in Top.siblings : n.code \in Nat /\ n.code <= MaxByte + 1
  BY <1>2, CodeRange
<1>4. alloc \in Nat /\ alloc >= AllocMin /\ progress \in Nat /\ Len(keys) \in Nat
  BY SMT DEF Sized, KeysInv
<1>5. CASE TooShort
  <2>1. AllocForPos >= AllocMin
    BY <1>1, <1>4, DoubleArrayAssumption, SMT
  <2>2. /\ (AllocForPos * GrowNum) \div GrowDen \in Nat
        /\ (AllocForPos * GrowNum) \div GrowDen >= AllocForPos + MaxByte + 1
    BY <1>1, <2>1, GrowthSuffices
  <2>3. (AllocForPos * Len(keys)) \div progress \in Nat
    <3>1. AllocForPos * Len(keys) \in Nat /\ progress \in Nat \ {0}
      BY <1>1, <1>4, <1>5, SMT
    <3> QED BY <3>1, QuotientNatural
  <2>4. Grown \in Nat /\ Grown >= (AllocForPos * GrowNum) \div GrowDen
    BY <2>2, <2>3, LargerType DEF Grown
  <2>5. Grown >= AllocForPos + MaxByte + 1
    BY <1>1, <2>2, <2>4, DoubleArrayAssumption, SMT
  <2>6. AllocAfterProbe = Grown
    BY <1>5 DEF AllocAfterProbe
  <2> QED BY <1>1, <1>3, <2>4, <2>5, <2>6, DoubleArrayAssumption, SMT
<1>6. CASE ~ TooShort
  <2>1. AllocAfterProbe = AllocForPos
    BY <1>6 DEF AllocAfterProbe
  <2>2. AllocForPos > Begin + Last(Top.siblings).code
    BY <1>1, <1>3, <1>6, SMT DEF TooShort
  <2> QED BY <1>1, <1>2, <1>3, <2>1, <2>2, SMT
<1> QED BY <1>5, <1>6

\* a call of insert for siblings
LEMMA CallKeeps ==
  ASSUME Sized, Framed, Written, building # "idle",
         NEW S \in (SUBSET Nodes) \ {{}}, Call(S),
         UNCHANGED <<keys, values, check, size, next_check_pos, progress>>
  PROVE  /\ Sized' /\ Framed' /\ Written'
         /\ building' = "search" /\ stack' = Append(stack, [siblings |-> S, begin |-> 0, todo |-> S])
         /\ probe'.pos = StartOf(S)
<1>1. First(S) \in Nodes
  BY FirstLast
<1>2. First(S).code \in Nat /\ next_check_pos \in Nat /\ alloc \in Nat
  BY <1>1, CodeRange DEF Sized
<1>3. Larger(First(S).code + 1, next_check_pos) \in Nat /\ Larger(First(S).code + 1, next_check_pos) >= First(S).code + 1
  <2>1. First(S).code + 1 \in Nat
    BY <1>2, SMT
  <2> QED BY <1>2, <2>1, LargerType
<1>4. StartOf(S) \in Nat /\ First(S).code <= StartOf(S)
  BY <1>2, <1>3, SMT DEF StartOf
<1>5. alloc' \in Nat /\ alloc' >= alloc
  <2>1. StartOf(S) + 1 \in Nat
    BY <1>4, SMT
  <2> QED BY <1>2, <2>1, LargerType DEF Call
<1>6. Sized'
  <2>1. alloc' >= AllocMin
    BY <1>2, <1>5, DoubleArrayAssumption, SMT DEF Sized
  <2> QED BY <1>5, <2>1 DEF Sized, KeysInv, Call
<1>7. Nodes' = Nodes /\ Frames' = Frames
  BY DEF Nodes, Frames
<1> DEFINE f == [siblings |-> S, begin |-> 0, todo |-> S]
<1>8. f \in Frames /\ stack' = Append(stack, f) /\ stack \in Seq(Frames)
  BY DEF Frames, Call, Framed
<1>9. stack' \in Seq(Frames) /\ stack' # <<>> /\ Top' = f
  <2> HIDE DEF f
  <2> QED BY <1>8, SMT DEF Top
<1>10. probe' \in Probes /\ probe'.pos = StartOf(S) /\ building' = "search"
  BY <1>4 DEF Call, Probes
<1>11. First(Top.siblings)' = First(S)
  BY <1>9
<1>12. Framed'
  BY <1>4, <1>7, <1>9, <1>10, <1>11 DEF Framed
<1>13. Written'
  BY <1>2, <1>5, SMT DEF Written
<1> QED BY <1>6, <1>8, <1>10, <1>12, <1>13

\* the step that takes a begin
LEMMA ClaimKeeps ==
  ASSUME Sized, Framed, Untouched, Written, building = "search",
         TooShort => progress > 0, Claim(AllocAfterProbe)
  PROVE  Sized' /\ Framed' /\ Untouched' /\ Written'
<1>1. /\ Pos \in Nat /\ Begin \in Nat \ {0} /\ AllocForPos \in Nat /\ AllocForPos >= alloc
      /\ AllocAfterProbe \in Nat /\ AllocAfterProbe >= AllocForPos
      /\ \A n \in Top.siblings : Begin + n.code \in Int /\ Begin + n.code < AllocAfterProbe
  BY PlaceType, Room
<1>2. KeysInv /\ alloc \in Nat /\ alloc >= AllocMin /\ next_check_pos \in Nat /\ progress \in Nat
  BY DEF Sized
<1>3. /\ building' = "children" /\ alloc' = AllocAfterProbe
      /\ UNCHANGED <<keys, values, progress, probe>>
      /\ next_check_pos' \in {Pos, next_check_pos}
      /\ stack' = [stack EXCEPT ![Len(stack)].begin = Begin]
      /\ DOMAIN check' = DOMAIN check \union CellsFrom(Begin, Top.siblings)
  BY Zenon DEF Claim, NextCheckPos
<1>4. alloc' \in Nat /\ alloc' >= alloc
  BY <1>1, <1>2, <1>3, SMT
<1>5. Sized'
  <2>1. alloc' >= AllocMin
    BY <1>2, <1>4, DoubleArrayAssumption, SMT
  <2>2. KeysInv'
    BY <1>2, <1>3 DEF KeysInv
  <2>3. size' \in Nat
    <3>1. Last(Top.siblings).code \in Nat
      BY TopType, CodeRange DEF Framed
    <3>2. Begin + Last(Top.siblings).code + 1 \in Nat /\ size \in Nat
      BY <1>1, <3>1, SMT DEF Sized
    <3>3. size' = Larger(size, Begin + Last(Top.siblings).code + 1)
      BY DEF Claim
    <3> QED BY <3>2, <3>3, LargerType
  <2> QED BY <1>1, <1>2, <1>3, <1>4, <2>1, <2>2, <2>3 DEF Sized
<1>6. Framed'
  <2>1. Frames' = Frames
    BY <1>3 DEF Frames, Nodes
  <2>2. stack \in Seq(Frames) /\ stack # <<>> /\ Top \in Frames /\ Len(stack) \in Nat \ {0}
    BY TopType DEF Framed
  <2>3. [Top EXCEPT !.begin = Begin] \in Frames
    <3>1. Begin \in Int
      BY <1>1, SMT
    <3> QED BY <2>2, <3>1 DEF Frames
  <2>4. stack' = [stack EXCEPT ![Len(stack)] = [Top EXCEPT !.begin = Begin]]
    BY <1>3 DEF Top
  <2>5. stack' \in Seq(Frames) /\ stack' # <<>>
    BY <2>2, <2>3, <2>4, SMT
  <2> QED BY <1>3, <2>1, <2>5 DEF Framed
<1>7. Untouched'
  BY <1>3 DEF Untouched
<1>8. Written'
  BY <1>1, <1>2, <1>3, <1>4, SMT DEF Written, CellsFrom
<1> QED BY <1>5, <1>6, <1>7, <1>8

Cells == Sized /\ Framed /\ Untouched /\ Written

LEMMA CellsInvariant ==
  ASSUME Cells, ArrayNext
  PROVE  Cells'
<1> USE DEF Cells
<1>1. ASSUME BuildAny PROVE Cells'
  <2>1. PICK ks \in Seq(Seq(0 .. MaxByte)), vs \in Seq(Int) :
          ks # <<>> /\ Len(vs) = Len(ks) /\ Build(ks, vs)
    BY <1>1 DEF BuildAny
  <2>2. building = "idle" /\ building' = "root" /\ stack = <<>> /\ used = {} /\ DOMAIN check = {}
    BY <2>1 DEF Build, Untouched
  <2>3. Sized'
    <3>1. AllocMin \in Nat /\ AllocMin >= AllocMin
      BY DoubleArrayAssumption, SMT
    <3>2. KeysInv'
      BY <2>1 DEF Build, KeysInv
    <3>3. next_check_pos' \in Nat /\ progress' \in Nat
      BY <2>1, SMT DEF Build
    <3> QED BY <2>1, <3>1, <3>2, <3>3 DEF Build, Sized
  <2>4. Framed' /\ Untouched' /\ Written'
    BY <2>1, <2>2, SMT DEF Build, Framed, Untouched, Written
  <2> QED BY <2>3, <2>4
<1>2. ASSUME InsertRoot PROVE Cells'
  <2>1. building # "idle" /\ KeysInv
    BY <1>2 DEF InsertRoot, Sized
  <2>2. CASE Unsorted(Root)
    <3>1. building' = "error -3" /\ UNCHANGED <<keys, values, check, used, alloc, size, next_check_pos, progress, stack, probe>>
      BY <1>2, <2>2, Zenon DEF InsertRoot, Enter, Failed
    <3> QED BY <2>1, <3>1 DEF Sized, KeysInv, Framed, Frames, Nodes, Untouched, Written
  <2>3. CASE ~ Unsorted(Root)
    <3>1. Call(Siblings(Root)) /\ UNCHANGED <<keys, values, check, size, next_check_pos, progress>>
      BY <1>2, <2>3, Zenon DEF InsertRoot, Enter
    <3>2. Sized' /\ Framed' /\ Written' /\ building' = "search"
      BY <2>1, <3>1, RootSiblings, CallKeeps, Zenon
    <3> QED BY <3>2 DEF Untouched
  <2> QED BY <2>2, <2>3
<1>3. ASSUME ProbeOccupied PROVE Cells'
  <2>1. /\ building = "search" /\ building' = building
        /\ UNCHANGED <<keys, values, check, used, size, next_check_pos, progress, stack>>
        /\ alloc' = AllocForPos
        /\ probe' = [probe EXCEPT !.pos = Pos, !.nonzero = @ + 1]
    BY <1>3 DEF ProbeOccupied
  <2>2. Pos \in Nat /\ Pos = probe.pos + 1 /\ AllocForPos \in Nat /\ AllocForPos >= alloc
    BY <2>1, PlaceType
  <2>3. Sized'
    <3>1. alloc' >= AllocMin
      BY <2>1, <2>2, DoubleArrayAssumption, SMT DEF Sized
    <3> QED BY <2>1, <2>2, <3>1 DEF Sized, KeysInv
  <2>4. probe \in Probes /\ First(Top.siblings).code <= probe.pos /\ stack \in Seq(Frames) /\ stack # <<>>
    BY <2>1 DEF Framed
  <2>5. probe' \in Probes /\ probe'.pos = Pos
    <3>1. probe.nonzero + 1 \in Nat
      BY <2>4, SMT DEF Probes
    <3> QED BY <2>1, <2>2, <2>4, <3>1 DEF Probes
  <2>6. First(Top.siblings).code \in Nat
    BY <2>4, TopType, CodeRange
  <2>7. First(Top.siblings).code <= probe'.pos
    <3>1. probe.pos \in Nat
      BY <2>4 DEF Probes
    <3> QED BY <2>2, <2>4, <2>5, <2>6, <3>1, SMT
  <2>8. Framed'
    BY <2>1, <2>4, <2>5, <2>7 DEF Framed, Frames, Nodes, Top
  <2>9. Untouched' /\ Written'
    BY <2>1, <2>2, SMT DEF Untouched, Written, Sized
  <2> QED BY <2>3, <2>8, <2>9
<1>4. ASSUME ProbeFree PROVE Cells'
  <2>1. building = "search" /\ (TooShort => progress > 0)
    BY <1>4 DEF ProbeFree
  <2>2. CASE Fits(Begin, Top.siblings)
    <3>1. Claim(AllocAfterProbe)
      BY <1>4, <2>2, Zenon DEF ProbeFree
    <3> QED BY <2>1, <3>1, ClaimKeeps
  <2>3. CASE ~ Fits(Begin, Top.siblings)
    <3>1. /\ building' = building
          /\ UNCHANGED <<keys, values, check, used, size, progress, stack>>
          /\ alloc' = AllocAfterProbe
          /\ next_check_pos' \in {Pos, next_check_pos}
          /\ probe' = [probe EXCEPT !.pos = Pos, !.first = TRUE]
      BY <1>4, <2>3, Zenon DEF ProbeFree, NextCheckPos
    <3>2. /\ Pos \in Nat /\ Pos = probe.pos + 1 /\ AllocForPos \in Nat /\ AllocForPos >= alloc
          /\ AllocAfterProbe \in Nat /\ AllocAfterProbe >= AllocForPos
      BY <2>1, PlaceType, Room
    <3>3. alloc \in Nat /\ alloc >= AllocMin /\ AllocAfterProbe >= alloc
      BY <2>1, <3>2, SMT DEF Sized
    <3>4. Sized'
      <4>1. alloc' >= AllocMin
        BY <3>1, <3>2, <3>3, DoubleArrayAssumption, SMT
      <4> QED BY <2>1, <3>1, <3>2, <4>1 DEF Sized, KeysInv
    <3>5. probe \in Probes /\ First(Top.siblings).code <= probe.pos /\ stack \in Seq(Frames) /\ stack # <<>>
      BY <2>1 DEF Framed
    <3>6. probe' \in Probes /\ probe'.pos = Pos
      BY <3>1, <3>2, <3>5 DEF Probes
    <3>7. First(Top.siblings).code \in Nat
      BY <3>5, TopType, CodeRange
    <3>8. First(Top.siblings).code <= probe'.pos
      <4>1. probe.pos \in Nat
        BY <3>5 DEF Probes
      <4> QED BY <3>2, <3>5, <3>6, <3>7, <4>1, SMT
    <3>9. Framed'
      BY <2>1, <3>1, <3>5, <3>6, <3>8 DEF Framed, Frames, Nodes, Top
    <3>10. Untouched' /\ Written'
      BY <2>1, <3>1, <3>2, <3>3, SMT DEF Untouched, Written
    <3> QED BY <3>4, <3>9, <3>10
  <2> QED BY <2>2, <2>3
<1>5. ASSUME GrowWithoutProgress PROVE Cells'
  <2>1. /\ building = "search" /\ building' = "undefined"
        /\ UNCHANGED <<keys, values, check, used, alloc, size, next_check_pos, progress, stack, probe>>
    BY <1>5 DEF GrowWithoutProgress
  <2> QED BY <2>1 DEF Sized, KeysInv, Framed, Frames, Nodes, Untouched, Written
<1>6. ASSUME AtChild PROVE Top \in Frames /\ Child \in Nodes /\ Len(stack) \in Nat \ {0} /\ building = "children"
  <2>1. building = "children" /\ stack \in Seq(Frames) /\ stack # <<>> /\ Top.todo # {}
    BY <1>6 DEF AtChild, Framed
  <2>2. Top \in Frames /\ Top.todo \in SUBSET Nodes /\ Len(stack) \in Nat \ {0}
    BY <2>1, TopType
  <2>3. Child \in Nodes
    BY <2>1, <2>2, FirstLast DEF Child
  <2> QED BY <2>1, <2>2, <2>3
<1>7. ASSUME Leaf PROVE Cells'
  <2>1. /\ Top \in Frames /\ Len(stack) \in Nat \ {0} /\ building = "children"
    BY <1>6, <1>7 DEF Leaf
  <2>2. /\ UNCHANGED <<keys, values, check, used, alloc, size, next_check_pos, probe>>
        /\ stack' = [stack EXCEPT ![Len(stack)].todo = @ \ {Child}]
        /\ building' \in {"children", "error -2"}
        /\ progress' \in {progress, progress + 1}
    BY <1>7, <2>1, Zenon DEF Leaf, ChildDone, Failed
  <2>3. Sized'
    <3>1. progress \in Nat
      BY <2>1 DEF Sized
    <3>2. progress' \in Nat
      <4>1. progress' = progress \/ progress' = progress + 1
        BY <2>2
      <4> QED BY <3>1, <4>1, SMT
    <3> QED BY <2>1, <2>2, <3>2 DEF Sized, KeysInv
  <2>4. Framed'
    <3>1. [Top EXCEPT !.todo = @ \ {Child}] \in Frames
      BY <2>1 DEF Frames
    <3>2. stack' = [stack EXCEPT ![Len(stack)] = [Top EXCEPT !.todo = @ \ {Child}]]
      BY <2>2 DEF Top
    <3>3. stack' \in Seq(Frames) /\ stack' # <<>>
      BY <2>1, <3>1, <3>2, SMT DEF Framed
    <3> QED BY <2>2, <3>3 DEF Framed, Frames, Nodes
  <2>5. Untouched' /\ Written'
    BY <2>2 DEF Untouched, Written
  <2> QED BY <2>3, <2>4, <2>5
<1>8. ASSUME Descend PROVE Cells'
  <2>1. building = "children" /\ Child \in Nodes /\ Siblings(Child) # {} /\ KeysInv
    BY <1>6, <1>8 DEF Descend, Sized
  <2>2. CASE Unsorted(Child)
    <3>1. building' = "error -3" /\ UNCHANGED <<keys, values, check, used, alloc, size, next_check_pos, progress, stack, probe>>
      BY <1>8, <2>2, Zenon DEF Descend, Enter, Failed
    <3> QED BY <2>1, <3>1 DEF Sized, KeysInv, Framed, Frames, Nodes, Untouched, Written
  <2>3. CASE ~ Unsorted(Child)
    <3>1. Call(Siblings(Child)) /\ UNCHANGED <<keys, values, check, size, next_check_pos, progress>>
      BY <1>8, <2>3, Zenon DEF Descend, Enter
    <3>2. Siblings(Child) \in (SUBSET Nodes) \ {{}} /\ building # "idle"
      BY <2>1, ChildSiblings
    <3>3. Sized' /\ Framed' /\ Written' /\ building' = "search"
      BY <3>1, <3>2, CallKeeps, Zenon
    <3> QED BY <3>3 DEF Untouched
  <2> QED BY <2>2, <2>3
<1>9. ASSUME Return PROVE Cells'
  <2>1. /\ building = "children" /\ Len(stack) > 1 /\ stack \in Seq(Frames)
        /\ UNCHANGED <<keys, values, check, used, alloc, size, next_check_pos, progress, probe, building>>
        /\ stack' = [SubSeq(stack, 1, Len(stack) - 1)
                       EXCEPT ![Len(stack) - 1].todo = @ \ {First(Caller.todo)}]
    BY <1>9 DEF Return, Framed
  <2> DEFINE rest == SubSeq(stack, 1, Len(stack) - 1)
             k == Len(stack) - 1
  <2>2. k \in Nat \ {0} /\ rest \in Seq(Frames) /\ Len(rest) = k
    BY <2>1, SMT
  <2>3. rest[k] \in Frames
    BY <2>2, ElementType, SMT
  <2>4. [rest[k] EXCEPT !.todo = @ \ {First(Caller.todo)}] \in Frames
    BY <2>3 DEF Frames
  <2>5. stack' = [rest EXCEPT ![k] = [rest[k] EXCEPT !.todo = @ \ {First(Caller.todo)}]]
    BY <2>1
  <2>6. stack' \in Seq(Frames) /\ stack' # <<>>
    <3> HIDE DEF rest, k
    <3> QED BY <2>2, <2>4, <2>5, SMT
  <2> QED BY <2>1, <2>6 DEF Sized, KeysInv, Framed, Frames, Nodes, Untouched, Written
<1>10. ASSUME Finish PROVE Cells'
  <2>1. /\ building = "children" /\ building' = "built" /\ stack' = <<>>
        /\ alloc' = Larger(alloc, size + MaxByte + 2)
        /\ size' = size + MaxByte + 2
        /\ UNCHANGED <<keys, values, check, next_check_pos, progress>>
    BY <1>10 DEF Finish
  <2>2. alloc \in Nat /\ alloc >= AllocMin /\ size' \in Nat
    BY <2>1, DoubleArrayAssumption, SMT DEF Sized
  <2>3. alloc' \in Nat /\ alloc' >= alloc
    <3>1. alloc' = Larger(alloc, size')
      BY <2>1
    <3> QED BY <2>2, <3>1, LargerType
  <2>4. Sized'
    <3>1. alloc' >= AllocMin
      BY <2>2, <2>3, DoubleArrayAssumption, SMT
    <3> QED BY <2>1, <2>2, <2>3, <3>1 DEF Sized, KeysInv
  <2>5. Framed' /\ Untouched'
    BY <2>1 DEF Framed, Untouched
  <2>6. Written'
    BY <2>1, <2>2, <2>3, SMT DEF Written
  <2> QED BY <2>4, <2>5, <2>6
<1> QED BY <1>1, <1>2, <1>3, <1>4, <1>5, <1>7, <1>8, <1>9, <1>10 DEF ArrayNext, BuildStep

-----------------------------------------------------------------------------
(* The begins.  Every open call but the one that still searches has taken   *)
(* one, and only its return writes it into a base: until then it is in used *)
(* and in no base, except for the root's, 1, which build wrote in advance.  *)

Running == building \in {"root", "search", "children"}

Claimed == { m \in 1 .. Len(stack) : building = "children" \/ m < Len(stack) }

Taken ==
  /\ used \subseteq Nat \ {0}
  /\ \A c \in DOMAIN base : base[c] > 0 => base[c] \in used \union {1}
  /\ \A m \in Claimed : stack[m].begin \in used
  /\ \A m, n \in Claimed : stack[m].begin = stack[n].begin => m = n
  /\ \A m \in Claimed : m = 1 => stack[m].begin = 1
  /\ \A m \in Claimed : m # 1 => \A c \in DOMAIN base : base[c] # stack[m].begin

Begins ==
  /\ \A c \in DOMAIN base : base[c] \in Int
  /\ building = "idle" => stack = <<>> /\ used = {} /\ \A c \in DOMAIN base : base[c] = 0
  /\ ChildrenUnshared
  /\ Running => Taken
  /\ building = "search" /\ Len(stack) = 1 => DOMAIN check = {} /\ used = {} /\ Begin = 1

LEMMA AppendType ==
  ASSUME NEW S, NEW s \in Seq(S), NEW e \in S
  PROVE  /\ Len(Append(s, e)) = Len(s) + 1 /\ Len(s) \in Nat
         /\ Append(s, e)[Len(Append(s, e))] = e
         /\ \A m \in 1 .. Len(s) : Append(s, e)[m] = s[m]
OBVIOUS

\* opening a call takes no begin
LEMMA CallBegins ==
  ASSUME Cells, Begins, building \in {"root", "children"},
         building = "root" => stack = <<>>,
         NEW S \in (SUBSET Nodes) \ {{}}, Call(S),
         UNCHANGED <<keys, values, base, check, used, size, next_check_pos, progress>>
  PROVE  Begins'
<1>1. /\ building' = "search" /\ stack' = Append(stack, [siblings |-> S, begin |-> 0, todo |-> S])
      /\ probe'.pos = StartOf(S)
  BY CallKeeps, Zenon DEF Cells
<1>2. stack \in Seq(Frames) /\ (building = "children" => stack # <<>>)
  BY DEF Cells, Framed
<1> DEFINE f == [siblings |-> S, begin |-> 0, todo |-> S]
<1>3. f \in Frames
  BY DEF Frames
<1>4. /\ Len(stack') = Len(stack) + 1 /\ Len(stack) \in Nat
      /\ stack'[Len(stack')] = f
      /\ \A m \in 1 .. Len(stack) : stack'[m] = stack[m]
  <2>1. stack' = Append(stack, f)
    BY <1>1
  <2> HIDE DEF f
  <2>2. /\ Len(Append(stack, f)) = Len(stack) + 1 /\ Len(stack) \in Nat
        /\ Append(stack, f)[Len(Append(stack, f))] = f
        /\ \A m \in 1 .. Len(stack) : Append(stack, f)[m] = stack[m]
    BY <1>2, <1>3, AppendType
  <2> QED BY <2>1, <2>2
<1>5. Claimed' = 1 .. Len(stack) /\ Claimed = 1 .. Len(stack)
  <2>1. CASE building = "children"
    BY <1>1, <1>4, <2>1, SMT DEF Claimed
  <2>2. CASE building = "root"
    BY <1>1, <1>4, <2>2, SMT DEF Claimed
  <2> QED BY <2>1, <2>2
<1>6. Taken
  BY DEF Begins, Running
<1>7. Taken'
  BY <1>4, <1>5, <1>6 DEF Taken
<1>8. ASSUME Len(stack') = 1 PROVE DOMAIN check' = {} /\ used' = {} /\ Begin' = 1
  <2>1. building = "root" /\ stack = <<>>
    <3>1. Len(stack) = 0
      <4>1. \A k \in Nat : k + 1 = 1 => k = 0
        BY SMT
      <4> QED BY <1>4, <1>8, <4>1
    <3>2. stack = <<>>
      BY <1>2, <3>1
    <3> QED BY <1>2, <3>2
  <2>2. used = {} /\ DOMAIN check = {} /\ next_check_pos = 0
    BY <2>1 DEF Cells, Untouched
  <2>3. First(S).code \in Nat
    BY FirstLast, CodeRange
  <2>4. StartOf(S) = First(S).code
    BY <2>2, <2>3, SMT DEF StartOf, Larger
  <2>5. Top' = f
    BY <1>4 DEF Top
  <2>6. Top'.siblings = S
    BY <2>5
  <2>7. Begin' = (probe'.pos + 1) - First(S).code
    <3>1. First(Top.siblings)' = First(S)
      BY <2>6
    <3>2. Pos' = probe'.pos + 1
      BY DEF Pos
    <3>3. Begin' = Pos' - First(S).code
      BY <3>1 DEF Begin
    <3> QED BY <3>2, <3>3
  <2> QED BY <1>1, <2>2, <2>3, <2>4, <2>7, SMT
<1>9. ChildrenUnshared'
  BY DEF Begins, ChildrenUnshared
<1> QED BY <1>1, <1>7, <1>8, <1>9 DEF Begins

\* the begin that is taken is a new one
LEMMA ClaimBegins ==
  ASSUME Cells, Begins, building = "search", Fits(Begin, Top.siblings),
         Claim(AllocAfterProbe)
  PROVE  Begins'
<1>1. Begin \in Nat \ {0} /\ Begin \notin used /\ Taken
  BY PlaceType DEF Cells, Fits, Begins, Running
<1>2. /\ used' = used \union {Begin}
      /\ stack' = [stack EXCEPT ![Len(stack)].begin = Begin]
      /\ building' = "children"
  BY DEF Claim
<1>3. \A c \in DOMAIN base' : base'[c] = 0 \/ (c \in DOMAIN base /\ base'[c] = base[c])
  BY DEF Claim
<1>4. stack \in Seq(Frames) /\ Len(stack) \in Nat \ {0}
  BY TopType DEF Cells, Framed
<1>5. /\ Len(stack') = Len(stack) /\ stack'[Len(stack)].begin = Begin
      /\ \A m \in 1 .. Len(stack) : m # Len(stack) => stack'[m] = stack[m]
  BY <1>2, <1>4
<1>6. Claimed' = 1 .. Len(stack) /\ Claimed = { m \in 1 .. Len(stack) : m < Len(stack) }
  BY <1>2, <1>5, Zenon DEF Claimed
<1>7. CASE Len(stack) = 1
  <2>1. Begin = 1 /\ used = {}
    BY <1>7 DEF Begins
  <2>2. Claimed' = {1}
    BY <1>6, <1>7, SMT
  <2>3. stack'[1].begin = 1
    BY <1>5, <1>7, <2>1
  <2>4. Taken'
    <3>1. used' \subseteq Nat \ {0}
      BY <1>1, <1>2 DEF Taken
    <3>2. \A c \in DOMAIN base' : base'[c] > 0 => base'[c] \in used' \union {1}
      <4>1. ~ (0 > 0)
        BY SMT
      <4> QED BY <1>1, <1>2, <1>3, <4>1 DEF Taken
    <3> QED BY <1>2, <2>1, <2>2, <2>3, <3>1, <3>2 DEF Taken
  <2> QED BY <1>2, <1>3, <1>7, <2>4, SMT DEF Begins, ChildrenUnshared
<1>8. CASE Len(stack) # 1
  <2>1. 1 \in Claimed /\ stack[1].begin = 1
    <3>1. 1 \in 1 .. Len(stack) /\ 1 < Len(stack)
      BY <1>4, <1>8, SMT
    <3>2. 1 \in Claimed
      BY <1>6, <3>1
    <3> QED BY <1>1, <3>2 DEF Taken
  <2>2. 1 \in used /\ Begin # 1
    BY <1>1, <2>1 DEF Taken
  <2>3. \A c \in DOMAIN base : base[c] # Begin
    BY <1>1, <2>2, SMT DEF Taken
  <2>4. \A c \in DOMAIN base' : base'[c] # Begin
    BY <1>1, <1>3, <2>3, SMT
  <2>5. \A m \in Claimed' : m = Len(stack) \/ (m \in Claimed /\ stack'[m] = stack[m])
    BY <1>4, <1>5, <1>6, SMT
  <2>6. Taken'
    <3>1. used' \subseteq Nat \ {0}
      BY <1>1, <1>2 DEF Taken
    <3>2. \A c \in DOMAIN base' : base'[c] > 0 => base'[c] \in used' \union {1}
      <4>1. ~ (0 > 0)
        BY SMT
      <4> QED BY <1>1, <1>2, <1>3, <4>1 DEF Taken
    <3>3. \A m \in Claimed' : stack'[m].begin \in used'
      BY <1>1, <1>2, <1>5, <2>5 DEF Taken
    <3>4. ASSUME NEW m \in Claimed', NEW n \in Claimed', stack'[m].begin = stack'[n].begin
          PROVE  m = n
      <4>1. \A k \in Claimed : stack[k].begin # Begin
        BY <1>1 DEF Taken
      <4> QED BY <1>1, <1>5, <2>5, <3>4, <4>1 DEF Taken
    <3>5. \A m \in Claimed' : m = 1 => stack'[m].begin = 1
      BY <1>1, <1>8, <2>5 DEF Taken
    <3>6. ASSUME NEW m \in Claimed', m # 1, NEW c \in DOMAIN base' PROVE base'[c] # stack'[m].begin
      <4>1. CASE m = Len(stack)
        BY <1>5, <2>4, <4>1
      <4>2. CASE m # Len(stack)
        <5>1. m \in Claimed /\ stack'[m] = stack[m]
          BY <2>5, <4>2
        <5>2. stack[m].begin # 0
          BY <1>1, <5>1 DEF Taken
        <5> QED BY <1>1, <1>3, <3>6, <5>1, <5>2 DEF Taken
      <4> QED BY <4>1, <4>2
    <3> QED BY <3>1, <3>2, <3>3, <3>4, <3>5, <3>6 DEF Taken
  <2> QED BY <1>2, <1>3, <2>6, SMT DEF Begins, ChildrenUnshared
<1> QED BY <1>7, <1>8

\* the last call hands its begin to the base of its caller's child
LEMMA ReturnBegins ==
  ASSUME Cells, Begins, Return
  PROVE  Begins'
<1> DEFINE k == Len(stack) - 1
           child == First(Caller.todo)
           cell == Caller.begin + child.code
           b == Top.begin
           rest == SubSeq(stack, 1, k)
<1>1. /\ building = "children" /\ building' = "children" /\ Len(stack) > 1 /\ stack \in Seq(Frames)
      /\ UNCHANGED <<check, used>>
      /\ base' = [base EXCEPT ![cell] = b]
      /\ stack' = [rest EXCEPT ![k].todo = @ \ {child}]
  BY DEF Return, Cells, Framed
<1> HIDE DEF cell, child
<1>2. k \in Nat \ {0} /\ Len(stack) = k + 1 /\ rest \in Seq(Frames) /\ Len(rest) = k
      /\ \A m \in 1 .. k : rest[m] = stack[m]
  BY <1>1, SMT
<1>3. Taken /\ Claimed = 1 .. Len(stack)
  BY <1>1 DEF Begins, Running, Claimed
<1>4. k + 1 \in Claimed /\ k + 1 # 1 /\ b = stack[k + 1].begin
  BY <1>2, <1>3, SMT DEF Top
<1>5. b \in used /\ b # 0 /\ \A c \in DOMAIN base : base[c] # b
  BY <1>3, <1>4 DEF Taken
<1>6. Len(stack') = k /\ \A m \in 1 .. k : stack'[m].begin = stack[m].begin
  <2>1. \A m \in 1 .. k : rest[m] \in Frames
    BY <1>2, ElementType
  <2> HIDE DEF rest, k
  <2>2. Len(stack') = k
    BY <1>1, <1>2
  <2>3. \A m \in 1 .. k : stack'[m].begin = rest[m].begin
    BY <1>1, <1>2, <2>1 DEF Frames
  <2> QED BY <1>2, <2>2, <2>3
<1>7. Claimed' = 1 .. k /\ \A m \in 1 .. k : m \in Claimed /\ m # k + 1
  BY <1>1, <1>2, <1>3, <1>6, SMT DEF Claimed
<1>8. DOMAIN base' = DOMAIN base /\ \A c \in DOMAIN base : base'[c] = base[c] \/ (c = cell /\ base'[c] = b)
  BY <1>1
<1>9. Taken'
  <2>1. used' \subseteq Nat \ {0}
    BY <1>1, <1>3 DEF Taken
  <2>2. \A c \in DOMAIN base' : base'[c] > 0 => base'[c] \in used' \union {1}
    BY <1>1, <1>3, <1>5, <1>8 DEF Taken
  <2>3. \A m \in Claimed' : stack'[m].begin \in used'
    BY <1>1, <1>3, <1>6, <1>7 DEF Taken
  <2>4. \A m, n \in Claimed' : stack'[m].begin = stack'[n].begin => m = n
    BY <1>3, <1>6, <1>7 DEF Taken
  <2>5. \A m \in Claimed' : m = 1 => stack'[m].begin = 1
    BY <1>3, <1>6, <1>7 DEF Taken
  <2>6. ASSUME NEW m \in Claimed', m # 1, NEW c \in DOMAIN base' PROVE base'[c] # stack'[m].begin
    <3>1. m \in Claimed /\ stack[m].begin # b /\ stack'[m].begin = stack[m].begin
      BY <1>3, <1>4, <1>6, <1>7 DEF Taken
    <3> QED BY <1>3, <1>8, <2>6, <3>1 DEF Taken
  <2> QED BY <2>1, <2>2, <2>3, <2>4, <2>5, <2>6 DEF Taken
<1>10. ChildrenUnshared'
  <2>1. ASSUME NEW c \in DOMAIN base, NEW d \in DOMAIN base, base'[c] > 0, base'[c] = base'[d]
        PROVE  c = d
    <3>1. CASE base'[c] = b
      BY <1>5, <1>8, <2>1, <3>1
    <3>2. CASE base'[c] # b
      <4>1. base'[c] = base[c] /\ base'[d] = base[d]
        BY <1>8, <2>1, <3>2
      <4> QED BY <1>1, <2>1, <4>1 DEF Begins, ChildrenUnshared
    <3> QED BY <3>1, <3>2
  <2> QED BY <1>8, <2>1 DEF ChildrenUnshared
<1>11. \A c \in DOMAIN base' : base'[c] \in Int
  <2>1. b \in Int
    <3>1. b \in Nat
      BY <1>3, <1>5 DEF Taken
    <3> HIDE DEF b
    <3> QED BY <3>1, SMT
  <2> QED BY <1>8, <2>1 DEF Begins
<1> QED BY <1>1, <1>9, <1>10, <1>11 DEF Begins

\* a leaf has a negative base
LEMMA LeafBegins ==
  ASSUME Cells, Begins, Leaf
  PROVE  Begins'
<1> DEFINE v == values[Child.left]
<1>1. building = "children" /\ stack \in Seq(Frames) /\ stack # <<>> /\ Top.todo # {} /\ KeysInv
  BY DEF Leaf, AtChild, Cells, Framed, Sized
<1>2. /\ Top \in Frames /\ Len(stack) \in Nat \ {0} /\ Top.todo \in SUBSET Nodes
  BY <1>1, TopType
<1>3. Child \in Nodes
  BY <1>1, <1>2, FirstLast DEF Child
<1>4. v \in Int
  <2>1. Child.left \in 1 .. Len(values) /\ values \in Seq(Int)
    BY <1>1, <1>3 DEF Nodes, KeysInv
  <2> QED BY <2>1, ElementType, Zenon
<1>5. /\ base' = [base EXCEPT ![ChildCell] = - v - 1]
      /\ stack' = [stack EXCEPT ![Len(stack)].todo = @ \ {Child}]
      /\ UNCHANGED <<check, used>>
  BY DEF Leaf, ChildDone
<1>6. DOMAIN base' = DOMAIN base /\ \A c \in DOMAIN base : base'[c] = base[c] \/ base'[c] = - v - 1
  BY <1>5
<1>7. \A c \in DOMAIN base' : base'[c] \in Int
  BY <1>4, <1>6, SMT DEF Begins
<1>8. CASE v < 0
  BY <1>7, <1>8 DEF Leaf, Failed, Begins, ChildrenUnshared, Running
<1>9. CASE ~ v < 0
  <2>1. building' = "children"
    BY <1>1, <1>9 DEF Leaf
  <2>2. - v - 1 < 0
    BY <1>4, <1>9, SMT
  <2>3. Len(stack') = Len(stack) /\ \A m \in 1 .. Len(stack) : stack'[m].begin = stack[m].begin
    <3>1. \A m \in 1 .. Len(stack) : stack[m] \in Frames
      BY <1>1, ElementType
    <3>2. Len(stack') = Len(stack)
      BY <1>2, <1>5
    <3>3. \A m \in 1 .. Len(stack) : stack'[m].begin = stack[m].begin
      BY <1>1, <1>2, <1>5, <3>1 DEF Frames
    <3> QED BY <3>2, <3>3
  <2>4. Claimed' = 1 .. Len(stack) /\ Claimed = 1 .. Len(stack)
    BY <1>1, <2>1, <2>3 DEF Claimed
  <2>5. Taken
    BY <1>1 DEF Begins, Running
  <2>6. \A c \in DOMAIN base : base'[c] = base[c] \/ base'[c] < 0
    BY <1>6, <2>2
  <2>7. \A c \in DOMAIN base : base'[c] > 0 => base'[c] = base[c]
    BY <1>6, <1>7, <2>6, SMT
  <2>8. Taken'
    <3>1. used' \subseteq Nat \ {0}
      BY <1>5, <2>5 DEF Taken
    <3>2. \A c \in DOMAIN base' : base'[c] > 0 => base'[c] \in used' \union {1}
      BY <1>5, <1>6, <2>5, <2>7 DEF Taken
    <3>3. ASSUME NEW m \in Claimed', m # 1, NEW c \in DOMAIN base' PROVE base'[c] # stack'[m].begin
      <4>1. m \in Claimed /\ stack'[m].begin = stack[m].begin /\ stack[m].begin \in Nat
        BY <2>3, <2>4, <2>5 DEF Taken
      <4>2. CASE base'[c] = base[c]
        BY <1>6, <2>5, <3>3, <4>1, <4>2 DEF Taken
      <4>3. CASE base'[c] < 0
        <5>1. base'[c] \in Int
          BY <1>7
        <5>2. \A n \in Nat, x \in Int : x < 0 => x # n
          BY SMT
        <5> QED BY <4>1, <4>3, <5>1, <5>2
      <4> QED BY <1>6, <2>6, <4>2, <4>3
    <3>4. \A m \in Claimed' : stack'[m].begin \in used' /\ (m = 1 => stack'[m].begin = 1)
      BY <1>5, <2>3, <2>4, <2>5 DEF Taken
    <3>5. \A m, n \in Claimed' : stack'[m].begin = stack'[n].begin => m = n
      BY <2>3, <2>4, <2>5 DEF Taken
    <3> QED BY <3>1, <3>2, <3>3, <3>4, <3>5 DEF Taken
  <2>9. ChildrenUnshared'
    BY <1>1, <1>6, <2>7 DEF Begins, ChildrenUnshared
  <2> QED BY <1>7, <2>1, <2>8, <2>9 DEF Begins
<1> QED BY <1>8, <1>9

DoubleArrayInv == Cells /\ Begins

LEMMA BeginsInvariant ==
  ASSUME DoubleArrayInv, ArrayNext
  PROVE  Begins'
<1> USE DEF DoubleArrayInv
<1>1. ASSUME BuildAny PROVE Begins'
  <2>1. /\ building = "idle" /\ building' = "root" /\ stack' = <<>> /\ used' = {}
        /\ base' = [c \in {0} |-> 1]
    BY <1>1 DEF BuildAny, Build, Cells, Untouched
  <2>2. Claimed' = {}
    BY <2>1, SMT DEF Claimed
  <2> QED BY <2>1, <2>2, SMT DEF Begins, ChildrenUnshared, Taken
<1>2. ASSUME InsertRoot PROVE Begins'
  <2>1. building = "root" /\ KeysInv /\ stack = <<>>
    BY <1>2 DEF InsertRoot, Cells, Sized, Untouched
  <2>2. CASE Unsorted(Root)
    <3>1. building' = "error -3" /\ UNCHANGED base
      BY <1>2, <2>2, Zenon DEF InsertRoot, Enter, Failed
    <3> QED BY <2>1, <3>1 DEF Begins, ChildrenUnshared, Running
  <2>3. CASE ~ Unsorted(Root)
    <3>1. Call(Siblings(Root))
          /\ UNCHANGED <<keys, values, base, check, used, size, next_check_pos, progress>>
      BY <1>2, <2>3, Zenon DEF InsertRoot, Enter
    <3> QED BY <2>1, <3>1, RootSiblings, CallBegins, Zenon
  <2> QED BY <2>2, <2>3
<1>3. ASSUME ProbeOccupied PROVE Begins'
  <2>1. /\ building = "search" /\ Pos \in DOMAIN check
        /\ UNCHANGED <<base, check, used, stack, building>>
    BY <1>3 DEF ProbeOccupied
  <2> QED BY <2>1 DEF Begins, ChildrenUnshared, Running, Taken, Claimed
<1>4. ASSUME ProbeFree PROVE Begins'
  <2>1. building = "search"
    BY <1>4 DEF ProbeFree
  <2>2. CASE Fits(Begin, Top.siblings)
    <3>1. Claim(AllocAfterProbe)
      BY <1>4, <2>2, Zenon DEF ProbeFree
    <3> QED BY <2>1, <2>2, <3>1, ClaimBegins
  <2>3. CASE ~ Fits(Begin, Top.siblings)
    <3>1. UNCHANGED <<base, check, used, stack, building>>
      BY <1>4, <2>3, Zenon DEF ProbeFree
    <3>2. ~ (used = {} /\ DOMAIN check = {})
      BY <2>3 DEF Fits
    <3> QED BY <2>1, <3>1, <3>2 DEF Begins, ChildrenUnshared, Running, Taken, Claimed
  <2> QED BY <2>2, <2>3
<1>5. ASSUME GrowWithoutProgress PROVE Begins'
  <2>1. building = "search" /\ building' = "undefined" /\ UNCHANGED base
    BY <1>5 DEF GrowWithoutProgress
  <2> QED BY <2>1 DEF Begins, ChildrenUnshared, Running
<1>6. ASSUME Descend PROVE Begins'
  <2>1. building = "children" /\ Siblings(Child) # {} /\ KeysInv /\ stack \in Seq(Frames) /\ stack # <<>>
        /\ Top.todo # {}
    BY <1>6 DEF Descend, AtChild, Cells, Sized, Framed
  <2>2. Child \in Nodes
    <3>1. Top.todo \in SUBSET Nodes
      BY <2>1, TopType
    <3> QED BY <2>1, <3>1, FirstLast DEF Child
  <2>3. CASE Unsorted(Child)
    <3>1. building' = "error -3" /\ UNCHANGED base
      BY <1>6, <2>3, Zenon DEF Descend, Enter, Failed
    <3> QED BY <2>1, <3>1 DEF Begins, ChildrenUnshared, Running
  <2>4. CASE ~ Unsorted(Child)
    <3>1. Call(Siblings(Child))
          /\ UNCHANGED <<keys, values, base, check, used, size, next_check_pos, progress>>
      BY <1>6, <2>4, Zenon DEF Descend, Enter
    <3>2. Siblings(Child) \in (SUBSET Nodes) \ {{}}
      BY <2>1, <2>2, ChildSiblings
    <3> QED BY <2>1, <3>1, <3>2, CallBegins
  <2> QED BY <2>3, <2>4
<1>7. ASSUME Finish PROVE Begins'
  <2>1. building = "children" /\ building' = "built" /\ UNCHANGED base
    BY <1>7 DEF Finish
  <2> QED BY <2>1 DEF Begins, ChildrenUnshared, Running
<1> QED BY <1>1, <1>2, <1>3, <1>4, <1>5, <1>6, <1>7, LeafBegins, ReturnBegins DEF ArrayNext, BuildStep

-----------------------------------------------------------------------------
(* The trie.  A node whose keys all reach its depth, and whose codes do not *)
(* decrease, is divided into its siblings: each has the keys of its code.  *)

Proper(p) ==
  /\ p.left \in 1 .. Len(keys) /\ p.right \in p.left + 1 .. Len(keys) + 1 /\ p.depth \in Nat
  /\ \A i \in p.left .. p.right - 1 : Len(keys[i]) >= p.depth

Parent(p) == Proper(p) /\ ~ Unsorted(p)

LEMMA ProperLive ==
  ASSUME KeysInv, NEW p, Proper(p)
  PROVE  /\ p.left \in 1 .. Len(keys) /\ p.right \in 1 .. Len(keys) + 1 /\ p.depth \in Nat
         /\ Live(p) = p.left .. p.right - 1 /\ p.left \in Live(p) /\ Live(p) \subseteq 1 .. Len(keys)
         /\ \A i \in Live(p) : Code(i, p) \in Codes /\ Code(i, p) \in Nat
<1>1. p.left \in 1 .. Len(keys) /\ p.right \in 1 .. Len(keys) + 1 /\ p.depth \in Nat
  BY SMT DEF Proper, KeysInv
<1>2. Live(p) = p.left .. p.right - 1
  BY DEF Live, Proper
<1>3. p.left \in Live(p) /\ Live(p) \subseteq 1 .. Len(keys)
  <2>1. p.right \in p.left + 1 .. Len(keys) + 1 /\ Len(keys) \in Nat
    BY SMT DEF Proper, KeysInv
  <2> QED BY <1>1, <1>2, <2>1, SMT
<1>4. \A i \in Live(p) : Code(i, p) \in Codes
  BY <1>1, CodeType
<1>5. Codes \subseteq Nat
  BY DoubleArrayAssumption, SMT DEF Codes
<1> QED BY <1>1, <1>2, <1>3, <1>4, <1>5

\* every key of a node belongs to one of its siblings
LEMMA SiblingOfCode ==
  ASSUME KeysInv, NEW p, Proper(p), NEW k \in Live(p)
  PROVE  \E s \in Siblings(p) : s.code = Code(k, p)
<1> DEFINE same == { j \in Live(p) : Code(j, p) = Code(k, p) }
<1>1. same \in SUBSET Nat /\ same # {}
  BY ProperLive, SMT
<1>2. PICK i \in same : \A j \in same : i <= j
  BY <1>1, LeastExists
<1> DEFINE s == [code |-> Code(i, p), left |-> i, right |-> Right(i, p), depth |-> p.depth + 1]
<1>3. s \in Siblings(p)
  BY <1>2 DEF Leftmost, Siblings
<1> QED BY <1>2, <1>3

LEMMA SiblingsExist ==
  ASSUME KeysInv, NEW p, Proper(p)
  PROVE  Siblings(p) \in (SUBSET Nodes) \ {{}}
BY ProperLive, SiblingOfCode, SiblingsType

\* siblings are told apart by their codes
LEMMA SiblingUnique ==
  ASSUME KeysInv, NEW p, Proper(p), NEW s \in Siblings(p), NEW t \in Siblings(p), s.code = t.code
  PROVE  s = t
<1>1. PICK i \in Live(p) :
        /\ Leftmost(i, p)
        /\ s = [code |-> Code(i, p), left |-> i, right |-> Right(i, p), depth |-> p.depth + 1]
  BY DEF Siblings
<1>2. PICK j \in Live(p) :
        /\ Leftmost(j, p)
        /\ t = [code |-> Code(j, p), left |-> j, right |-> Right(j, p), depth |-> p.depth + 1]
  BY DEF Siblings
<1>3. Code(i, p) = Code(j, p)
  BY <1>1, <1>2
<1>4. i <= j /\ j <= i
  BY <1>1, <1>2, <1>3 DEF Leftmost
<1>5. i = j
  BY <1>4, ProperLive, SMT
<1> QED BY <1>1, <1>2, <1>5

\* a sibling has exactly the keys of its code
LEMMA SiblingKeys ==
  ASSUME KeysInv, NEW p, Parent(p), NEW s \in Siblings(p)
  PROVE  /\ s.left \in p.left .. p.right - 1 /\ s.right \in s.left + 1 .. p.right
         /\ s.depth = p.depth + 1 /\ s.code \in Nat /\ s.code = Code(s.left, p)
         /\ \A k \in p.left .. p.right - 1 : k \in s.left .. s.right - 1 <=> Code(k, p) = s.code
         /\ \A k \in p.left .. p.right - 1 : Code(k, p) = s.code => s.left <= k
<1>0. Proper(p)
  BY DEF Parent
<1>1. PICK i \in Live(p) :
        /\ Leftmost(i, p)
        /\ s = [code |-> Code(i, p), left |-> i, right |-> Right(i, p), depth |-> p.depth + 1]
  BY DEF Siblings
<1>2. /\ p.left \in 1 .. Len(keys) /\ p.right \in 1 .. Len(keys) + 1 /\ p.depth \in Nat
      /\ Live(p) = p.left .. p.right - 1 /\ Live(p) \subseteq 1 .. Len(keys)
      /\ \A k \in Live(p) : Code(k, p) \in Nat
  BY <1>0, ProperLive
<1> DEFINE r == Right(i, p)
<1>3. /\ r \in i + 1 .. p.right
      /\ \A j \in Live(p) : j >= i /\ j < r => Code(j, p) = Code(i, p)
      /\ r = p.right \/ (r \in Live(p) /\ Code(r, p) # Code(i, p))
  BY <1>2, RightSpec
<1>4. \A j, k \in Live(p) : j < k => Code(j, p) <= Code(k, p)
  <2> SUFFICES ASSUME NEW j \in Live(p), NEW k \in Live(p), j < k PROVE Code(j, p) <= Code(k, p)
    OBVIOUS
  <2>1. ~ (Code(j, p) > Code(k, p))
    BY DEF Parent, Unsorted
  <2> QED BY <1>2, <2>1, SMT
<1> HIDE DEF r
<1>5. \A k \in Live(p) : Code(k, p) = Code(i, p) => i <= k
  BY <1>1 DEF Leftmost
<1>6. ASSUME NEW k \in Live(p), Code(k, p) = Code(i, p) PROVE k \in i .. r - 1
  <2>1. i <= k
    BY <1>5, <1>6
  <2>2. CASE r = p.right
    BY <1>2, <1>3, <2>1, <2>2, SMT
  <2>3. CASE r \in Live(p) /\ Code(r, p) # Code(i, p)
    <3>0. i \in Nat /\ k \in Nat /\ r \in Nat /\ Code(i, p) \in Nat /\ Code(r, p) \in Nat /\ i < r
      BY <1>2, <1>3, <2>3, SMT
    <3>1. Code(i, p) <= Code(r, p)
      BY <1>4, <2>3, <3>0
    <3>2. ASSUME r <= k PROVE FALSE
      <4>1. r = k \/ r < k
        BY <3>0, <3>2, SMT
      <4>2. Code(r, p) <= Code(k, p)
        BY <1>4, <2>3, <3>0, <4>1, SMT
      <4> QED BY <1>6, <2>3, <3>0, <3>1, <4>2, SMT
    <3> QED BY <2>1, <3>0, <3>2, SMT
  <2> QED BY <1>3, <2>2, <2>3
<1>7. ASSUME NEW k \in Live(p), k \in i .. r - 1 PROVE Code(k, p) = Code(i, p)
  BY <1>2, <1>3, <1>7, SMT
<1>8. s.left = i /\ s.right = r /\ s.code = Code(i, p) /\ s.depth = p.depth + 1
  BY <1>1 DEF r
<1> QED BY <1>2, <1>3, <1>5, <1>6, <1>7, <1>8, Zenon

\* a key that ends is a leaf, all other siblings are nodes with siblings of their own
LEMMA SiblingKind ==
  ASSUME KeysInv, NEW p, Parent(p), NEW s \in Siblings(p)
  PROVE  /\ s.code = 0 => Siblings(s) = {} /\ Len(keys[s.left]) = p.depth
         /\ s.code # 0 => Proper(s) /\ Siblings(s) # {}
<1>1. /\ s.left \in p.left .. p.right - 1 /\ s.right \in s.left + 1 .. p.right
      /\ s.depth = p.depth + 1 /\ s.code = Code(s.left, p)
      /\ \A k \in p.left .. p.right - 1 : k \in s.left .. s.right - 1 <=> Code(k, p) = s.code
  BY SiblingKeys
<1>2. /\ p.left \in 1 .. Len(keys) /\ p.right \in 1 .. Len(keys) + 1 /\ p.depth \in Nat
      /\ Live(p) = p.left .. p.right - 1 /\ Live(p) \subseteq 1 .. Len(keys)
  BY ProperLive DEF Parent
<1>3. s.left .. s.right - 1 \subseteq p.left .. p.right - 1
  BY <1>1, <1>2, SMT
<1>4. \A k \in p.left .. p.right - 1 : Len(keys[k]) \in Nat /\ Len(keys[k]) >= p.depth /\ keys[k] \in Seq(0 .. MaxByte)
  <2> SUFFICES ASSUME NEW k \in p.left .. p.right - 1
               PROVE  Len(keys[k]) \in Nat /\ Len(keys[k]) >= p.depth /\ keys[k] \in Seq(0 .. MaxByte)
    OBVIOUS
  <2>1. k \in 1 .. Len(keys)
    BY <1>2
  <2>2. keys[k] \in Seq(0 .. MaxByte)
    BY <2>1, ElementType, Zenon DEF KeysInv
  <2>3. Len(keys[k]) >= p.depth
    BY DEF Parent, Proper
  <2> QED BY <2>2, <2>3, SMT
<1>5. \A k \in p.left .. p.right - 1 : Code(k, p) = 0 <=> Len(keys[k]) = p.depth
  <2> SUFFICES ASSUME NEW k \in p.left .. p.right - 1 PROVE Code(k, p) = 0 <=> Len(keys[k]) = p.depth
    OBVIOUS
  <2>1. ASSUME Len(keys[k]) # p.depth PROVE Code(k, p) # 0
    <3>1. p.depth + 1 \in 1 .. Len(keys[k])
      BY <1>2, <1>4, <2>1, SMT
    <3>2. keys[k][p.depth + 1] \in 0 .. MaxByte
      BY <1>4, <3>1, ElementType, Zenon
    <3>3. keys[k][p.depth + 1] + 1 # 0
      BY <3>2, SMT
    <3> QED BY <2>1, <3>3 DEF Code
  <2> QED BY <2>1 DEF Code
<1>6. ASSUME s.code = 0 PROVE Siblings(s) = {} /\ Len(keys[s.left]) = p.depth
  <2>1. \A k \in s.left .. s.right - 1 : Len(keys[k]) = p.depth
    BY <1>1, <1>3, <1>5, <1>6
  <2>2. Live(s) = {}
    BY <1>1, <1>2, <2>1, SMT DEF Live
  <2> QED BY <1>1, <1>5, <1>6, <2>2 DEF Siblings
<1>7. ASSUME s.code # 0 PROVE Proper(s) /\ Siblings(s) # {}
  <2>1. \A k \in s.left .. s.right - 1 : Len(keys[k]) >= s.depth
    <3> SUFFICES ASSUME NEW k \in s.left .. s.right - 1 PROVE Len(keys[k]) >= s.depth
      OBVIOUS
    <3>1. k \in p.left .. p.right - 1 /\ Code(k, p) # 0
      BY <1>1, <1>3, <1>7
    <3>2. Len(keys[k]) # p.depth /\ Len(keys[k]) >= p.depth /\ Len(keys[k]) \in Nat
      BY <1>4, <1>5, <3>1
    <3> QED BY <1>1, <1>2, <3>2, SMT
  <2>2. Proper(s)
    BY <1>1, <1>2, <2>1, SMTT(30) DEF Proper
  <2> QED BY <2>2, SiblingsExist
<1> QED BY <1>6, <1>7

\* the siblings come in the order of their keys
LEMMA SiblingOrder ==
  ASSUME KeysInv, NEW p, Parent(p), NEW s \in Siblings(p), NEW t \in Siblings(p), s.code < t.code
  PROVE  s.right <= t.left
<1>0. Proper(p)
  BY DEF Parent
<1>1. /\ s.left \in p.left .. p.right - 1 /\ s.right \in s.left + 1 .. p.right /\ s.code \in Nat
      /\ t.left \in p.left .. p.right - 1 /\ t.code \in Nat
      /\ s.code = Code(s.left, p) /\ t.code = Code(t.left, p)
      /\ t.left \in s.left .. s.right - 1 <=> Code(t.left, p) = s.code
  BY SiblingKeys
<1>2. Live(p) = p.left .. p.right - 1 /\ p.left \in Nat /\ p.right \in Nat
  BY <1>0, ProperLive, SMT
<1>3. t.left \notin s.left .. s.right - 1
  BY <1>1, SMT
<1>4. ~ (t.left < s.left)
  BY <1>1, <1>2 DEF Parent, Unsorted
<1> QED BY <1>1, <1>2, <1>3, <1>4, SMT

-----------------------------------------------------------------------------
(* The layout.  A begin that was taken belongs to a node, its owner: the   *)
(* cells behind it that carry its check are the cells of the siblings of   *)
(* that node.  The base of a sibling's cell is the begin that it owns, or  *)
(* the negative value of a leaf, or zero as long as the call of insert     *)
(* that took the begin has the sibling still to do.                        *)

\* the node that the call m of insert was made for
FrameNode(m) == IF m = 1 THEN Root ELSE First(stack[m - 1].todo)

Pending(b, s) == \E m \in Claimed : stack[m].begin = b /\ s \in stack[m].todo

LeafBase(s) == - values[s.left] - 1

LaidCell(owner, b, s) ==
  /\ b + s.code \in DOMAIN check /\ check[b + s.code] = b
  /\ \/ base[b + s.code] = 0 /\ Pending(b, s)
     \/ Siblings(s) = {} /\ base[b + s.code] = LeafBase(s) /\ base[b + s.code] < 0
     \/ Siblings(s) # {} /\ base[b + s.code] \in DOMAIN owner /\ owner[base[b + s.code]] = s

Laid(owner) ==
  /\ \A b \in DOMAIN owner : b \in Nat \ {0} /\ Parent(owner[b])
  /\ \A b \in DOMAIN owner : \A s \in Siblings(owner[b]) : LaidCell(owner, b, s)
  /\ \A c \in DOMAIN check :
       check[c] \in DOMAIN owner /\ \E s \in Siblings(owner[check[c]]) : c = check[c] + s.code
  /\ \A m \in Claimed : stack[m].begin \in DOMAIN owner /\ owner[stack[m].begin] = FrameNode(m)

Opened ==
  /\ \A m \in 1 .. Len(stack) :
       /\ Parent(FrameNode(m))
       /\ stack[m].siblings = Siblings(FrameNode(m))
       /\ stack[m].todo \subseteq stack[m].siblings
       /\ m < Len(stack) => stack[m].todo # {}
  /\ building = "search" => Top.todo = Top.siblings

\* the keys in front of it are those of the siblings that were done
Front == IF Top.todo # {} THEN First(Top.todo).left ELSE FrameNode(Len(stack)).right

Growing == building \in {"search", "children"}

Layout ==
  /\ DOMAIN base = DOMAIN check \union {0}
  /\ progress \in 0 .. Len(keys)
  /\ building = "root" => progress = 0
  /\ Running \/ building = "built" => base[0] = 1 /\ 0 \notin DOMAIN check
  /\ Growing => /\ Opened
                /\ progress < Front
                /\ \A c \in DOMAIN check : c < size
                /\ \E owner : Laid(owner) /\ DOMAIN owner = used
  /\ building = "built" => /\ \A c \in DOMAIN check : c + MaxByte + 2 < size
                           /\ \E owner : Laid(owner) /\ 1 \in DOMAIN owner /\ owner[1] = Root

LEMMA SameTrie ==
  ASSUME UNCHANGED keys
  PROVE  /\ Root' = Root
         /\ \A p : Siblings(p)' = Siblings(p) /\ (Proper(p)' <=> Proper(p)) /\ (Parent(p)' <=> Parent(p))
BY DEF Root, Siblings, Live, Code, Leftmost, Right, Proper, Parent, Unsorted

LEMMA RootProper ==
  ASSUME KeysInv
  PROVE  Proper(Root)
<1>1. /\ Root.left = 1 /\ Root.right = Len(keys) + 1 /\ Root.depth = 0
      /\ Len(keys) \in Nat \ {0}
  BY SMT DEF Root, KeysInv
<1>2. \A i \in 1 .. Len(keys) : Len(keys[i]) >= 0
  <2> SUFFICES ASSUME NEW i \in 1 .. Len(keys) PROVE Len(keys[i]) >= 0
    OBVIOUS
  <2>1. keys[i] \in Seq(0 .. MaxByte)
    BY ElementType, Zenon DEF KeysInv
  <2> QED BY <2>1, SMT
<1> QED BY <1>1, <1>2, SMT DEF Proper

\* the siblings still to do after the first of them
LEMMA NextFront ==
  ASSUME KeysInv, NEW p, Parent(p), NEW T \in SUBSET Siblings(p), T # {}
  PROVE  /\ First(T) \in T /\ First(T) \in Nodes
         /\ First(T).left < First(T).right /\ First(T).right <= p.right
         /\ T \ {First(T)} # {} => First(T \ {First(T)}).left >= First(T).right
         /\ First(T).left \in 1 .. Len(keys) /\ p.right \in 1 .. Len(keys) + 1
         /\ First(T).right \in Nat
<1> DEFINE n == First(T)
<1>1. /\ Siblings(p) \in SUBSET Nodes /\ p.right \in 1 .. Len(keys) + 1 /\ Len(keys) \in Nat
  BY SiblingsExist, ProperLive DEF Parent, KeysInv
<1>2. n \in T /\ n \in Nodes /\ \A m \in T : n.code <= m.code
  BY <1>1, FirstLast
<1>3. n.left < n.right /\ n.right <= p.right /\ n.right \in Nat /\ n.left \in 1 .. Len(keys)
  <2>1. n.right \in n.left + 1 .. p.right /\ n.left \in 1 .. Len(keys)
    BY <1>2, SiblingKeys DEF Nodes
  <2> QED BY <1>1, <2>1, SMT
<1>4. ASSUME T \ {n} # {} PROVE First(T \ {n}).left >= n.right
  <2> DEFINE t == First(T \ {n})
  <2>1. t \in T \ {n}
    BY <1>1, <1>4, FirstLast
  <2>2. n.code # t.code
    BY <1>2, <2>1, SiblingUnique DEF Parent
  <2>3. n.code \in Nat /\ t.code \in Nat /\ t \in Nodes
    BY <1>1, <1>2, <2>1, CodeRange
  <2>4. n.code < t.code
    BY <1>2, <2>1, <2>2, <2>3, SMT
  <2>5. n.right <= t.left
    BY <1>2, <2>1, <2>4, SiblingOrder
  <2>6. t.left \in Nat
    BY <1>1, <2>3, SMT DEF Nodes
  <2> HIDE DEF t
  <2> QED BY <1>3, <2>5, <2>6, SMT DEF t
<1> QED BY <1>1, <1>2, <1>3, <1>4

\* as long as nothing is written and the open calls are the same
LEMMA LaidKept ==
  ASSUME NEW owner, Laid(owner), UNCHANGED <<keys, values, base, check>>,
         Claimed' = Claimed,
         \A m \in Claimed : stack'[m] = stack[m] /\ FrameNode(m)' = FrameNode(m)
  PROVE  Laid(owner)'
<1>1. \A p : Siblings(p)' = Siblings(p) /\ (Parent(p)' <=> Parent(p))
  BY SameTrie
<1>2. \A b, s : Pending(b, s)' <=> Pending(b, s)
  BY DEF Pending
<1>3. \A s : LeafBase(s)' = LeafBase(s)
  BY DEF LeafBase
<1>4. \A b, s : LaidCell(owner, b, s)' <=> LaidCell(owner, b, s)
  BY <1>1, <1>2, <1>3 DEF LaidCell
<1> QED BY <1>1, <1>4, Zenon DEF Laid

\* opening a call
LEMMA CallLayout ==
  ASSUME Cells, Layout, building \in {"root", "children"}, NEW p, Parent(p),
         building = "root" => stack = <<>> /\ p = Root,
         building = "children" => Top.todo # {} /\ p = Child,
         Call(Siblings(p)),
         UNCHANGED <<keys, values, base, check, used, size, next_check_pos, progress>>
  PROVE  Layout'
<1> DEFINE S == Siblings(p)
           f == [siblings |-> S, begin |-> 0, todo |-> S]
<1>k. PICK k : k = Len(stack)
  OBVIOUS
<1>0. KeysInv /\ building # "idle" /\ Proper(p)
  BY DEF Cells, Sized, Parent
<1>1. S \in (SUBSET Nodes) \ {{}} /\ f \in Frames
  BY <1>0, SiblingsExist DEF Frames
<1>2. stack \in Seq(Frames) /\ (building = "children" => stack # <<>>) /\ stack' = Append(stack, f) /\ building' = "search"
  BY DEF Cells, Framed, Call
<1> HIDE DEF f
<1>3. /\ Len(stack') = k + 1 /\ k \in Nat /\ stack'[k + 1] = f
      /\ \A m \in 1 .. k : stack'[m] = stack[m]
  <2>1. /\ Len(stack') = Len(stack) + 1 /\ Len(stack) \in Nat
        /\ stack'[Len(stack')] = f
        /\ \A m \in 1 .. Len(stack) : stack'[m] = stack[m]
    BY <1>1, <1>2, AppendType
  <2> QED BY <1>k, <2>1
<1>4. Claimed' = 1 .. k /\ Claimed = 1 .. k
  <2>1. CASE building = "children"
    BY <1>k, <1>2, <1>3, <2>1, SMT DEF Claimed
  <2>2. CASE building = "root"
    BY <1>k, <1>2, <1>3, <2>2, SMT DEF Claimed
  <2> QED BY <2>1, <2>2
<1>5. /\ Root' = Root
      /\ \A q : Siblings(q)' = Siblings(q) /\ (Parent(q)' <=> Parent(q))
  BY SameTrie
<1>6. \A m \in 1 .. k : FrameNode(m)' = FrameNode(m)
  <2> SUFFICES ASSUME NEW m \in 1 .. k PROVE FrameNode(m)' = FrameNode(m)
    OBVIOUS
  <2>1. m # 1 => m - 1 \in 1 .. k
    BY <1>3, SMT
  <2> QED BY <1>3, <1>5, <2>1 DEF FrameNode
<1>7. FrameNode(k + 1)' = p
  <2>1. CASE building = "root"
    <3>1. k + 1 = 1
      BY <1>k, <2>1
    <3> QED BY <1>5, <2>1, <3>1 DEF FrameNode
  <2>2. CASE building = "children"
    <3>1. k + 1 # 1 /\ (k + 1) - 1 = k /\ k \in 1 .. k
      BY <1>k, <1>2, <1>3, <2>2, SMT
    <3> QED BY <1>k, <1>3, <2>2, <3>1 DEF FrameNode, Top, Child
  <2> QED BY <2>1, <2>2
<1>8. Top' = f
  BY <1>k, <1>3 DEF Top
<1>9. Opened'
  <2>1. ASSUME NEW m \in 1 .. k PROVE /\ Parent(FrameNode(m)) /\ stack[m].siblings = Siblings(FrameNode(m))
                                      /\ stack[m].todo \subseteq stack[m].siblings /\ stack[m].todo # {}
    <3>1. building = "children" /\ Opened /\ Top.todo # {}
      <4>1. k # 0
        BY <1>3, SMT
      <4> QED BY <1>k, <4>1 DEF Layout, Growing
    <3>2. m < k \/ m = k
      BY <1>3, SMT
    <3> QED BY <1>k, <3>1, <3>2 DEF Opened, Top
  <2>2. \A m \in 1 .. k + 1 : m \in 1 .. k \/ m = k + 1
    BY <1>3, SMT
  <2>3. ~ (k + 1 < k + 1)
    BY <1>3, SMT
  <2>4. f.siblings = S /\ f.todo = S
    BY DEF f
  <2>5. \A m \in 1 .. k + 1 :
          /\ Parent(FrameNode(m))'
          /\ stack'[m].siblings = Siblings(FrameNode(m))'
          /\ stack'[m].todo \subseteq stack'[m].siblings
          /\ m < k + 1 => stack'[m].todo # {}
    <3> SUFFICES ASSUME NEW m \in 1 .. k + 1
                 PROVE  /\ Parent(FrameNode(m))'
                        /\ stack'[m].siblings = Siblings(FrameNode(m))'
                        /\ stack'[m].todo \subseteq stack'[m].siblings
                        /\ m < k + 1 => stack'[m].todo # {}
      OBVIOUS
    <3>1. CASE m \in 1 .. k
      BY <1>3, <1>5, <1>6, <2>1, <3>1
    <3>2. CASE m = k + 1
      BY <1>3, <1>5, <1>7, <2>3, <2>4, <3>2
    <3> QED BY <2>2, <3>1, <3>2
  <2> QED BY <1>3, <1>8, <2>4, <2>5 DEF Opened
<1>10. progress < Front'
  <2>1. First(S).left \in p.left .. p.right - 1
    <3>1. First(S) \in S
      BY <1>1, FirstLast
    <3> QED BY <1>0, <3>1, SiblingKeys
  <2>2. Front' = First(S).left
    <3>1. f.todo = S
      BY DEF f
    <3> QED BY <1>1, <1>8, <3>1 DEF Front
  <2>3. progress \in Nat /\ p.left \in Nat /\ progress < p.left
    <3>1. p.left \in 1 .. Len(keys) /\ progress \in 0 .. Len(keys)
      BY <1>0, ProperLive DEF Layout
    <3>2. CASE building = "root"
      BY <3>1, <3>2, SMT DEF Layout
    <3>3. CASE building = "children"
      <4>1. progress < Front /\ Front = p.left
        BY <3>3 DEF Layout, Growing, Front, Child
      <4> QED BY <3>1, <4>1, SMT
    <3> QED BY <3>2, <3>3
  <2> QED BY <2>1, <2>2, <2>3, SMT
<1>11. \A c \in DOMAIN check : c < size
  BY DEF Layout, Growing, Cells, Untouched
<1>12. \E owner : Laid(owner)' /\ DOMAIN owner = used
  <2>1. CASE building = "root"
    <3> DEFINE owner == [b \in {} |-> 0]
    <3>1. Claimed' = {} /\ DOMAIN check' = {} /\ used = {}
      <4>1. Claimed' = {} /\ k = 0
        BY <1>k, <1>4, <2>1, SMT
      <4> QED BY <2>1, <4>1 DEF Cells, Untouched
    <3>2. Laid(owner)'
      BY <3>1 DEF Laid
    <3> QED BY <3>1, <3>2
  <2>2. CASE building = "children"
    <3>1. PICK owner : Laid(owner) /\ DOMAIN owner = used
      BY <2>2 DEF Layout, Growing
    <3>2. Laid(owner)'
      BY <1>3, <1>4, <1>6, <3>1, LaidKept
    <3> QED BY <3>1, <3>2
  <2> QED BY <2>1, <2>2
<1> QED BY <1>2, <1>9, <1>10, <1>11, <1>12 DEF Layout, Growing, Running

\* taking a begin
LEMMA ClaimLayout ==
  ASSUME Cells, Begins, Layout, building = "search", Fits(Begin, Top.siblings), Claim(AllocAfterProbe)
  PROVE  Layout'
<1>k. PICK k : k = Len(stack)
  OBVIOUS
<1>b. PICK b : b = Begin
  OBVIOUS
<1>p. PICK p : p = FrameNode(k)
  OBVIOUS
<1>1. /\ KeysInv /\ stack \in Seq(Frames) /\ k \in Nat \ {0} /\ Top = stack[k]
      /\ b \in Nat \ {0} /\ b \notin used /\ used \subseteq Nat \ {0}
      /\ Opened /\ Taken /\ Growing /\ progress < Front
  BY <1>k, <1>b, TopType, PlaceType DEF Cells, Sized, Framed, Fits, Layout, Growing, Begins, Running, Taken, Top
<1>2. /\ Parent(p) /\ Top.siblings = Siblings(p) /\ Top.todo = Siblings(p)
  <2>1. k \in 1 .. Len(stack)
    BY <1>k, <1>1, SMT
  <2> QED BY <1>k, <1>p, <1>1, <2>1 DEF Opened
<1>c. PICK cells : cells = CellsFrom(b, Siblings(p))
  OBVIOUS
<1>3. /\ used' = used \union {b}
      /\ size' = Larger(size, b + Last(Siblings(p)).code + 1)
      /\ check' = [c \in DOMAIN check \union cells |-> IF c \in cells THEN b ELSE check[c]]
      /\ base' = [c \in DOMAIN base \union cells |-> IF c \in cells THEN 0 ELSE base[c]]
      /\ stack' = [stack EXCEPT ![k].begin = b]
      /\ building' = "children"
      /\ UNCHANGED <<keys, values, progress>>
      /\ cells \cap DOMAIN check = {}
  BY <1>k, <1>b, <1>c, <1>2 DEF Claim, Fits
<1>4. /\ Len(stack') = k
      /\ \A m \in 1 .. k : stack'[m].siblings = stack[m].siblings /\ stack'[m].todo = stack[m].todo
      /\ stack'[k].begin = b
      /\ \A m \in 1 .. k : m # k => stack'[m] = stack[m]
  <2>1. \A m \in 1 .. k : stack[m] \in Frames
    BY <1>k, <1>1, ElementType
  <2> QED BY <1>k, <1>1, <1>3, <2>1 DEF Frames
<1>5. Claimed' = 1 .. k /\ Claimed = { m \in 1 .. k : m < k }
  BY <1>k, <1>3, <1>4, Zenon DEF Claimed
<1>6. /\ Root' = Root
      /\ \A q : Siblings(q)' = Siblings(q) /\ (Parent(q)' <=> Parent(q))
  BY <1>3, SameTrie
<1>7. \A m \in 1 .. k : FrameNode(m)' = FrameNode(m)
  <2> SUFFICES ASSUME NEW m \in 1 .. k PROVE FrameNode(m)' = FrameNode(m)
    OBVIOUS
  <2>1. m # 1 => m - 1 \in 1 .. k
    BY <1>1, SMT
  <2> QED BY <1>4, <1>6, <2>1 DEF FrameNode
<1>8. Opened'
  <2>1. \A m \in 1 .. k :
          /\ Parent(FrameNode(m))'
          /\ stack'[m].siblings = Siblings(FrameNode(m))'
          /\ stack'[m].todo \subseteq stack'[m].siblings
          /\ m < k => stack'[m].todo # {}
    BY <1>k, <1>1, <1>4, <1>6, <1>7 DEF Opened
  <2> QED BY <1>3, <1>4, <2>1 DEF Opened
<1>9. progress' < Front'
  <2>1. k \in 1 .. k
    BY <1>1, SMT
  <2>2. Front' = Front
    BY <1>k, <1>4, <1>7, <2>1 DEF Front, Top
  <2> QED BY <1>1, <1>3, <2>2
<1>10. Siblings(p) \in (SUBSET Nodes) \ {{}}
  BY <1>1, <1>2, SiblingsExist DEF Parent
<1>11. \A c \in cells : \E s \in Siblings(p) : c = b + s.code
  BY <1>c DEF CellsFrom
<1>12. \A s \in Siblings(p) : b + s.code \in cells
  BY <1>c DEF CellsFrom
<1>13. \A c \in DOMAIN check' : c < size'
  <2>1. Last(Siblings(p)) \in Nodes /\ \A s \in Siblings(p) : s.code <= Last(Siblings(p)).code
    BY <1>10, FirstLast
  <2>2. Last(Siblings(p)).code \in Nat /\ size \in Nat /\ \A s \in Siblings(p) : s.code \in Nat
    BY <1>10, <2>1, CodeRange DEF Cells, Sized
  <2>3. b + Last(Siblings(p)).code + 1 \in Nat
    BY <1>1, <2>2, SMT
  <2>4. size' \in Nat /\ size' >= size /\ size' >= b + Last(Siblings(p)).code + 1
    BY <1>3, <2>2, <2>3, LargerType
  <2>5. \A c \in cells : c < size'
    BY <1>1, <1>11, <2>1, <2>2, <2>4, SMT
  <2>6. \A c \in DOMAIN check : c \in Int /\ c < size
    BY <1>1 DEF Layout, Cells, Written
  <2>7. \A c \in DOMAIN check : c < size'
    BY <2>2, <2>4, <2>6, SMT
  <2> QED BY <1>3, <2>5, <2>7
<1>14. 0 \notin cells
  <2>1. \A s \in Siblings(p) : b + s.code # 0
    <3>1. \A s \in Siblings(p) : s.code \in Nat
      BY <1>10, CodeRange
    <3> QED BY <1>1, <3>1, SMT
  <2> QED BY <1>11, <2>1
<1>15. DOMAIN base' = DOMAIN check' \union {0} /\ base'[0] = 1 /\ 0 \notin DOMAIN check'
  <2>1. base[0] = 1 /\ 0 \notin DOMAIN check /\ DOMAIN base = DOMAIN check \union {0}
    BY DEF Layout, Running
  <2> QED BY <1>3, <1>14, <2>1
<1>16. \E owner : Laid(owner)' /\ DOMAIN owner = used'
  <2>1. PICK old : Laid(old) /\ DOMAIN old = used
    BY <1>1 DEF Layout
  <2>2. PICK owner : owner = [d \in used \union {b} |-> IF d = b THEN p ELSE old[d]]
    OBVIOUS
  <2>3. DOMAIN owner = used' /\ owner[b] = p /\ (\A d \in used : d # b /\ d \in DOMAIN owner /\ owner[d] = old[d])
    BY <1>1, <1>3, <2>2
  <2>4. \A c \in DOMAIN check : /\ c \in DOMAIN check' /\ check'[c] = check[c]
                               /\ c \in DOMAIN base' /\ base'[c] = base[c]
    <3>1. \A c \in DOMAIN check : c \notin cells /\ c \in DOMAIN base
      BY <1>3 DEF Layout
    <3> QED BY <1>3, <3>1
  <2>5. \A s : LeafBase(s)' = LeafBase(s)
    BY <1>3 DEF LeafBase
  <2>6. \A d, s : Pending(d, s) => Pending(d, s)'
    <3>1. \A m \in Claimed : m \in Claimed' /\ stack'[m] = stack[m]
      <4>1. \A m \in Claimed : m \in 1 .. k /\ m # k
        BY <1>1, <1>5, SMT
      <4> QED BY <1>4, <1>5, <4>1
    <3> QED BY <3>1 DEF Pending
  <2>7. \A d \in used : \A s \in Siblings(owner[d]) : LaidCell(owner, d, s)'
    <3> SUFFICES ASSUME NEW d \in used, NEW s \in Siblings(old[d]) PROVE LaidCell(owner, d, s)'
      BY <2>3
    <3>1. LaidCell(old, d, s)
      BY <2>1 DEF Laid
    <3> QED BY <1>6, <2>1, <2>3, <2>4, <2>5, <2>6, <3>1 DEF LaidCell
  <2>8. \A s \in Siblings(p) : LaidCell(owner, b, s)'
    <3> SUFFICES ASSUME NEW s \in Siblings(p) PROVE LaidCell(owner, b, s)'
      OBVIOUS
    <3>1. /\ b + s.code \in DOMAIN check' /\ check'[b + s.code] = b /\ base'[b + s.code] = 0
      BY <1>3, <1>12
    <3>2. k \in Claimed' /\ s \in stack'[k].todo
      <4>1. k \in 1 .. k
        BY <1>1, SMT
      <4> QED BY <1>1, <1>2, <1>4, <1>5, <4>1
    <3>3. Pending(b, s)'
      BY <1>4, <3>2 DEF Pending
    <3> QED BY <3>1, <3>3 DEF LaidCell
  <2>9. \A d \in DOMAIN owner : d \in Nat \ {0} /\ Parent(owner[d])'
    BY <1>1, <1>2, <1>3, <1>6, <2>1, <2>3 DEF Laid
  <2>10. \A d \in DOMAIN owner : \A s \in Siblings(owner[d])' : LaidCell(owner, d, s)'
    BY <1>3, <1>6, <2>3, <2>7, <2>8
  <2>11. \A c \in DOMAIN check' :
           check'[c] \in DOMAIN owner /\ (\E s \in Siblings(owner[check[c]]) : c = check[c] + s.code)'
    <3> SUFFICES ASSUME NEW c \in DOMAIN check'
                 PROVE  check'[c] \in DOMAIN owner /\ \E s \in Siblings(owner[check'[c]]) : c = check'[c] + s.code
      <4>1. \A q : Siblings(q)' = Siblings(q)
        BY <1>6
      <4>2. \A c \in DOMAIN check' : Siblings(owner[check[c]])' = Siblings(owner[check'[c]])
        BY <4>1
      <4> QED BY <4>2
    <3>1. CASE c \in cells
      <4>1. check'[c] = b
        BY <1>3, <3>1
      <4> QED BY <1>3, <1>11, <2>3, <3>1, <4>1
    <3>2. CASE c \notin cells
      <4>1. c \in DOMAIN check /\ check'[c] = check[c]
        BY <1>3, <3>2
      <4> QED BY <1>3, <2>1, <2>3, <4>1 DEF Laid
    <3> QED BY <3>1, <3>2
  <2>12. \A m \in Claimed' : stack'[m].begin \in DOMAIN owner /\ owner[stack'[m].begin] = FrameNode(m)'
    <3> SUFFICES ASSUME NEW m \in 1 .. k
                 PROVE  stack'[m].begin \in DOMAIN owner /\ owner[stack'[m].begin] = FrameNode(m)
      BY <1>5, <1>7
    <3>1. CASE m = k
      BY <1>p, <1>3, <1>4, <2>3, <3>1
    <3>2. CASE m # k
      <4>1. m \in Claimed
        BY <1>1, <1>5, <3>2, SMT
      <4> QED BY <1>3, <1>4, <2>1, <2>3, <3>2, <4>1 DEF Laid
    <3> QED BY <3>1, <3>2
  <2>13. Laid(owner)'
    BY <2>9, <2>10, <2>11, <2>12 DEF Laid
  <2> QED BY <2>3, <2>13
<1>17. progress' \in 0 .. Len(keys')
  BY <1>3 DEF Layout
<1> QED BY <1>3, <1>8, <1>9, <1>13, <1>15, <1>16, <1>17 DEF Layout, Growing, Running

\* the base of the first sibling still to do is written, the calls above are done
LEMMA ChildLayout ==
  ASSUME Cells, Layout, Taken, building = "children", building' = "children",
         NEW k \in 1 .. Len(stack), NEW n, NEW v,
         stack[k].todo # {}, n = First(stack[k].todo),
         \A m \in k + 1 .. Len(stack) : stack[m].todo = {},
         Len(stack') = k,
         \A m \in 1 .. k : stack'[m].begin = stack[m].begin /\ stack'[m].siblings = stack[m].siblings,
         \A m \in 1 .. k : m # k => stack'[m].todo = stack[m].todo,
         stack'[k].todo = stack[k].todo \ {n},
         base' = [base EXCEPT ![stack[k].begin + n.code] = v],
         \A owner : Laid(owner) =>
           \/ Siblings(n) = {} /\ v = LeafBase(n) /\ v < 0
           \/ Siblings(n) # {} /\ v \in DOMAIN owner /\ owner[v] = n,
         progress' \in Nat, progress' < n.right,
         UNCHANGED <<keys, values, check, used, size>>
  PROVE  Layout'
<1>p. PICK p : p = FrameNode(k)
  OBVIOUS
<1>b. PICK b : b = stack[k].begin
  OBVIOUS
<1>1. /\ KeysInv /\ stack \in Seq(Frames) /\ Len(stack) \in Nat /\ k \in Nat \ {0} /\ Opened
      /\ Claimed = 1 .. Len(stack) /\ Claimed' = 1 .. k /\ k \in 1 .. k
      /\ \A m \in 1 .. k : m \in 1 .. Len(stack)
  BY SMT DEF Cells, Sized, Framed, Layout, Growing, Claimed
<1>2. /\ Parent(p) /\ stack[k].siblings = Siblings(p) /\ stack[k].todo \in SUBSET Siblings(p)
  BY <1>p, <1>1 DEF Opened
<1>3. /\ n \in stack[k].todo /\ n \in Nodes /\ n.right <= p.right /\ n.right \in Nat
      /\ p.right \in 1 .. Len(keys) + 1
      /\ stack[k].todo \ {n} # {} => First(stack[k].todo \ {n}).left >= n.right
  BY <1>1, <1>2, NextFront
<1>4. /\ Root' = Root
      /\ \A q : Siblings(q)' = Siblings(q) /\ (Parent(q)' <=> Parent(q))
  BY SameTrie
<1>5. \A m \in 1 .. k : FrameNode(m)' = FrameNode(m)
  <2> SUFFICES ASSUME NEW m \in 1 .. k PROVE FrameNode(m)' = FrameNode(m)
    OBVIOUS
  <2>1. m # 1 => m - 1 \in 1 .. k /\ m - 1 # k
    BY <1>1, SMT
  <2> QED BY <1>4, <2>1 DEF FrameNode
<1>6. Opened'
  <2>1. \A m \in 1 .. k : m < k => m # k /\ m < Len(stack)
    BY <1>1, SMT
  <2>2. \A m \in 1 .. k :
          /\ Parent(FrameNode(m))'
          /\ stack'[m].siblings = Siblings(FrameNode(m))'
          /\ stack'[m].todo \subseteq stack'[m].siblings
          /\ m < k => stack'[m].todo # {}
    <3> SUFFICES ASSUME NEW m \in 1 .. k
                 PROVE  /\ Parent(FrameNode(m))'
                        /\ stack'[m].siblings = Siblings(FrameNode(m))'
                        /\ stack'[m].todo \subseteq stack'[m].siblings
                        /\ m < k => stack'[m].todo # {}
      OBVIOUS
    <3>1. /\ Parent(FrameNode(m)) /\ stack[m].siblings = Siblings(FrameNode(m))
          /\ stack[m].todo \subseteq stack[m].siblings /\ (m < Len(stack) => stack[m].todo # {})
      BY <1>1 DEF Opened
    <3>2. stack'[m].todo \subseteq stack[m].todo
      OBVIOUS
    <3> QED BY <1>4, <1>5, <2>1, <3>1, <3>2
  <2> QED BY <2>2 DEF Opened
<1>7. progress' < Front' /\ progress' \in 0 .. Len(keys)
  <2>1. Top' = stack'[k]
    BY DEF Top
  <2>2. Front' = IF stack'[k].todo # {} THEN First(stack'[k].todo).left ELSE p.right
    <3>1. FrameNode(Len(stack))' = FrameNode(k)'
      OBVIOUS
    <3> QED BY <1>p, <1>1, <1>5, <2>1, <3>1 DEF Front
  <2>3. progress' < p.right
    BY <1>3, SMT
  <2>4. progress' \in 0 .. Len(keys)
    <3>1. Len(keys) \in Nat
      BY <1>1 DEF KeysInv
    <3> QED BY <1>3, <2>3, <3>1, SMT
  <2>5. CASE stack[k].todo \ {n} = {}
    BY <2>2, <2>3, <2>4, <2>5
  <2>6. CASE stack[k].todo \ {n} # {}
    <3> DEFINE t == First(stack[k].todo \ {n})
    <3>1. t \in Nodes
      <4>1. stack[k].todo \ {n} \in SUBSET Nodes
        BY <1>1, <1>2, SiblingsExist DEF Parent
      <4> QED BY <2>6, <4>1, FirstLast
    <3>2. t.left \in Nat /\ t.left >= n.right
      BY <1>3, <2>6, <3>1, SMT DEF Nodes
    <3>3. Front' = t.left
      BY <2>2, <2>6
    <3> HIDE DEF t
    <3>4. progress' < t.left
      BY <1>3, <3>2, SMT
    <3> QED BY <2>4, <3>3, <3>4
  <2> QED BY <2>5, <2>6
<1>8. PICK owner : Laid(owner) /\ DOMAIN owner = used
  BY DEF Layout, Growing
<1>9. b \in DOMAIN owner /\ b \in Nat /\ owner[b] = p /\ n \in Siblings(owner[b])
  BY <1>b, <1>p, <1>1, <1>2, <1>3, <1>8 DEF Laid
<1>10. b + n.code \in DOMAIN check /\ check[b + n.code] = b
  BY <1>8, <1>9 DEF Laid, LaidCell
<1>11. /\ DOMAIN base' = DOMAIN base /\ base'[b + n.code] = v
       /\ \A c \in DOMAIN base : c # b + n.code => base'[c] = base[c]
  <2>1. b + n.code \in DOMAIN base
    BY <1>10 DEF Layout
  <2> QED BY <1>b, <2>1
<1>12. \A s : LeafBase(s)' = LeafBase(s)
  BY DEF LeafBase
<1>13. ASSUME NEW d \in DOMAIN owner, NEW s \in Siblings(owner[d]) PROVE LaidCell(owner, d, s)'
  <2>1. LaidCell(owner, d, s)
    BY <1>8 DEF Laid
  <2>2. d + s.code \in DOMAIN base
    BY <2>1 DEF LaidCell, Layout
  <2>3. CASE d + s.code = b + n.code
    <3>1. d = b
      BY <1>10, <2>1, <2>3 DEF LaidCell
    <3>2. s.code \in Nat /\ n.code \in Nat
      <4>1. s \in Nodes
        BY <1>1, <1>2, <1>9, <3>1, SiblingsExist DEF Parent
      <4> QED BY <1>3, <4>1, CodeRange
    <3>3. s.code = n.code
      BY <1>9, <2>3, <3>1, <3>2, SMT
    <3>4. s = n
      BY <1>1, <1>2, <1>9, <3>1, <3>3, SiblingUnique DEF Parent
    <3> QED BY <1>4, <1>8, <1>10, <1>11, <1>12, <3>1, <3>4 DEF LaidCell
  <2>4. CASE d + s.code # b + n.code
    <3>1. base'[d + s.code] = base[d + s.code]
      BY <1>11, <2>2, <2>4
    <3>2. Pending(d, s) => Pending(d, s)'
      <4> SUFFICES ASSUME NEW m \in Claimed, stack[m].begin = d, s \in stack[m].todo
                   PROVE  Pending(d, s)'
        BY DEF Pending
      <4>1. m \in 1 .. k
        <5>1. m \in 1 .. Len(stack) /\ m \notin k + 1 .. Len(stack)
          BY <1>1
        <5> QED BY <1>1, <5>1, SMT
      <4>2. m \in Claimed' /\ stack'[m].begin = d
        BY <1>1, <4>1
      <4>3. s \in stack'[m].todo
        <5>1. CASE m # k
          BY <4>1, <5>1
        <5>2. CASE m = k
          <6>1. s # n
            BY <1>b, <2>4, <5>2
          <6> QED BY <5>2, <6>1
        <5> QED BY <5>1, <5>2
      <4> QED BY <4>2, <4>3 DEF Pending
    <3> QED BY <1>4, <1>12, <2>1, <3>1, <3>2 DEF LaidCell
  <2> QED BY <2>3, <2>4
<1>14. Laid(owner)'
  <2>1. \A d \in DOMAIN owner : d \in Nat \ {0} /\ Parent(owner[d])'
    BY <1>4, <1>8 DEF Laid
  <2>2. \A d \in DOMAIN owner : \A s \in Siblings(owner[d])' : LaidCell(owner, d, s)'
    BY <1>4, <1>13
  <2>3. \A c \in DOMAIN check' :
          check'[c] \in DOMAIN owner /\ (\E s \in Siblings(owner[check[c]]) : c = check[c] + s.code)'
    <3> SUFFICES ASSUME NEW c \in DOMAIN check
                 PROVE  check[c] \in DOMAIN owner /\ (\E s \in Siblings(owner[check[c]]) : c = check[c] + s.code)'
      OBVIOUS
    <3>1. check[c] \in DOMAIN owner /\ \E s \in Siblings(owner[check[c]]) : c = check[c] + s.code
      BY <1>8 DEF Laid
    <3>2. Siblings(owner[check[c]])' = Siblings(owner[check[c]])
      BY <1>4
    <3> QED BY <3>1, <3>2
  <2>4. \A m \in Claimed' : stack'[m].begin \in DOMAIN owner /\ owner[stack'[m].begin] = FrameNode(m)'
    <3> SUFFICES ASSUME NEW m \in 1 .. k
                 PROVE  stack[m].begin \in DOMAIN owner /\ owner[stack[m].begin] = FrameNode(m)
      BY <1>1, <1>5
    <3>1. m \in Claimed
      BY <1>1
    <3> QED BY <1>8, <3>1 DEF Laid
  <2> QED BY <2>1, <2>2, <2>3, <2>4 DEF Laid
<1>15. DOMAIN base' = DOMAIN check' \union {0} /\ base'[0] = 1 /\ 0 \notin DOMAIN check'
  <2>1. base[0] = 1 /\ 0 \notin DOMAIN check /\ DOMAIN base = DOMAIN check \union {0}
    BY DEF Layout, Running
  <2> QED BY <1>10, <1>11, <2>1
<1>16. \A c \in DOMAIN check' : c < size'
  BY DEF Layout, Growing
<1> QED BY <1>6, <1>7, <1>8, <1>14, <1>15, <1>16 DEF Layout, Growing

LEMMA LeafLayout ==
  ASSUME Cells, Begins, Layout, Leaf
  PROVE  Layout'
<1>k. PICK k : k = Len(stack)
  OBVIOUS
<1>n. PICK n : n = Child
  OBVIOUS
<1>1. /\ building = "children" /\ Top = stack[k] /\ Top.todo # {} /\ n = First(stack[k].todo)
      /\ Siblings(n) = {} /\ KeysInv /\ Opened /\ Taken /\ progress < Front
  BY <1>k, <1>n DEF Leaf, AtChild, Child, Top, Cells, Sized, Layout, Growing, Begins, Running
<1>2. /\ stack \in Seq(Frames) /\ k \in 1 .. k /\ k \in Nat \ {0} /\ \A m \in 1 .. k : stack[m] \in Frames
  <2>1. stack \in Seq(Frames) /\ stack # <<>>
    BY <1>1 DEF Cells, Framed
  <2> QED BY <1>k, <2>1, ElementType, SMT
<1>3. Parent(FrameNode(k)) /\ stack[k].todo \in SUBSET Siblings(FrameNode(k))
  BY <1>k, <1>1, <1>2 DEF Opened
<1>4. n \in Nodes /\ n.left < n.right /\ n.left \in 1 .. Len(keys) /\ n.right \in Nat
  BY <1>1, <1>3, NextFront
<1>5. progress \in 0 .. Len(keys) /\ progress < n.left
  BY <1>1, <1>n DEF Layout, Front, Child
<1>6. /\ base' = [base EXCEPT ![stack[k].begin + n.code] = LeafBase(n)]
      /\ stack' = [stack EXCEPT ![k].todo = @ \ {n}]
      /\ UNCHANGED <<keys, values, check, used, size>>
  BY <1>k, <1>n DEF Leaf, ChildDone, ChildCell, LeafBase, Top
<1>7. DOMAIN base' = DOMAIN base
  BY <1>6
<1>8. values[n.left] \in Int
  <2>1. n.left \in 1 .. Len(values) /\ values \in Seq(Int)
    BY <1>1, <1>4 DEF KeysInv
  <2> QED BY <2>1, ElementType, Zenon
<1>9. CASE values[n.left] < 0
  <2>1. building' = "error -2" /\ progress' = progress
    BY <1>n, <1>9 DEF Leaf, Failed
  <2> QED BY <1>6, <1>7, <2>1 DEF Layout, Growing, Running
<1>10. CASE ~ (values[n.left] < 0)
  <2>1. building' = "children" /\ progress' = progress + 1
    BY <1>1, <1>n, <1>10 DEF Leaf
  <2>2. LeafBase(n) < 0
    BY <1>8, <1>10, SMT DEF LeafBase
  <2>3. progress' \in Nat /\ progress' < n.right
    BY <1>4, <1>5, <2>1, SMT
  <2>4. /\ Len(stack') = k
        /\ \A m \in 1 .. k : stack'[m].begin = stack[m].begin /\ stack'[m].siblings = stack[m].siblings
        /\ \A m \in 1 .. k : m # k => stack'[m].todo = stack[m].todo
        /\ stack'[k].todo = stack[k].todo \ {n}
    BY <1>k, <1>2, <1>6 DEF Frames
  <2>5. \A m \in k + 1 .. Len(stack) : stack[m].todo = {}
    BY <1>k, <1>2, SMT
  <2> QED BY <1>k, <1>1, <1>2, <1>6, <2>1, <2>2, <2>3, <2>4, <2>5, ChildLayout, ZenonT(30)
<1> QED BY <1>9, <1>10

LEMMA ReturnLayout ==
  ASSUME Cells, Begins, Layout, Return
  PROVE  Layout'
<1>k. PICK k : k = Len(stack) - 1
  OBVIOUS
<1>n. PICK n : n = First(Caller.todo)
  OBVIOUS
<1>v. PICK v : v = Top.begin
  OBVIOUS
<1>1. /\ building = "children" /\ building' = "children" /\ Len(stack) > 1 /\ stack \in Seq(Frames)
      /\ Top.todo = {} /\ Caller = stack[k] /\ n = First(stack[k].todo)
      /\ KeysInv /\ Opened /\ Taken /\ progress < Front
      /\ base' = [base EXCEPT ![stack[k].begin + n.code] = v]
      /\ stack' = [SubSeq(stack, 1, k) EXCEPT ![k].todo = @ \ {n}]
      /\ UNCHANGED <<keys, values, check, used, size, progress>>
  BY <1>k, <1>n, <1>v DEF Return, Caller, Cells, Sized, Framed, Layout, Growing, Begins, Running
<1>r. PICK rest : rest = SubSeq(stack, 1, k)
  OBVIOUS
<1>2. /\ k \in Nat \ {0} /\ Len(stack) = k + 1 /\ k \in 1 .. k /\ k + 1 \in 1 .. Len(stack) /\ k < Len(stack)
      /\ k \in 1 .. Len(stack) /\ Top = stack[k + 1]
      /\ rest \in Seq(Frames) /\ Len(rest) = k /\ \A m \in 1 .. k : rest[m] = stack[m]
  <2>1. k \in Nat \ {0} /\ Len(stack) = k + 1
    BY <1>k, <1>1, SMT
  <2> QED BY <1>r, <1>1, <2>1, SMT DEF Top
<1>3. /\ stack[k].todo # {} /\ FrameNode(k + 1) = n /\ Parent(n)
  <2>1. k + 1 # 1 /\ (k + 1) - 1 = k
    BY <1>2, SMT
  <2> QED BY <1>1, <1>2, <2>1 DEF Opened, FrameNode
<1>4. /\ Len(stack') = k
      /\ \A m \in 1 .. k : stack'[m].begin = stack[m].begin /\ stack'[m].siblings = stack[m].siblings
      /\ \A m \in 1 .. k : m # k => stack'[m].todo = stack[m].todo
      /\ stack'[k].todo = stack[k].todo \ {n}
  <2>1. \A m \in 1 .. k : rest[m] \in Frames
    BY <1>2, ElementType
  <2>2. stack' = [rest EXCEPT ![k].todo = @ \ {n}]
    BY <1>r, <1>1
  <2> QED BY <1>2, <2>1, <2>2 DEF Frames
<1>5. \A m \in k + 1 .. Len(stack) : stack[m].todo = {}
  <2>1. \A m \in k + 1 .. Len(stack) : m = k + 1
    BY <1>2, SMT
  <2> QED BY <1>1, <1>2, <2>1
<1>6. Siblings(n) # {}
  BY <1>1, <1>3, SiblingsExist DEF Parent
<1>7. \A owner : Laid(owner) => v \in DOMAIN owner /\ owner[v] = n
  <2>1. k + 1 \in Claimed
    BY <1>1, <1>2 DEF Claimed
  <2> QED BY <1>v, <1>2, <1>3, <2>1 DEF Laid
<1>8. progress' \in Nat /\ progress' < n.right
  <2>1. Front = n.right
    BY <1>1, <1>2, <1>3 DEF Front
  <2>2. progress \in Nat
    BY SMT DEF Layout
  <2> QED BY <1>1, <2>1, <2>2
<1> QED BY <1>1, <1>2, <1>3, <1>4, <1>5, <1>6, <1>7, <1>8, ChildLayout, ZenonT(30)

LEMMA FinishLayout ==
  ASSUME Cells, Begins, Layout, Finish
  PROVE  Layout'
<1>1. /\ building = "children" /\ building' = "built" /\ Top.todo = {} /\ Len(stack) = 1
      /\ size' = size + MaxByte + 2 /\ stack' = <<>>
      /\ UNCHANGED <<keys, values, base, check, progress>>
      /\ Taken /\ size \in Nat
  BY DEF Finish, Begins, Running, Cells, Sized
<1>2. Claimed = {1} /\ Top = stack[1] /\ Claimed' = {} /\ FrameNode(1) = Root
  <2>1. 1 .. 1 = {1} /\ Len(<<>>) = 0 /\ 1 .. 0 = {}
    BY SMT
  <2> QED BY <1>1, <2>1 DEF Claimed, Top, FrameNode
<1>3. PICK owner : Laid(owner)
  BY <1>1 DEF Layout, Growing
<1>4. 1 \in DOMAIN owner /\ owner[1] = Root
  BY <1>2, <1>1, <1>3 DEF Laid, Taken
<1>5. /\ Root' = Root
      /\ \A q : Siblings(q)' = Siblings(q) /\ (Parent(q)' <=> Parent(q))
  BY <1>1, SameTrie
<1>6. \A b, s : ~ Pending(b, s)
  BY <1>1, <1>2 DEF Pending
<1>7. \A b, s : LaidCell(owner, b, s) => LaidCell(owner, b, s)'
  <2>1. \A s : LeafBase(s)' = LeafBase(s)
    BY <1>1 DEF LeafBase
  <2> QED BY <1>1, <1>5, <1>6, <2>1 DEF LaidCell
<1>8. Laid(owner)'
  BY <1>1, <1>2, <1>3, <1>5, <1>7, Zenon DEF Laid
<1>9. \A c \in DOMAIN check' : c + MaxByte + 2 < size'
  <2>1. \A c \in DOMAIN check : c \in Int /\ c < size
    BY <1>1 DEF Layout, Growing, Cells, Written
  <2> QED BY <1>1, <2>1, DoubleArrayAssumption, SMT
<1> QED BY <1>1, <1>4, <1>5, <1>8, <1>9 DEF Layout, Growing, Running

LEMMA LayoutKept ==
  ASSUME Layout, UNCHANGED <<keys, values, base, check, used, size, progress, stack, building>>
  PROVE  Layout'
<1>1. /\ Root' = Root
      /\ \A q : Siblings(q)' = Siblings(q) /\ (Parent(q)' <=> Parent(q))
  BY SameTrie
<1>2. /\ Claimed' = Claimed /\ \A m : FrameNode(m)' = FrameNode(m)
  BY <1>1 DEF Claimed, FrameNode
<1>3. \A owner : Laid(owner) => Laid(owner)'
  BY <1>2, LaidKept
<1>4. Opened => Opened'
  BY <1>1, <1>2 DEF Opened, Top
<1>5. Front' = Front
  BY <1>1 DEF Front, Top, FrameNode
<1> QED BY <1>1, <1>3, <1>4, <1>5 DEF Layout, Growing, Running

LEMMA LayoutInvariant ==
  ASSUME DoubleArrayInv, Layout, ArrayNext
  PROVE  Layout'
<1>0. Cells /\ Begins
  BY DEF DoubleArrayInv
<1>1. ASSUME BuildAny PROVE Layout'
  <2>1. PICK ks \in Seq(Seq(0 .. MaxByte)), vs \in Seq(Int) : Build(ks, vs)
    BY <1>1 DEF BuildAny
  <2>2. building = "idle" /\ building' = "root" /\ DOMAIN check = {} /\ progress' = 0
        /\ base' = [c \in {0} |-> 1] /\ check' = check /\ keys' = ks
    BY <1>0, <2>1 DEF Build, Cells, Untouched
  <2>3. progress' \in 0 .. Len(keys')
    BY <2>2, SMT
  <2> QED BY <2>2, <2>3 DEF Layout, Growing, Running
<1>2. ASSUME InsertRoot PROVE Layout'
  <2>1. building = "root" /\ KeysInv /\ stack = <<>> /\ progress = 0
    BY <1>0, <1>2 DEF InsertRoot, Cells, Sized, Untouched, Layout
  <2>2. CASE Unsorted(Root)
    <3>1. building' = "error -3" /\ UNCHANGED <<keys, base, check, progress>>
      BY <1>2, <2>2, Zenon DEF InsertRoot, Enter, Failed
    <3> QED BY <2>1, <3>1 DEF Layout, Growing, Running
  <2>3. CASE ~ Unsorted(Root)
    <3>1. Call(Siblings(Root))
          /\ UNCHANGED <<keys, values, base, check, used, size, next_check_pos, progress>>
      BY <1>2, <2>3, Zenon DEF InsertRoot, Enter
    <3>2. Parent(Root)
      BY <2>1, <2>3, RootProper DEF Parent
    <3>p. PICK p : p = Root
      OBVIOUS
    <3> QED BY <1>0, <2>1, <3>1, <3>2, <3>p, CallLayout, Zenon
  <2> QED BY <2>2, <2>3
<1>3. ASSUME ProbeOccupied PROVE Layout'
  <2>1. UNCHANGED <<keys, values, base, check, used, size, progress, stack, building>>
    BY <1>3 DEF ProbeOccupied
  <2> QED BY <2>1, LayoutKept
<1>4. ASSUME ProbeFree PROVE Layout'
  <2>1. building = "search"
    BY <1>4 DEF ProbeFree
  <2>2. CASE Fits(Begin, Top.siblings)
    <3>1. Claim(AllocAfterProbe)
      BY <1>4, <2>2, Zenon DEF ProbeFree
    <3> QED BY <1>0, <2>1, <2>2, <3>1, ClaimLayout
  <2>3. CASE ~ Fits(Begin, Top.siblings)
    <3>1. UNCHANGED <<keys, values, base, check, used, size, progress, stack, building>>
      BY <1>4, <2>3, Zenon DEF ProbeFree
    <3> QED BY <3>1, LayoutKept
  <2> QED BY <2>2, <2>3
<1>5. ASSUME GrowWithoutProgress PROVE Layout'
  <2>1. building = "search" /\ building' = "undefined" /\ UNCHANGED <<keys, base, check, progress>>
    BY <1>5 DEF GrowWithoutProgress
  <2> QED BY <2>1 DEF Layout, Growing, Running
<1>6. ASSUME Descend PROVE Layout'
  <2>1. building = "children" /\ Siblings(Child) # {} /\ KeysInv /\ stack \in Seq(Frames) /\ stack # <<>>
        /\ Top.todo # {} /\ Opened
    BY <1>0, <1>6 DEF Descend, AtChild, Cells, Sized, Framed, Layout, Growing
  <2>2. CASE Unsorted(Child)
    <3>1. building' = "error -3" /\ UNCHANGED <<keys, base, check, progress>>
      BY <1>6, <2>2, Zenon DEF Descend, Enter, Failed
    <3> QED BY <2>1, <3>1 DEF Layout, Growing, Running
  <2>3. CASE ~ Unsorted(Child)
    <3>1. Call(Siblings(Child))
          /\ UNCHANGED <<keys, values, base, check, used, size, next_check_pos, progress>>
      BY <1>6, <2>3, Zenon DEF Descend, Enter
    <3>2. Parent(FrameNode(Len(stack))) /\ Top.todo \in SUBSET Siblings(FrameNode(Len(stack)))
      <4>1. Len(stack) \in 1 .. Len(stack)
        BY <2>1, SMT
      <4> QED BY <2>1, <4>1 DEF Opened, Top
    <3>3. Child \in Siblings(FrameNode(Len(stack)))
      BY <2>1, <3>2, NextFront DEF Child
    <3>4. Proper(Child)
      BY <2>1, <3>2, <3>3, SiblingKind
    <3>5. Parent(Child)
      BY <2>3, <3>4 DEF Parent
    <3>p. PICK p : p = Child
      OBVIOUS
    <3> QED BY <1>0, <2>1, <3>1, <3>5, <3>p, CallLayout
  <2> QED BY <2>2, <2>3
<1> QED BY <1>0, <1>1, <1>2, <1>3, <1>4, <1>5, <1>6, LeafLayout, ReturnLayout, FinishLayout DEF ArrayNext, BuildStep

-----------------------------------------------------------------------------
(* The searches in an array that was built *)

IsWalk(walk, text, len) ==
  walk = [i \in 0 .. len |-> IF i = 0 THEN Base(0) ELSE Step(walk[i - 1], text[i])]

LEMMA WalkExists ==
  ASSUME NEW text, NEW len \in Nat
  PROVE  \E walk : IsWalk(walk, text, len)
<1> DEFINE S == { n \in Nat : \E walk : IsWalk(walk, text, n) }
<1>1. 0 \in S
  <2> DEFINE g == [i \in {0} |-> Base(0)]
  <2>1. IsWalk(g, text, 0)
    BY SMT DEF IsWalk
  <2> QED BY <2>1
<1>2. ASSUME NEW n \in Nat, n \in S PROVE n + 1 \in S
  <2>1. PICK g : IsWalk(g, text, n)
    BY <1>2
  <2> DEFINE h == [i \in 0 .. n + 1 |-> IF i = n + 1 THEN Step(g[n], text[n + 1]) ELSE g[i]]
  <2>2. IsWalk(h, text, n + 1)
    BY <2>1, SMT DEF IsWalk
  <2> QED BY <2>2
<1>3. Nat \subseteq S
  <2> HIDE DEF S
  <2> QED BY <1>1, <1>2, NatSetInduction
<1> QED BY <1>3

LEMMA WalkSteps ==
  ASSUME NEW text, NEW len \in Nat
  PROVE  /\ Walk(text, len)[0] = Base(0)
         /\ \A i \in 0 .. len - 1 : Walk(text, len)[i + 1] = Step(Walk(text, len)[i], text[i + 1])
<1>1. Walk(text, len) = CHOOSE walk : IsWalk(walk, text, len)
  BY Zenon DEF Walk, IsWalk
<1>2. IsWalk(Walk(text, len), text, len)
  BY <1>1, WalkExists, Zenon
<1>3. PICK g : g = Walk(text, len)
  OBVIOUS
<1>4. g = [i \in 0 .. len |-> IF i = 0 THEN Base(0) ELSE Step(g[i - 1], text[i])]
  BY <1>2, <1>3 DEF IsWalk
<1>5. g[0] = Base(0)
  <2>1. 0 \in 0 .. len
    BY SMT
  <2> QED BY <1>4, <2>1
<1>6. ASSUME NEW i \in 0 .. len - 1 PROVE g[i + 1] = Step(g[i], text[i + 1])
  <2>1. i + 1 \in 0 .. len /\ i + 1 # 0 /\ (i + 1) - 1 = i
    BY SMT
  <2> QED BY <1>4, <2>1
<1> QED BY <1>3, <1>5, <1>6

HasPrefix(k, text, n) == Len(keys[k]) >= n /\ \A j \in 1 .. n : keys[k][j] = text[j]

\* the base that the first n bytes of text lead to: the begin of the node that
\* has exactly the keys with this prefix, or 0 if there are none
Reached(owner, text, b, n) ==
  \/ b = 0 /\ \A k \in 1 .. Len(keys) : ~ HasPrefix(k, text, n)
  \/ /\ b \in DOMAIN owner /\ owner[b].depth = n
     /\ \A k \in 1 .. Len(keys) : k \in owner[b].left .. owner[b].right - 1 <=> HasPrefix(k, text, n)

SearchContext(owner) ==
  /\ KeysInv /\ building = "built" /\ DOMAIN base = DOMAIN check \union {0} /\ Laid(owner)
  /\ 1 \in DOMAIN owner /\ owner[1] = Root
  /\ base[0] = 1 /\ \A b, s : ~ Pending(b, s)

LEMMA BuiltContext ==
  ASSUME DoubleArrayInv, Layout, building = "built", stack = <<>>
  PROVE  \E owner : SearchContext(owner)
<1>1. PICK owner : Laid(owner) /\ 1 \in DOMAIN owner /\ owner[1] = Root
  BY DEF Layout
<1>2. KeysInv /\ DOMAIN base = DOMAIN check \union {0} /\ base[0] = 1
  BY DEF DoubleArrayInv, Cells, Sized, Layout
<1>3. Claimed = {}
  <2>1. 1 .. Len(<<>>) = {}
    BY SMT
  <2> QED BY <2>1 DEF Claimed
<1> QED BY <1>1, <1>2, <1>3 DEF SearchContext, Pending

LEMMA KeyType ==
  ASSUME KeysInv, NEW k \in 1 .. Len(keys)
  PROVE  keys[k] \in Seq(0 .. MaxByte) /\ Len(keys[k]) \in Nat
<1>1. keys[k] \in Seq(0 .. MaxByte)
  BY ElementType, Zenon DEF KeysInv
<1> QED BY <1>1

LEMMA StepReached ==
  ASSUME NEW owner, SearchContext(owner),
         NEW text, NEW n \in Nat, text[n + 1] \in 0 .. MaxByte,
         NEW b, Reached(owner, text, b, n)
  PROVE  Reached(owner, text, Step(b, text[n + 1]), n + 1)
<1>1. \A k \in 1 .. Len(keys) :
        HasPrefix(k, text, n + 1) <=>
          HasPrefix(k, text, n) /\ Len(keys[k]) # n /\ keys[k][n + 1] = text[n + 1]
  <2> SUFFICES ASSUME NEW k \in 1 .. Len(keys)
               PROVE  HasPrefix(k, text, n + 1) <=>
                        HasPrefix(k, text, n) /\ Len(keys[k]) # n /\ keys[k][n + 1] = text[n + 1]
    OBVIOUS
  <2>1. Len(keys[k]) \in Nat
    BY KeyType DEF SearchContext
  <2>2. \A j : j \in 1 .. n + 1 <=> j \in 1 .. n \/ j = n + 1
    BY SMT
  <2>3. Len(keys[k]) >= n + 1 <=> Len(keys[k]) >= n /\ Len(keys[k]) # n
    BY <2>1, SMT
  <2> QED BY <2>2, <2>3 DEF HasPrefix
<1>2. CASE b = 0 /\ \A k \in 1 .. Len(keys) : ~ HasPrefix(k, text, n)
  BY <1>1, <1>2 DEF Reached, Step
<1>3. CASE /\ b \in DOMAIN owner /\ owner[b].depth = n
           /\ \A k \in 1 .. Len(keys) : k \in owner[b].left .. owner[b].right - 1 <=> HasPrefix(k, text, n)
  <2>p. PICK p : p = owner[b]
    OBVIOUS
  <2>c. PICK c : c = CellOf(b, text[n + 1])
    OBVIOUS
  <2>1. /\ KeysInv /\ Parent(p) /\ Proper(p) /\ b \in Nat \ {0} /\ p.depth = n
        /\ Live(p) = p.left .. p.right - 1 /\ Live(p) \subseteq 1 .. Len(keys)
        /\ Siblings(p) \in SUBSET Nodes
        /\ p.left \in 1 .. Len(keys) /\ p.right \in 1 .. Len(keys) + 1 /\ Len(keys) \in Nat
    <3>1. KeysInv /\ Parent(p) /\ Proper(p) /\ b \in Nat \ {0} /\ p.depth = n
      BY <1>3, <2>p DEF SearchContext, Laid, Parent
    <3>2. Len(keys) \in Nat
      BY <3>1 DEF KeysInv
    <3> QED BY <3>1, <3>2, ProperLive, SiblingsExist
  <2>2. /\ c = b + (text[n + 1] + 1) /\ c # 0 /\ text[n + 1] \in Nat /\ text[n + 1] + 1 \in Nat \ {0}
    <3>1. PICK byte \in Nat : byte = text[n + 1]
      BY SMT
    <3>2. c = b + byte + 1
      BY <2>c, <3>1 DEF CellOf
    <3>3. b \in Nat
      BY <2>1
    <3>4. c = b + (byte + 1) /\ c # 0 /\ byte + 1 \in Nat \ {0}
      BY <3>2, <3>3, SMT
    <3> QED BY <3>1, <3>4
  <2>3. \A k \in 1 .. Len(keys) :
          HasPrefix(k, text, n + 1) <=> k \in p.left .. p.right - 1 /\ Code(k, p) = text[n + 1] + 1
    <3> SUFFICES ASSUME NEW k \in 1 .. Len(keys), k \in p.left .. p.right - 1
                 PROVE  (Len(keys[k]) # n /\ keys[k][n + 1] = text[n + 1]) <=> Code(k, p) = text[n + 1] + 1
      BY <1>1, <1>3, <2>p
    <3>1. CASE Len(keys[k]) = n
      BY <2>1, <2>2, <3>1 DEF Code
    <3>2. CASE Len(keys[k]) # n
      <4>1. Len(keys[k]) >= n /\ Len(keys[k]) \in Nat /\ keys[k] \in Seq(0 .. MaxByte)
        BY <2>1, KeyType DEF Proper
      <4>2. n + 1 \in 1 .. Len(keys[k])
        BY <3>2, <4>1, SMT
      <4>3. keys[k][n + 1] \in 0 .. MaxByte
        BY <4>1, <4>2, ElementType, Zenon
      <4>4. Code(k, p) = keys[k][n + 1] + 1
        BY <2>1, <3>2 DEF Code
      <4> QED BY <2>2, <3>2, <4>3, <4>4, SMTT(30)
    <3> QED BY <3>1, <3>2
  <2>4. CASE Check(c) = b
    <3>1. c \in DOMAIN check /\ check[c] = b
      BY <2>1, <2>4 DEF Check
    <3>2. PICK s \in Siblings(p) : c = b + s.code
      BY <2>p, <3>1 DEF SearchContext, Laid
    <3>3. s.code \in Nat
      BY <2>1, <3>2, CodeRange
    <3>4. s.code = text[n + 1] + 1 /\ s.code # 0
      BY <2>1, <2>2, <3>2, <3>3, SMTT(30)
    <3>5. Siblings(s) # {} /\ Proper(s)
      BY <2>1, <3>2, <3>4, SiblingKind
    <3>6. LaidCell(owner, b, s)
      BY <1>3, <2>p, <3>2 DEF SearchContext, Laid
    <3>7. base[c] \in DOMAIN owner /\ owner[base[c]] = s
      BY <3>2, <3>5, <3>6 DEF LaidCell, SearchContext
    <3>8. Step(b, text[n + 1]) = base[c]
      BY <2>1, <2>4, <2>c, <3>1 DEF Step, Base, SearchContext
    <3>9. /\ s.depth = n + 1 /\ s.left \in p.left .. p.right - 1 /\ s.right \in s.left + 1 .. p.right
          /\ \A k \in p.left .. p.right - 1 : k \in s.left .. s.right - 1 <=> Code(k, p) = s.code
      BY <2>1, <3>2, SiblingKeys
    <3>10. \A k \in s.left .. s.right - 1 : k \in p.left .. p.right - 1
      BY <2>1, <3>9, SMTT(30)
    <3>11. \A k \in 1 .. Len(keys) : k \in s.left .. s.right - 1 <=> HasPrefix(k, text, n + 1)
      BY <2>3, <3>4, <3>9, <3>10
    <3> QED BY <3>7, <3>8, <3>9, <3>11 DEF Reached
  <2>5. CASE Check(c) # b
    <3>1. Step(b, text[n + 1]) = 0
      BY <2>5, <2>c DEF Step
    <3>2. ASSUME NEW k \in 1 .. Len(keys), HasPrefix(k, text, n + 1) PROVE FALSE
      <4>1. k \in Live(p) /\ Code(k, p) = text[n + 1] + 1
        BY <2>1, <2>3, <3>2
      <4>2. PICK s \in Siblings(p) : s.code = text[n + 1] + 1
        BY <2>1, <4>1, SiblingOfCode
      <4>3. LaidCell(owner, b, s)
        BY <1>3, <2>p, <4>2 DEF SearchContext, Laid
      <4> QED BY <2>2, <2>5, <4>2, <4>3 DEF LaidCell, Check
    <3> QED BY <3>1, <3>2 DEF Reached
  <2> QED BY <2>4, <2>5
<1> QED BY <1>2, <1>3 DEF Reached

LEMMA WalkReached ==
  ASSUME NEW owner, SearchContext(owner), NEW text \in Seq(0 .. MaxByte), NEW n \in 0 .. Len(text)
  PROVE  Reached(owner, text, Walk(text, Len(text))[n], n)
<1>w. PICK walk : walk = Walk(text, Len(text))
  OBVIOUS
<1> DEFINE S == { i \in Nat : i <= Len(text) => Reached(owner, text, walk[i], i) }
<1>0. Len(text) \in Nat
  OBVIOUS
<1>1. 0 \in S
  <2>1. walk[0] = 1
    BY <1>w, <1>0, WalkSteps DEF Base, SearchContext
  <2>2. \A k \in 1 .. Len(keys) : HasPrefix(k, text, 0)
    <3> SUFFICES ASSUME NEW k \in 1 .. Len(keys) PROVE Len(keys[k]) >= 0
      BY SMT DEF HasPrefix
    <3>1. Len(keys[k]) \in Nat
      BY KeyType DEF SearchContext
    <3> QED BY <3>1, SMT
  <2>3. Root.left = 1 /\ Root.right - 1 = Len(keys) /\ Root.depth = 0
    BY SMT DEF Root, SearchContext, KeysInv
  <2> QED BY <2>1, <2>2, <2>3 DEF Reached, SearchContext
<1>2. ASSUME NEW i \in Nat, i \in S PROVE i + 1 \in S
  <2> SUFFICES ASSUME i + 1 <= Len(text) PROVE Reached(owner, text, walk[i + 1], i + 1)
    BY SMT
  <2>1. i <= Len(text) /\ i \in 0 .. Len(text) - 1 /\ i + 1 \in 1 .. Len(text)
    BY <1>0, SMT
  <2>2. text[i + 1] \in 0 .. MaxByte
    BY <2>1, ElementType, Zenon
  <2>3. Reached(owner, text, walk[i], i)
    BY <1>2, <2>1
  <2>4. walk[i + 1] = Step(walk[i], text[i + 1])
    BY <1>w, <1>0, <2>1, WalkSteps
  <2> QED BY <2>2, <2>3, <2>4, StepReached
<1>3. Nat \subseteq S
  <2> HIDE DEF S
  <2> QED BY <1>1, <1>2, NatSetInduction
<1>4. n \in Nat /\ n <= Len(text)
  BY <1>0, SMT
<1>5. n \in S
  BY <1>3, <1>4
<1> QED BY <1>w, <1>4, <1>5

\* at the end of a prefix there is a leaf if and only if the prefix is a key
LEMMA EndReached ==
  ASSUME NEW owner, SearchContext(owner), NEW text, NEW n \in Nat, NEW b, Reached(owner, text, b, n)
  PROVE  /\ IsEnd(b) <=> \E k \in 1 .. Len(keys) : Len(keys[k]) = n /\ HasPrefix(k, text, n)
         /\ IsEnd(b) =>
              \E k \in 1 .. Len(keys) :
                /\ Len(keys[k]) = n /\ HasPrefix(k, text, n)
                /\ \A j \in 1 .. Len(keys) : Len(keys[j]) = n /\ HasPrefix(j, text, n) => k <= j
                /\ - Base(b) - 1 = values[k] /\ values[k] \in Nat
<1>1. CASE b = 0 /\ \A k \in 1 .. Len(keys) : ~ HasPrefix(k, text, n)
  BY <1>1 DEF IsEnd
<1>2. CASE /\ b \in DOMAIN owner /\ owner[b].depth = n
           /\ \A k \in 1 .. Len(keys) : k \in owner[b].left .. owner[b].right - 1 <=> HasPrefix(k, text, n)
  <2>p. PICK p : p = owner[b]
    OBVIOUS
  <2>1. /\ KeysInv /\ Parent(p) /\ Proper(p) /\ b \in Nat \ {0} /\ p.depth = n
        /\ Live(p) = p.left .. p.right - 1 /\ Live(p) \subseteq 1 .. Len(keys)
        /\ Siblings(p) \in SUBSET Nodes
    BY <1>2, <2>p, ProperLive, SiblingsExist DEF SearchContext, Laid, Parent
  <2>2. ASSUME NEW k \in 1 .. Len(keys), Len(keys[k]) = n, HasPrefix(k, text, n) PROVE IsEnd(b)
    <3>1. k \in Live(p) /\ Code(k, p) = 0
      BY <1>2, <2>p, <2>1, <2>2 DEF Code
    <3>2. PICK s \in Siblings(p) : s.code = 0
      BY <2>1, <3>1, SiblingOfCode
    <3>3. LaidCell(owner, b, s) /\ Siblings(s) = {}
      BY <1>2, <2>p, <2>1, <3>2, SiblingKind DEF SearchContext, Laid
    <3>4. b + s.code = b
      BY <2>1, <3>2, SMT
    <3>5. b \in DOMAIN check /\ check[b] = b /\ base[b] < 0 /\ b \in DOMAIN base
      BY <3>3, <3>4 DEF LaidCell, SearchContext
    <3> QED BY <2>1, <3>5 DEF IsEnd, Check, Base
  <2>3. ASSUME IsEnd(b)
        PROVE  \E k \in 1 .. Len(keys) :
                 /\ Len(keys[k]) = n /\ HasPrefix(k, text, n)
                 /\ \A j \in 1 .. Len(keys) : Len(keys[j]) = n /\ HasPrefix(j, text, n) => k <= j
                 /\ - Base(b) - 1 = values[k] /\ values[k] \in Nat
    <3>1. b \in DOMAIN check /\ check[b] = b /\ b \in DOMAIN base
      BY <2>1, <2>3 DEF IsEnd, Check, SearchContext
    <3>2. PICK s \in Siblings(p) : b = b + s.code
      BY <2>p, <3>1 DEF SearchContext, Laid
    <3>3. s.code = 0
      <4>1. s.code \in Nat
        BY <2>1, <3>2, CodeRange
      <4> QED BY <2>1, <3>2, <4>1, SMT
    <3>4. LaidCell(owner, b, s) /\ Siblings(s) = {} /\ Len(keys[s.left]) = n
      BY <1>2, <2>p, <2>1, <3>2, <3>3, SiblingKind DEF SearchContext, Laid
    <3>5. base[b] = LeafBase(s)
      BY <3>2, <3>4 DEF LaidCell, SearchContext
    <3>6. s.left \in Live(p) /\ (\A k \in p.left .. p.right - 1 : Code(k, p) = s.code => s.left <= k)
      BY <2>1, <3>2, SiblingKeys
    <3>7. HasPrefix(s.left, text, n) /\ s.left \in 1 .. Len(keys)
      BY <1>2, <2>p, <2>1, <3>6
    <3>8. \A j \in 1 .. Len(keys) : Len(keys[j]) = n /\ HasPrefix(j, text, n) => s.left <= j
      BY <1>2, <2>p, <2>1, <3>3, <3>6 DEF Code
    <3>9. values[s.left] \in Int
      <4>1. s.left \in 1 .. Len(values) /\ values \in Seq(Int)
        BY <2>1, <3>7 DEF KeysInv
      <4> QED BY <4>1, ElementType, Zenon
    <3>10. - Base(b) - 1 = values[s.left] /\ values[s.left] \in Nat
      <4>1. Base(b) < 0 /\ Base(b) = - values[s.left] - 1
        BY <2>3, <3>1, <3>5 DEF IsEnd, Base, LeafBase
      <4> QED BY <3>9, <4>1, SMT
    <3> QED BY <3>4, <3>7, <3>8, <3>10
  <2> QED BY <2>2, <2>3
<1> QED BY <1>1, <1>2 DEF Reached

\* the cells that a search reads
LEMMA ReadsInside ==
  ASSUME NEW owner, SearchContext(owner), NEW text \in Seq(0 .. MaxByte),
         size \in Nat, \A c \in DOMAIN check : c + MaxByte + 2 < size
  PROVE  CellsRead(text) \subseteq 0 .. size - 1
<1>w. PICK walk : walk = Walk(text, Len(text))
  OBVIOUS
<1>0. Len(text) \in Nat
  OBVIOUS
<1>1. ASSUME NEW b \in DOMAIN owner PROVE b \in Nat /\ b + MaxByte + 2 < size
  <2>1. /\ b \in Nat /\ Proper(owner[b]) /\ KeysInv
    BY DEF SearchContext, Laid, Parent
  <2>2. PICK s \in Siblings(owner[b]) : s \in Nodes
    BY <2>1, SiblingsExist
  <2>3. s.code \in Nat
    BY <2>2, CodeRange
  <2>4. b + s.code + MaxByte + 2 < size
    BY <2>2 DEF SearchContext, Laid, LaidCell
  <2> QED BY <2>1, <2>3, <2>4, DoubleArrayAssumption, SMT
<1>2. ASSUME NEW i \in 0 .. Len(text) PROVE walk[i] = 0 \/ walk[i] \in DOMAIN owner
  <2>1. Reached(owner, text, walk[i], i)
    BY <1>w, WalkReached
  <2> QED BY <2>1 DEF Reached
<1>3. 0 < size
  <2>1. 1 \in DOMAIN owner
    BY DEF SearchContext
  <2> QED BY <1>1, <2>1, DoubleArrayAssumption, SMT
<1>4. ASSUME NEW i \in 0 .. Len(text) PROVE walk[i] \in 0 .. size - 1
  BY <1>1, <1>2, <1>3, DoubleArrayAssumption, SMT
<1>5. ASSUME NEW i \in 1 .. Len(text), walk[i - 1] # 0 PROVE CellOf(walk[i - 1], text[i]) \in 0 .. size - 1
  <2>1. i - 1 \in 0 .. Len(text)
    BY <1>0, SMT
  <2>2. walk[i - 1] \in DOMAIN owner
    BY <1>2, <1>5, <2>1
  <2>3. walk[i - 1] \in Nat /\ walk[i - 1] + MaxByte + 2 < size
    BY <1>1, <2>2
  <2>4. text[i] \in 0 .. MaxByte
    BY ElementType, Zenon
  <2>5. PICK b \in Nat, byte \in 0 .. MaxByte : b = walk[i - 1] /\ byte = text[i]
    BY <2>3, <2>4
  <2>6. b + byte + 1 \in 0 .. size - 1
    <3>1. b + MaxByte + 2 < size
      BY <2>3, <2>5
    <3> QED BY <3>1, DoubleArrayAssumption, SMT
  <2> QED BY <2>5, <2>6 DEF CellOf
<1>6. 0 \in 0 .. size - 1
  BY <1>3, SMT
<1> QED BY <1>w, <1>4, <1>5, <1>6 DEF CellsRead

LEMMA SubSeqKeeps ==
  ASSUME NEW S, NEW s \in Seq(S), NEW n \in Nat, n <= Len(s)
  PROVE  /\ SubSeq(s, 1, n) \in Seq(S) /\ Len(SubSeq(s, 1, n)) = n
         /\ \A j \in 1 .. n : SubSeq(s, 1, n)[j] = s[j]
OBVIOUS

LEMMA KeyIsPrefix ==
  ASSUME KeysInv, NEW text \in Seq(0 .. MaxByte), NEW n \in 0 .. Len(text), NEW k \in 1 .. Len(keys)
  PROVE  keys[k] = SubSeq(text, 1, n) <=> Len(keys[k]) = n /\ HasPrefix(k, text, n)
<1>1. PICK key \in Seq(0 .. MaxByte) : key = keys[k]
  BY KeyType
<1>2. n \in Nat /\ n <= Len(text) /\ Len(key) \in Nat /\ Len(text) \in Nat
  BY SMT
<1>3. /\ SubSeq(text, 1, n) \in Seq(0 .. MaxByte) /\ Len(SubSeq(text, 1, n)) = n
      /\ \A j \in 1 .. n : SubSeq(text, 1, n)[j] = text[j]
  BY <1>2, SubSeqKeeps
<1>4. PICK pre : pre = SubSeq(text, 1, n)
  OBVIOUS
<1>5. ASSUME Len(key) = n, \A j \in 1 .. n : key[j] = pre[j] PROVE key = pre
  BY <1>3, <1>4, <1>5, SMT
<1>6. HasPrefix(k, text, n) <=> Len(key) >= n /\ \A j \in 1 .. n : key[j] = text[j]
  BY <1>1 DEF HasPrefix
<1>7. Len(key) = n => Len(key) >= n
  BY <1>2, SMT
<1> QED BY <1>1, <1>3, <1>4, <1>5, <1>6, <1>7

\* the keys that are the first n bytes of text
Same(text, n) == { k \in 1 .. Len(keys) : keys[k] = SubSeq(text, 1, n) }

\* what a search answers for a key that is there: the value of the first that is the same
ValueOf(k, ks, v) == k \in ks /\ (\A j \in ks : k <= j) /\ v = values[k] /\ v \in Nat

\* Both searches find exactly the prefixes of a text, or the text, that are keys,
\* and for each of them its value.
SearchesFindKeys ==
  building = "built" =>
    \A text \in Seq(0 .. MaxByte) :
      LET found == CommonPrefixSearch(text, Len(text))
      IN /\ DOMAIN found = { n \in 0 .. Len(text) : Same(text, n) # {} }
         /\ \A n \in DOMAIN found : \E k : ValueOf(k, Same(text, n), found[n])
         /\ \/ Same(text, Len(text)) = {} /\ ExactMatchSearch(text) = -1
            \/ \E k : ValueOf(k, Same(text, Len(text)), ExactMatchSearch(text))

\* No search of an array that was built reads outside of it.
SearchesReadInside ==
  building = "built" => \A text \in Seq(0 .. MaxByte) : CellsRead(text) \subseteq 0 .. size - 1

LEMMA ContextFindsKeys ==
  ASSUME NEW owner, SearchContext(owner)
  PROVE  SearchesFindKeys
<1> SUFFICES ASSUME NEW text \in Seq(0 .. MaxByte)
             PROVE  LET found == CommonPrefixSearch(text, Len(text))
                    IN /\ DOMAIN found = { n \in 0 .. Len(text) : Same(text, n) # {} }
                       /\ \A n \in DOMAIN found : \E k : ValueOf(k, Same(text, n), found[n])
                       /\ \/ Same(text, Len(text)) = {} /\ ExactMatchSearch(text) = -1
                          \/ \E k : ValueOf(k, Same(text, Len(text)), ExactMatchSearch(text))
  BY DEF SearchesFindKeys
<1>w. PICK walk : walk = Walk(text, Len(text))
  OBVIOUS
<1>0. Len(text) \in Nat /\ KeysInv /\ Len(text) \in 0 .. Len(text)
  BY SMT DEF SearchContext
<1>1. ASSUME NEW n \in 0 .. Len(text)
      PROVE  /\ IsEnd(walk[n]) <=> Same(text, n) # {}
             /\ IsEnd(walk[n]) => \E k : ValueOf(k, Same(text, n), - Base(walk[n]) - 1)
  <2>1. n \in Nat /\ Reached(owner, text, walk[n], n)
    BY <1>w, <1>0, WalkReached
  <2>2. \A k \in 1 .. Len(keys) : k \in Same(text, n) <=> Len(keys[k]) = n /\ HasPrefix(k, text, n)
    BY <1>0, KeyIsPrefix DEF Same
  <2>3. Same(text, n) \subseteq 1 .. Len(keys)
    BY DEF Same
  <2>b. PICK b : b = walk[n]
    OBVIOUS
  <2>r. n \in Nat /\ Reached(owner, text, b, n)
    BY <2>1, <2>b
  <2>e. /\ IsEnd(b) <=> \E k \in 1 .. Len(keys) : Len(keys[k]) = n /\ HasPrefix(k, text, n)
        /\ IsEnd(b) =>
              \E k \in 1 .. Len(keys) :
                /\ Len(keys[k]) = n /\ HasPrefix(k, text, n)
                /\ \A j \in 1 .. Len(keys) : Len(keys[j]) = n /\ HasPrefix(j, text, n) => k <= j
                /\ - Base(b) - 1 = values[k] /\ values[k] \in Nat
    BY <2>r, EndReached
  <2>4. IsEnd(walk[n]) <=> \E k \in 1 .. Len(keys) : k \in Same(text, n)
    BY <2>2, <2>b, <2>e
  <2>5. ASSUME IsEnd(walk[n]) PROVE \E k : ValueOf(k, Same(text, n), - Base(walk[n]) - 1)
    <3>1. PICK k \in 1 .. Len(keys) :
            /\ Len(keys[k]) = n /\ HasPrefix(k, text, n)
            /\ \A j \in 1 .. Len(keys) : Len(keys[j]) = n /\ HasPrefix(j, text, n) => k <= j
            /\ - Base(walk[n]) - 1 = values[k] /\ values[k] \in Nat
      BY <2>5, <2>b, <2>e
    <3>2. k \in Same(text, n) /\ \A j \in Same(text, n) : k <= j
      BY <2>2, <2>3, <3>1
    <3> QED BY <3>1, <3>2 DEF ValueOf
  <2> QED BY <2>3, <2>4, <2>5
<1>2. CommonPrefixSearch(text, Len(text)) = [ n \in { k \in 0 .. Len(text) : IsEnd(walk[k]) } |-> - Base(walk[n]) - 1 ]
  BY <1>w DEF CommonPrefixSearch
<1>3. PICK found : found = CommonPrefixSearch(text, Len(text))
  OBVIOUS
<1>4. DOMAIN found = { n \in 0 .. Len(text) : Same(text, n) # {} }
  <2>1. DOMAIN found = { n \in 0 .. Len(text) : IsEnd(walk[n]) }
    BY <1>2, <1>3
  <2> QED BY <1>1, <2>1
<1>5. \A n \in DOMAIN found : \E k : ValueOf(k, Same(text, n), found[n])
  <2> SUFFICES ASSUME NEW n \in DOMAIN found PROVE \E k : ValueOf(k, Same(text, n), found[n])
    OBVIOUS
  <2>1. n \in 0 .. Len(text) /\ IsEnd(walk[n]) /\ found[n] = - Base(walk[n]) - 1
    BY <1>2, <1>3
  <2> QED BY <1>1, <2>1
<1>6. \/ Same(text, Len(text)) = {} /\ ExactMatchSearch(text) = -1
      \/ \E k : ValueOf(k, Same(text, Len(text)), ExactMatchSearch(text))
  <2>1. ExactMatchSearch(text) = IF IsEnd(walk[Len(text)]) THEN - Base(walk[Len(text)]) - 1 ELSE -1
    BY <1>w DEF ExactMatchSearch
  <2> QED BY <1>0, <1>1, <2>1
<1> QED BY <1>3, <1>4, <1>5, <1>6

\* the inductive invariant of the whole construction
ArrayInv == DoubleArrayInv /\ Layout /\ (building = "built" => stack = <<>>)

LEMMA ArrayInvInit ==
  ASSUME EmptyArray
  PROVE  ArrayInv
<1>1. Cells
  BY SMT DEF EmptyArray, Cells, Sized, Framed, Untouched, Written
<1>2. Begins
  BY SMT DEF EmptyArray, Begins, ChildrenUnshared, Running
<1>3. Layout
  BY SMT DEF EmptyArray, Layout, Running, Growing
<1> QED BY <1>1, <1>2, <1>3 DEF ArrayInv, DoubleArrayInv, EmptyArray

LEMMA ArrayInvNext ==
  ASSUME ArrayInv, [ArrayNext]_daVars
  PROVE  ArrayInv'
<1>1. ASSUME UNCHANGED daVars PROVE ArrayInv'
  <2>1. Cells'
    BY <1>1 DEF ArrayInv, DoubleArrayInv, daVars, Cells, Sized, KeysInv, Framed, Frames, Nodes, Top, Untouched, Written
  <2>2. Begins'
    <3>1. Begins
      BY DEF ArrayInv, DoubleArrayInv
    <3> QED BY <1>1, <3>1 DEF daVars, Begins, ChildrenUnshared, Running, Taken, Claimed, Begin, Pos, Top
  <2>3. Layout'
    BY <1>1, LayoutKept DEF ArrayInv, daVars
  <2> QED BY <1>1, <2>1, <2>2, <2>3 DEF ArrayInv, DoubleArrayInv, daVars
<1>2. ASSUME ArrayNext PROVE ArrayInv'
  <2>1. DoubleArrayInv' /\ Layout'
    BY <1>2, CellsInvariant, BeginsInvariant, LayoutInvariant DEF ArrayInv, DoubleArrayInv
  <2>2. building' = "built" => stack' = <<>>
    <3>1. ASSUME building' = "built" PROVE Finish
      BY <1>2, <3>1, Zenon DEF ArrayNext, BuildAny, Build, BuildStep, InsertRoot, Enter, Failed, Call, ProbeOccupied, ProbeFree, Claim,
             GrowWithoutProgress, Leaf, Descend, Return, AtChild
    <3> QED BY <3>1 DEF Finish
  <2> QED BY <2>1, <2>2 DEF ArrayInv
<1> QED BY <1>1, <1>2

LEMMA ArrayInvSearches ==
  ASSUME ArrayInv
  PROVE  SearchesFindKeys /\ SearchesReadInside /\ ChildrenUnshared /\ WritesAllocated
<1>1. ASSUME building = "built" PROVE \E owner : SearchContext(owner)
  BY <1>1, BuiltContext DEF ArrayInv
<1>2. SearchesFindKeys
  BY <1>1, ContextFindsKeys DEF SearchesFindKeys
<1>3. SearchesReadInside
  <2> SUFFICES ASSUME building = "built", NEW text \in Seq(0 .. MaxByte)
               PROVE  CellsRead(text) \subseteq 0 .. size - 1
    BY DEF SearchesReadInside
  <2>1. size \in Nat /\ \A c \in DOMAIN check : c + MaxByte + 2 < size
    BY DEF ArrayInv, DoubleArrayInv, Cells, Sized, Layout
  <2> QED BY <1>1, <2>1, ReadsInside
<1>4. ChildrenUnshared /\ WritesAllocated
  BY DEF ArrayInv, DoubleArrayInv, Begins, Cells, Written, WritesAllocated
<1> QED BY <1>2, <1>3, <1>4

LEMMA ArrayInvariant == ArraySpec => []ArrayInv
BY ArrayInvInit, ArrayInvNext, PTL DEF ArraySpec

\* No two prefixes of any keys share their children (used_, darts.h:159).
THEOREM NoSharing == ArraySpec => []ChildrenUnshared
BY ArrayInvariant, ArrayInvSearches, PTL

\* Writes stay inside the allocated cells (array_ of darts.h), whatever the keys.
THEOREM WritesInside == ArraySpec => []WritesAllocated
BY ArrayInvariant, ArrayInvSearches, PTL

\* exactMatchSearch and commonPrefixSearch answer with exactly the keys, whatever
\* the keys that build was given and whatever the text (darts.h:399-456).
THEOREM SearchesAreExact == ArraySpec => []SearchesFindKeys
BY ArrayInvariant, ArrayInvSearches, PTL

\* No search reads outside of the cells that build counts, whatever the text: the
\* room it adds at the end is enough (darts.h:292).
THEOREM SearchesInside == ArraySpec => []SearchesReadInside
BY ArrayInvariant, ArrayInvSearches, PTL
=============================================================================
