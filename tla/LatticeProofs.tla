---------------------------- MODULE LatticeProofs ----------------------------
(***************************************************************************)
(* Proofs about the analysis of a sentence, for all dictionaries, costs,   *)
(* constraints and texts: the types of the lattice; that the path marked   *)
(* best is a cheapest segmentation, or that parse gives up where no way    *)
(* stays below the limit; that the N-best search ranks all the             *)
(* segmentations, cheapest first; that all of them keep to the             *)
(* constraints; and that the links a caller follows are the result.        *)
(*                                                                         *)
(* The invariant IInv follows the life of a lattice.  LookupInv says what  *)
(* the locals of lookup are between its stages; ListsInv, NodesInv and     *)
(* CostsInv what the lists and the nodes linked so far are, above all that *)
(* the cost of a node is the least over the nodes that end where it        *)
(* begins; PrevInv that prev names that neighbour until the results are    *)
(* linked; GaveUpInv which node could not be linked.  From these alone     *)
(* follows what the costs say of all the ways through the lattice          *)
(* (ChainsCostMore, NodesEndChains), by induction on the position; BestInv *)
(* carries the way marked best to the states that read it.                 *)
(*                                                                         *)
(* The invariant SInv adds what the search relies on.  FullPaths says that *)
(* the paths are all the links of the lattice; AgendaInv that an element   *)
(* of the agenda is a chain to EOS with its exact cost, and its estimate   *)
(* the cost of its first node more; ResultsInv and PendingInv that every   *)
(* segmentation is either a result, and no element is what it ends with,   *)
(* or is not, and then exactly one is.  As no way to a node costs less     *)
(* than the node (NodesCostLeast), an element on top that has reached BOS  *)
(* is a cheapest of the segmentations still pending.                       *)
(*                                                                         *)
(* The invariant CInv is about constraints: TokensInv closes a constrained *)
(* text at both ends; FoundInv and HonouredInv say that all that a lookup  *)
(* finds, and all that the lists keep, ends at a place where a token may   *)
(* end, spans no token boundary and has the feature asked for; ReachedInv  *)
(* that the ways go on until the text ends, so that no way leaves out a    *)
(* constrained token.                                                      *)
(*                                                                         *)
(* The invariant LInv is about next and prev.  FoundOnce and ListedOnce    *)
(* say that no node is found or listed twice, so that joining the lists    *)
(* meets each node once; ChainInv that before a result is linked next is   *)
(* null everywhere, and that afterwards it leads from BOS along a chain,   *)
(* which is the result, and forward through the text from any node.        *)
(***************************************************************************)
EXTENDS NBestGenerator, WellFoundedInduction, SequenceTheorems, FiniteSetTheorems, TLAPS

-----------------------------------------------------------------------------
(* Numbers and sequences *)

\* Induction on the natural numbers, over a set in place of a predicate.
LEMMA NatSetInduction ==
  ASSUME NEW S, 0 \in S, \A n \in Nat : n \in S => n + 1 \in S
  PROVE  Nat \subseteq S
<1> SUFFICES ASSUME Nat \ S # {} PROVE FALSE
  OBVIOUS
<1>1. PICK m \in Nat \ S : \A k \in Nat \ S : <<k, m>> \notin OpToRel(<, Nat)
  BY NatLessThanWellFounded, WFMin, Zenon
<1>2. \A k \in Nat \ S : ~ (k < m)
  BY <1>1, Zenon DEF OpToRel
<1>3. m # 0 /\ m - 1 \in Nat /\ m - 1 < m
  BY SMT
<1>4. m - 1 \in S
  BY <1>2, <1>3
<1>5. m \in S
  BY <1>3, <1>4, SMT
<1> QED BY <1>5


(* A set of integers of an interval has a least and a greatest element. *)
LEMMA LeastExists ==
  ASSUME NEW a \in Int, NEW b \in Int, NEW S \in SUBSET (a..b), S # {}
  PROVE  \E m \in S : \A k \in S : m <= k
<1> SUFFICES ASSUME \A m \in S : \E k \in S : k < m PROVE FALSE
  OBVIOUS
<1> DEFINE Good == { n \in Nat : \A k \in S : k >= a + n }
<1>1. 0 \in Good
  OBVIOUS
<1>2. ASSUME NEW n \in Nat, n \in Good PROVE n + 1 \in Good
  BY <1>2
<1> HIDE DEF Good
<1>3. Nat \subseteq Good
  BY <1>1, <1>2, NatSetInduction
<1>4. PICK k \in S : TRUE
  OBVIOUS
<1>5. k - a + 1 \in Nat
  OBVIOUS
<1>6. k - a + 1 \in Good
  BY <1>3, <1>5
<1> QED BY <1>6 DEF Good

\* The same for the greatest.
LEMMA GreatestExists ==
  ASSUME NEW a \in Int, NEW b \in Int, NEW S \in SUBSET (a..b), S # {}
  PROVE  \E m \in S : \A k \in S : m >= k
<1> SUFFICES ASSUME \A m \in S : \E k \in S : k > m PROVE FALSE
  OBVIOUS
<1> DEFINE Good == { n \in Nat : \A k \in S : k <= b - n }
<1>1. 0 \in Good
  OBVIOUS
<1>2. ASSUME NEW n \in Nat, n \in Good PROVE n + 1 \in Good
  BY <1>2
<1> HIDE DEF Good
<1>3. Nat \subseteq Good
  BY <1>1, <1>2, NatSetInduction
<1>4. PICK k \in S : TRUE
  OBVIOUS
<1>5. b - k + 1 \in Nat
  OBVIOUS
<1>6. b - k + 1 \in Good
  BY <1>3, <1>5
<1> QED BY <1>6 DEF Good

\* Min of the community modules returns the least element of such a set.
LEMMA MinIsLeast ==
  ASSUME NEW a \in Int, NEW b \in Int, NEW S \in SUBSET (a..b), S # {}
  PROVE  Min(S) \in S /\ \A k \in S : Min(S) <= k
<1>1. \E m \in S : \A k \in S : m <= k
  BY LeastExists
<1> QED BY <1>1 DEF Min

\* And Max the greatest.
LEMMA MaxIsGreatest ==
  ASSUME NEW a \in Int, NEW b \in Int, NEW S \in SUBSET (a..b), S # {}
  PROVE  Max(S) \in S /\ \A k \in S : Max(S) >= k
<1>1. \E m \in S : \A k \in S : m >= k
  BY GreatestExists
<1> QED BY <1>1 DEF Max

(* What is picked from a sequence, what a list of lists flattens to and what *)
(* a chain costs are computed from left to right, one step for each element. *)
Step(kind, s, places, i, v) ==
  CASE kind = "picked" -> IF i \in places THEN Append(v, s[i]) ELSE v
    [] kind = "flat" -> v \o s[i]
    [] kind = "cost" -> v + LocalCost(s[i - 1], s[i])

IsRun(kind, s, places, from, base, n, run) ==
  run = [i \in from..n |-> IF i = from THEN base ELSE Step(kind, s, places, i, run[i - 1])]

\* A recursive function over 0..n with one of the steps of this section exists.
LEMMA RunExists ==
  ASSUME NEW kind, NEW s, NEW places, NEW from \in Nat, NEW base, NEW n \in Nat
  PROVE  \E run : IsRun(kind, s, places, from, base, n, run)
<1> DEFINE Good == { k \in Nat : \E run : IsRun(kind, s, places, from, base, k, run) }
<1>1. 0 \in Good
  <2>1. ASSUME NEW i \in from..0 PROVE i = from
    OBVIOUS
  <2> DEFINE run == [i \in from..0 |-> base]
  <2>2. run = [i \in from..0 |-> IF i = from THEN base ELSE Step(kind, s, places, i, run[i - 1])]
    BY <2>1
  <2> HIDE DEF run
  <2>3. IsRun(kind, s, places, from, base, 0, run)
    BY <2>2 DEF IsRun
  <2> QED BY <2>3
<1>2. ASSUME NEW k \in Nat, k \in Good PROVE k + 1 \in Good
  <2>1. PICK g : IsRun(kind, s, places, from, base, k, g)
    BY <1>2
  <2> DEFINE h == [i \in from..k + 1 |->
                     IF i = from THEN base
                     ELSE IF i = k + 1 THEN Step(kind, s, places, i, g[k]) ELSE g[i]]
  <2>2. ASSUME NEW i \in from..k + 1
        PROVE  h[i] = IF i = from THEN base ELSE Step(kind, s, places, i, h[i - 1])
    <3>1. CASE i = from
      BY <3>1
    <3>2. CASE i # from /\ i = k + 1
      <4>1. k \in from..k + 1 /\ k # k + 1 /\ i - 1 = k /\ k \in from..k
        BY <3>2
      <4>2. h[k] = g[k]
        <5>1. CASE k = from
          BY <2>1, <4>1, <5>1 DEF IsRun
        <5>2. CASE k # from
          BY <4>1, <5>2
        <5> QED BY <5>1, <5>2
      <4> QED BY <3>2, <4>1, <4>2
    <3>3. CASE i # from /\ i # k + 1
      <4>1. i \in from..k /\ i - 1 \in from..k /\ i - 1 \in from..k + 1 /\ i - 1 # k + 1
        BY <3>3
      <4>2. h[i] = g[i]
        BY <3>3
      <4>3. g[i] = Step(kind, s, places, i, g[i - 1])
        BY <2>1, <3>3, <4>1 DEF IsRun
      <4>4. h[i - 1] = g[i - 1]
        <5>1. CASE i - 1 = from
          BY <2>1, <4>1, <5>1 DEF IsRun
        <5>2. CASE i - 1 # from
          BY <4>1, <5>2
        <5> QED BY <5>1, <5>2
      <4> QED BY <3>3, <4>2, <4>3, <4>4
    <3> QED BY <3>1, <3>2, <3>3
  <2>3. h = [i \in from..k + 1 |-> h[i]]
    OBVIOUS
  <2> HIDE DEF h
  <2>4. IsRun(kind, s, places, from, base, k + 1, h)
    BY <2>2, <2>3 DEF IsRun
  <2> QED BY <2>4
<1> HIDE DEF Good
<1>3. n \in Good
  BY <1>1, <1>2, NatSetInduction
<1> QED BY <1>3 DEF Good

\* What such a run does at its start and at every step.
LEMMA RunSteps ==
  ASSUME NEW kind, NEW s, NEW places, NEW from \in Nat, NEW base, NEW n \in Nat, NEW run,
         IsRun(kind, s, places, from, base, n, run)
  PROVE  /\ from <= n => run[from] = base
         /\ \A i \in from + 1..n : run[i] = Step(kind, s, places, i, run[i - 1])
<1>1. ASSUME from <= n PROVE run[from] = base
  <2>1. from \in from..n
    BY <1>1
  <2> QED BY <2>1 DEF IsRun
<1>2. ASSUME NEW i \in from + 1..n PROVE run[i] = Step(kind, s, places, i, run[i - 1])
  <2>1. i \in from..n /\ i # from
    OBVIOUS
  <2> QED BY <2>1 DEF IsRun
<1> QED BY <1>1, <1>2

\* Concatenation joins the elements.
LEMMA ConcatElements ==
  ASSUME NEW X, NEW v \in Seq(X), NEW t \in Seq(X)
  PROVE  v \o t \in Seq(X) /\ ToSet(v \o t) = ToSet(v) \union ToSet(t)
<1>1. ASSUME NEW i \in 1..Len(t) PROVE (v \o t)[Len(v) + i] = t[i] /\ Len(v) + i \in 1..Len(v \o t)
  OBVIOUS
<1>2. ASSUME NEW i \in 1..Len(v) PROVE (v \o t)[i] = v[i] /\ i \in 1..Len(v \o t)
  OBVIOUS
<1>3. ASSUME NEW i \in 1..Len(v \o t), i \notin 1..Len(v)
      PROVE  i - Len(v) \in 1..Len(t) /\ (v \o t)[i] = t[i - Len(v)]
  <2>1. Len(v \o t) = Len(v) + Len(t) /\ Len(v) \in Nat /\ Len(t) \in Nat
    OBVIOUS
  <2>2. i - Len(v) \in 1..Len(t) /\ i = Len(v) + (i - Len(v))
    BY <1>3, <2>1
  <2> QED BY <1>1, <2>2
<1>4. DOMAIN v = 1..Len(v) /\ DOMAIN t = 1..Len(t) /\ DOMAIN (v \o t) = 1..Len(v \o t)
  OBVIOUS
<1>5. ASSUME NEW x \in ToSet(v \o t) PROVE x \in ToSet(v) \union ToSet(t)
  <2>1. PICK i \in 1..Len(v \o t) : x = (v \o t)[i]
    BY <1>4 DEF ToSet
  <2>2. CASE i \in 1..Len(v)
    BY <1>2, <1>4, <2>1, <2>2 DEF ToSet
  <2>3. CASE i \notin 1..Len(v)
    BY <1>3, <1>4, <2>1, <2>3 DEF ToSet
  <2> QED BY <2>2, <2>3
<1>6. ASSUME NEW x \in ToSet(v) PROVE x \in ToSet(v \o t)
  <2>1. PICK i \in 1..Len(v) : x = v[i]
    BY <1>4 DEF ToSet
  <2> QED BY <1>2, <1>4, <2>1 DEF ToSet
<1>7. ASSUME NEW x \in ToSet(t) PROVE x \in ToSet(v \o t)
  <2>1. PICK i \in 1..Len(t) : x = t[i]
    BY <1>4 DEF ToSet
  <2> QED BY <1>1, <1>4, <2>1 DEF ToSet
<1>8. v \o t \in Seq(X)
  OBVIOUS
<1> QED BY <1>5, <1>6, <1>7, <1>8

\* Append adds one element.
LEMMA AppendElements ==
  ASSUME NEW X, NEW v \in Seq(X), NEW x \in X
  PROVE  Append(v, x) \in Seq(X) /\ ToSet(Append(v, x)) = ToSet(v) \union {x}
<1>1. Append(v, x) = v \o <<x>> /\ <<x>> \in Seq(X) /\ DOMAIN <<x>> = {1} /\ <<x>>[1] = x
  OBVIOUS
<1>2. ToSet(<<x>>) = {x}
  BY <1>1 DEF ToSet
<1>3. /\ v \o <<x>> \in Seq(X)
      /\ ToSet(v \o <<x>>) = ToSet(v) \union ToSet(<<x>>)
  BY <1>1, ConcatElements
<1> QED BY <1>1, <1>2, <1>3

\* Picked is the last value of a run that appends the places it picks.
LEMMA PickedRun ==
  ASSUME NEW X, NEW s \in Seq(X), NEW places
  PROVE  \E run : /\ Picked(s, places) = run[Len(s)] /\ run[0] = <<>>
                  /\ \A i \in 1..Len(s) : run[i] = IF i \in places THEN Append(run[i - 1], s[i])
                                                   ELSE run[i - 1]
<1> DEFINE Is(f) == f = [i \in 0..Len(s) |-> IF i = 0 THEN <<>>
                                           ELSE IF i \in places THEN Append(f[i - 1], s[i])
                                           ELSE f[i - 1]]
           u == CHOOSE f : Is(f)
<1>0. Len(s) \in Nat
  OBVIOUS
<1>1. \A f : Is(f) <=> IsRun("picked", s, places, 0, <<>>, Len(s), f)
  BY DEF IsRun, Step
<1>2. Picked(s, places) = u[Len(s)]
  BY DEF Picked
<1> HIDE DEF Is
<1>3. \E f : Is(f)
  BY <1>0, <1>1, RunExists
<1>4. Is(u)
  BY <1>3
<1> HIDE DEF u
<1>5. IsRun("picked", s, places, 0, <<>>, Len(s), u)
  BY <1>1, <1>4
<1>6. /\ 0 <= Len(s) => u[0] = <<>>
      /\ \A i \in 0 + 1..Len(s) : u[i] = Step("picked", s, places, i, u[i - 1])
  BY <1>0, <1>5, RunSteps
<1> QED BY <1>0, <1>2, <1>6 DEF Step

\* Picked keeps the elements at the places and no others.
LEMMA PickedElements ==
  ASSUME NEW X, NEW s \in Seq(X), NEW places
  PROVE  /\ Picked(s, places) \in Seq(X)
         /\ ToSet(Picked(s, places)) = { s[i] : i \in (1..Len(s)) \intersect places }
<1>0. Len(s) \in Nat
  OBVIOUS
<1>1. PICK run : /\ Picked(s, places) = run[Len(s)] /\ run[0] = <<>>
                 /\ \A i \in 1..Len(s) : run[i] = IF i \in places THEN Append(run[i - 1], s[i])
                                                  ELSE run[i - 1]
  BY PickedRun
<1> DEFINE Good == { k \in Nat : k <= Len(s) =>
                       /\ run[k] \in Seq(X)
                       /\ ToSet(run[k]) = { s[i] : i \in (1..k) \intersect places } }
<1>2. 0 \in Good
  <2>1. run[0] \in Seq(X) /\ ToSet(run[0]) = {}
    BY <1>1 DEF ToSet
  <2> QED BY <2>1
<1>3. ASSUME NEW k \in Nat, k \in Good PROVE k + 1 \in Good
  <2> SUFFICES ASSUME k + 1 <= Len(s)
               PROVE  /\ run[k + 1] \in Seq(X)
                      /\ ToSet(run[k + 1]) = { s[i] : i \in (1..k + 1) \intersect places }
    OBVIOUS
  <2>1. k + 1 \in 1..Len(s) /\ (k + 1) - 1 = k /\ run[k] \in Seq(X)
        /\ ToSet(run[k]) = { s[i] : i \in (1..k) \intersect places }
    BY <1>0, <1>3
  <2>2. s[k + 1] \in X
    BY <2>1
  <2>3. CASE k + 1 \in places
    <3>1. run[k + 1] = Append(run[k], s[k + 1])
      BY <1>1, <2>1, <2>3
    <3>2. run[k + 1] \in Seq(X)
      BY <2>1, <2>2, <3>1
    <3>3. ToSet(run[k + 1]) = ToSet(run[k]) \union {s[k + 1]}
      BY <2>1, <2>2, <3>1, AppendElements
    <3>4. (1..k + 1) \intersect places = ((1..k) \intersect places) \union {k + 1}
      BY <2>3
    <3> QED BY <2>1, <3>2, <3>3, <3>4
  <2>4. CASE k + 1 \notin places
    <3>1. run[k + 1] = run[k]
      BY <1>1, <2>1, <2>4
    <3>2. (1..k + 1) \intersect places = (1..k) \intersect places
      BY <2>4
    <3> QED BY <2>1, <3>1, <3>2
  <2> QED BY <2>3, <2>4
<1> HIDE DEF Good
<1>4. Len(s) \in Good
  BY <1>0, <1>2, <1>3, NatSetInduction
<1> QED BY <1>0, <1>1, <1>4 DEF Good

\* Reverse keeps the elements and the length.
LEMMA ReverseElements ==
  ASSUME NEW X, NEW s \in Seq(X)
  PROVE  Reverse(s) \in Seq(X) /\ ToSet(Reverse(s)) = ToSet(s) /\ Len(Reverse(s)) = Len(s)
<1>0. Len(s) \in Nat /\ DOMAIN s = 1..Len(s)
  OBVIOUS
<1>1. ASSUME NEW i \in 1..Len(s) PROVE (Len(s) - i) + 1 \in 1..Len(s)
  BY <1>0
<1>2. Reverse(s) \in [1..Len(s) -> X]
  BY <1>0, <1>1 DEF Reverse
<1>3. Reverse(s) \in Seq(X) /\ Len(Reverse(s)) = Len(s) /\ DOMAIN Reverse(s) = 1..Len(s)
  BY <1>0, <1>2
<1>4. \A i \in 1..Len(s) : Reverse(s)[i] = s[(Len(s) - i) + 1]
  BY DEF Reverse
<1>5. \A i \in 1..Len(s) : s[i] = Reverse(s)[(Len(s) - i) + 1]
  <2> TAKE i \in 1..Len(s)
  <2>1. (Len(s) - ((Len(s) - i) + 1)) + 1 = i
    BY <1>0
  <2> QED BY <1>1, <1>4, <2>1
<1>6. ASSUME NEW x \in ToSet(s) PROVE x \in ToSet(Reverse(s))
  <2>1. PICK i \in 1..Len(s) : x = s[i]
    BY <1>0, <1>6 DEF ToSet
  <2> QED BY <1>1, <1>3, <1>5, <2>1 DEF ToSet
<1>7. ASSUME NEW x \in ToSet(Reverse(s)) PROVE x \in ToSet(s)
  <2>1. PICK i \in 1..Len(s) : x = Reverse(s)[i]
    BY <1>3, <1>7 DEF ToSet
  <2> QED BY <1>0, <1>1, <1>4, <2>1 DEF ToSet
<1> QED BY <1>3, <1>6, <1>7

\* FlattenSeq is the last value of a run that concatenates.
LEMMA FlattenRun ==
  ASSUME NEW X, NEW s \in Seq(X), s # <<>>
  PROVE  \E run : /\ FlattenSeq(s) = run[Len(s)] /\ run[1] = s[1]
                  /\ \A i \in 2..Len(s) : run[i] = run[i - 1] \o s[i]
<1> DEFINE Is(f) == f = [i \in 1..Len(s) |-> IF i = 1 THEN s[i] ELSE f[i - 1] \o s[i]]
           u == CHOOSE f : Is(f)
           base == s[1]
<1>0. Len(s) \in Nat /\ Len(s) # 0
  OBVIOUS
<1>1. \A f : Is(f) <=> IsRun("flat", s, {}, 1, base, Len(s), f)
  <2> TAKE f
  <2>1. \A i \in 1..Len(s) : (IF i = 1 THEN s[i] ELSE f[i - 1] \o s[i])
           = (IF i = 1 THEN base ELSE Step("flat", s, {}, i, f[i - 1]))
    BY DEF Step
  <2>2. [i \in 1..Len(s) |-> IF i = 1 THEN s[i] ELSE f[i - 1] \o s[i]]
        = [i \in 1..Len(s) |-> IF i = 1 THEN base ELSE Step("flat", s, {}, i, f[i - 1])]
    BY <2>1
  <2> QED BY <2>2 DEF IsRun
<1>2. FlattenSeq(s) = u[Len(s)]
  BY <1>0 DEF FlattenSeq
<1> HIDE DEF Is
<1> HIDE DEF base
<1>3. \E f : Is(f)
  BY <1>0, <1>1, RunExists
<1>4. Is(u)
  BY <1>3
<1> HIDE DEF u
<1>5. IsRun("flat", s, {}, 1, base, Len(s), u)
  BY <1>1, <1>4
<1>6. /\ 1 <= Len(s) => u[1] = base
      /\ \A i \in 1 + 1..Len(s) : u[i] = Step("flat", s, {}, i, u[i - 1])
  BY <1>0, <1>5, RunSteps
<1>7. \A i \in 2..Len(s) : Step("flat", s, {}, i, u[i - 1]) = u[i - 1] \o s[i]
  BY DEF Step
<1>8. 1 <= Len(s) /\ 1 + 1 = 2
  BY <1>0
<1>9. /\ u[1] = s[1]
      /\ \A i \in 2..Len(s) : u[i] = Step("flat", s, {}, i, u[i - 1])
  BY <1>6, <1>8 DEF base
<1>10. \A i \in 2..Len(s) : u[i] = u[i - 1] \o s[i]
  BY <1>7, <1>9, Zenon
<1> QED BY <1>2, <1>9, <1>10, Zenon

\* FlattenSeq joins the elements of all the parts.
LEMMA FlattenElements ==
  ASSUME NEW X, NEW s \in Seq(Seq(X))
  PROVE  /\ FlattenSeq(s) \in Seq(X)
         /\ ToSet(FlattenSeq(s)) = UNION { ToSet(s[i]) : i \in 1..Len(s) }
<1>0. Len(s) \in Nat
  OBVIOUS
<1>1. CASE s = <<>>
  <2>1. Len(s) = 0
    BY <1>1
  <2>2. FlattenSeq(s) = <<>>
    BY <1>1, <2>1 DEF FlattenSeq
  <2> QED BY <2>1, <2>2 DEF ToSet
<1>2. CASE s # <<>>
  <2>1. PICK run : /\ FlattenSeq(s) = run[Len(s)] /\ run[1] = s[1]
                   /\ \A i \in 2..Len(s) : run[i] = run[i - 1] \o s[i]
    BY <1>2, FlattenRun
  <2> DEFINE Good == { k \in Nat : k + 1 <= Len(s) =>
                         /\ run[k + 1] \in Seq(X)
                         /\ ToSet(run[k + 1]) = UNION { ToSet(s[i]) : i \in 1..k + 1 } }
  <2>2. 0 \in Good
    <3>1. 0 + 1 <= Len(s) => run[0 + 1] \in Seq(X)
      BY <2>1
    <3>2. 1..0 + 1 = {1}
      OBVIOUS
    <3> QED BY <2>1, <3>1, <3>2
  <2>3. ASSUME NEW k \in Nat, k \in Good PROVE k + 1 \in Good
    <3> SUFFICES ASSUME k + 1 + 1 <= Len(s)
                 PROVE  /\ run[k + 1 + 1] \in Seq(X)
                        /\ ToSet(run[k + 1 + 1]) = UNION { ToSet(s[i]) : i \in 1..k + 1 + 1 }
      OBVIOUS
    <3>1. /\ k + 1 + 1 \in 2..Len(s) /\ (k + 1 + 1) - 1 = k + 1 /\ run[k + 1] \in Seq(X)
          /\ ToSet(run[k + 1]) = UNION { ToSet(s[i]) : i \in 1..k + 1 }
          /\ s[k + 1 + 1] \in Seq(X)
      BY <1>0, <2>3
    <3>2. run[k + 1 + 1] = run[k + 1] \o s[k + 1 + 1]
      BY <2>1, <3>1
    <3>3. run[k + 1 + 1] \in Seq(X)
      BY <3>1, <3>2
    <3>4. ToSet(run[k + 1 + 1]) = ToSet(run[k + 1]) \union ToSet(s[k + 1 + 1])
      BY <3>1, <3>2, ConcatElements
    <3>5. 1..k + 1 + 1 = (1..k + 1) \union {k + 1 + 1}
      OBVIOUS
    <3> QED BY <3>1, <3>3, <3>4, <3>5
  <2> HIDE DEF Good
  <2>4. Len(s) - 1 \in Nat /\ Len(s) - 1 \in Good /\ (Len(s) - 1) + 1 = Len(s)
    <3>1. Len(s) - 1 \in Nat
      BY <1>0, <1>2
    <3>2. Nat \subseteq Good
      BY <2>2, <2>3, NatSetInduction, Zenon
    <3> QED BY <1>0, <3>1, <3>2
  <2> QED BY <2>1, <2>4 DEF Good
<1> QED BY <1>1, <1>2

\* The cost of a chain is the last value of a run that adds the links.
LEMMA CostRun ==
  ASSUME NEW X, NEW s \in Seq(X), s # <<>>
  PROVE  \E run : /\ CostOf(s) = run[Len(s)] /\ run[1] = 0
                  /\ \A i \in 2..Len(s) : run[i] = run[i - 1] + LocalCost(s[i - 1], s[i])
<1> DEFINE Is(f) == f = [i \in 1..Len(s) |-> IF i = 1 THEN 0
                                             ELSE f[i - 1] + LocalCost(s[i - 1], s[i])]
           u == CHOOSE f : Is(f)
<1>0. Len(s) \in Nat /\ Len(s) # 0
  OBVIOUS
<1>1. \A f : Is(f) <=> IsRun("cost", s, {}, 1, 0, Len(s), f)
  BY DEF IsRun, Step
<1>2. CostOf(s) = u[Len(s)]
  BY <1>0 DEF CostOf
<1> HIDE DEF Is
<1>3. \E f : Is(f)
  BY <1>0, <1>1, RunExists
<1>4. Is(u)
  BY <1>3
<1> HIDE DEF u
<1>5. IsRun("cost", s, {}, 1, 0, Len(s), u)
  BY <1>1, <1>4
<1>6. /\ 1 <= Len(s) => u[1] = 0
      /\ \A i \in 1 + 1..Len(s) : u[i] = Step("cost", s, {}, i, u[i - 1])
  BY <1>0, <1>5, RunSteps
<1> QED BY <1>0, <1>2, <1>6 DEF Step

\* A chain of one node costs nothing.
LEMMA CostOfOne == ASSUME NEW n PROVE CostOf(<<n>>) = 0
<1>1. <<n>> \in Seq({n}) /\ <<n>> # <<>> /\ Len(<<n>>) = 1
  OBVIOUS
<1>2. PICK run : CostOf(<<n>>) = run[Len(<<n>>)] /\ run[1] = 0
  BY <1>1, CostRun, Zenon
<1> QED BY <1>1, <1>2

\* A longer chain costs one link more.
LEMMA CostOfLonger ==
  ASSUME NEW X, NEW s \in Seq(X), s # <<>>, NEW n \in X
  PROVE  CostOf(Append(s, n)) = CostOf(s) + LocalCost(Last(s), n)
<1> DEFINE t == Append(s, n)
<1>0. Len(s) \in Nat /\ Len(s) # 0 /\ t \in Seq(X) /\ t # <<>> /\ Len(t) = Len(s) + 1
      /\ t[Len(s) + 1] = n /\ \A i \in 1..Len(s) : t[i] = s[i]
  OBVIOUS
<1> HIDE DEF t
<1>1. PICK q : /\ CostOf(t) = q[Len(t)] /\ q[1] = 0
               /\ \A i \in 2..Len(t) : q[i] = q[i - 1] + LocalCost(t[i - 1], t[i])
  BY <1>0, CostRun
<1>2. PICK r : /\ CostOf(s) = r[Len(s)] /\ r[1] = 0
               /\ \A i \in 2..Len(s) : r[i] = r[i - 1] + LocalCost(s[i - 1], s[i])
  BY CostRun
<1> DEFINE Good == { k \in Nat : k + 1 <= Len(s) => q[k + 1] = r[k + 1] }
<1>3. 0 \in Good
  BY <1>1, <1>2
<1>4. ASSUME NEW k \in Nat, k \in Good PROVE k + 1 \in Good
  <2> SUFFICES ASSUME k + 1 + 1 <= Len(s) PROVE q[k + 1 + 1] = r[k + 1 + 1]
    OBVIOUS
  <2>1. k + 1 + 1 \in 2..Len(s) /\ k + 1 + 1 \in 2..Len(t) /\ (k + 1 + 1) - 1 = k + 1
    BY <1>0
  <2>2. q[k + 1] = r[k + 1]
    BY <1>0, <1>4
  <2>3. t[k + 1] = s[k + 1] /\ t[k + 1 + 1] = s[k + 1 + 1]
    BY <1>0, <2>1
  <2> QED BY <1>1, <1>2, <2>1, <2>2, <2>3
<1> HIDE DEF Good
<1>5. Len(s) - 1 \in Nat /\ (Len(s) - 1) + 1 = Len(s)
  BY <1>0
<1>6. Len(s) - 1 \in Good
  BY <1>3, <1>4, <1>5, NatSetInduction
<1>7. q[Len(s)] = r[Len(s)]
  BY <1>0, <1>5, <1>6 DEF Good
<1>8. Len(t) \in 2..Len(t) /\ Len(t) - 1 = Len(s) /\ t[Len(s)] = s[Len(s)] /\ t[Len(t)] = n
  BY <1>0
<1>9. q[Len(t)] = q[Len(s)] + LocalCost(t[Len(s)], t[Len(t)])
  BY <1>1, <1>8
<1> QED BY <1>1, <1>2, <1>7, <1>8, <1>9 DEF Last, t

-----------------------------------------------------------------------------
(* The nodes of a position *)

\* what a lookup at p makes in a sentence of n characters
WordsAt(p, n) ==
  { w \in [stat : {"nor", "unk"}, surface : Int, length : Int, rlength : Int, token : NodeTokens] :
    BeginOf(w) = p /\ EndOf(w) \in p+1 .. n+1 }

LookingUp ==
  place \in {"dictionary", "blank", "group", "count", "single", "stretch", "force", "connect"}

TextInv ==
  place # "initPartial" =>
    /\ IsText(sentence) /\ pos \in 0..size
    /\ IsConstraint(constraint, size)
    /\ HasConstraint(constraint) => Spaceless(sentence)

Infos == { Property[c] : c \in DOMAIN Property }

LookupInv ==
  /\ LookingUp \/ place = "lookup" => pos < size
  /\ LookingUp =>
       /\ end \in pos+1 .. size /\ begin2 \in pos .. end /\ begin3 \in begin2+1 .. end+1
       /\ HasConstraint(constraint) => begin2 = pos
       /\ cinfo \in Infos
       /\ found \in Seq(WordsAt(pos, size))
  /\ place = "dictionary" => begin3 = begin2 + 1
  /\ place = "blank" => ~ HasConstraint(constraint)
  /\ place = "group" => begin3 <= end
  /\ place = "connect" => found # <<>>
  /\ place \in {"stretch", "force"} => HasConstraint(constraint)

\* The size of a text is a number.
LEMMA SizeType == ASSUME IsText(sentence) PROVE size \in Nat
BY DEF IsText, size

\* The nodes made of tokens begin at pos and end behind it, inside the text.
LEMMA MadeWords ==
  ASSUME NEW stat \in {"nor", "unk"}, NEW tokens \in Seq(NodeTokens),
         size \in Nat, pos \in Nat, begin2 \in Int, NEW past \in pos+1..size+1
  PROVE  Made(stat, tokens, past) \in Seq(WordsAt(pos, size))
<1> DEFINE nodes == [k \in DOMAIN tokens |-> Node(stat, begin2, past - begin2, past - pos, tokens[k])]
<1>1. DOMAIN tokens = 1..Len(tokens) /\ Len(tokens) \in Nat
  OBVIOUS
<1>2. ASSUME NEW k \in DOMAIN tokens PROVE nodes[k] \in WordsAt(pos, size)
  <2>1. tokens[k] \in NodeTokens
    BY <1>1
  <2> DEFINE n == Node(stat, begin2, past - begin2, past - pos, tokens[k])
  <2>2. n \in [stat : {"nor", "unk"}, surface : Int, length : Int, rlength : Int, token : NodeTokens]
    BY <2>1 DEF Node
  <2>3. BeginOf(n) = pos /\ EndOf(n) = past
    BY DEF Node, BeginOf, EndOf
  <2> QED BY <2>2, <2>3 DEF WordsAt
<1>3. nodes \in [1..Len(tokens) -> WordsAt(pos, size)]
  BY <1>1, <1>2
<1> HIDE DEF nodes
<1>4. nodes \in Seq(WordsAt(pos, size))
  BY <1>1, <1>3
<1>5. Valid(nodes) \in Seq(WordsAt(pos, size))
  BY <1>4, PickedElements DEF Valid
<1> QED BY <1>5, ReverseElements DEF Made, nodes

\* Without constraints no token is turned away.
LEMMA MadeSome ==
  ASSUME NEW stat, NEW X, NEW tokens \in Seq(X), NEW past, constraint = NoConstraint, tokens # <<>>
  PROVE  Made(stat, tokens, past) # <<>>
<1> DEFINE nodes == [k \in DOMAIN tokens |-> Node(stat, begin2, past - begin2, past - pos, tokens[k])]
<1>1. DOMAIN tokens = 1..Len(tokens) /\ Len(tokens) \in Nat /\ 1 \in DOMAIN tokens
  OBVIOUS
<1>2. nodes \in Seq(Range(nodes)) /\ Len(nodes) = Len(tokens) /\ DOMAIN nodes = DOMAIN tokens
  <2>1. nodes \in [1..Len(tokens) -> Range(nodes)]
    BY <1>1 DEF Range
  <2> HIDE DEF nodes
  <2> QED BY <1>1, <2>1
<1> HIDE DEF nodes
<1>3. \A k \in DOMAIN nodes : IsValidNode(constraint, nodes[k])
  BY DEF IsValidNode, BoundaryAt, FeatureAt, HasConstraint, NoConstraint
<1>4. nodes[1] \in { nodes[i] : i \in (1..Len(nodes)) \intersect
                     { k \in DOMAIN nodes : IsValidNode(constraint, nodes[k]) } }
  BY <1>1, <1>2, <1>3
<1>5. Valid(nodes) \in Seq(Range(nodes)) /\ nodes[1] \in ToSet(Valid(nodes))
  BY <1>2, <1>4, PickedElements DEF Valid
<1>6. nodes[1] \in ToSet(Reverse(Valid(nodes)))
  BY <1>5, ReverseElements
<1>7. ToSet(<<>>) = {}
  BY DEF ToSet
<1> QED BY <1>6, <1>7 DEF Made, nodes

\* A constraint without boundaries is the absent one.
LEMMA NoConstraintIs ==
  ASSUME NEW c, NEW n \in Nat, IsConstraint(c, n), ~ HasConstraint(c)
  PROVE  c = NoConstraint
<1> SUFFICES ASSUME c # NoConstraint PROVE FALSE
  OBVIOUS
<1>1. c.boundary \in [0..n+3 -> {"any", "token", "inside"}] /\ 0 \in 0..n+3
  BY DEF IsConstraint
<1>2. DOMAIN c.boundary = 0..n+3
  BY <1>1
<1>3. 0 \notin DOMAIN <<>>
  OBVIOUS
<1> QED BY <1>1, <1>2, <1>3 DEF HasConstraint

\* Unknown words are words at pos, and without constraints there is one.
LEMMA UnknownWords ==
  ASSUME NEW info \in Infos, size \in Nat, pos \in Nat, begin2 \in Int, NEW past \in pos+1..size+1,
         IsConstraint(constraint, size)
  PROVE  /\ Unknown(past, info) \in Seq(WordsAt(pos, size))
         /\ ~ HasConstraint(constraint) => Unknown(past, info) # <<>>
<1>1. PICK c \in DOMAIN Property : info = Property[c]
  BY DEF Infos
<1> DEFINE tokens == UnkTokens[info.default_type]
<1>2. tokens \in Seq(Tokens) /\ tokens # <<>>
  BY <1>1, TokenizerAssumption
<1>3. tokens \in Seq(NodeTokens)
  <2>1. Tokens \subseteq NodeTokens
    BY DEF NodeTokens
  <2> HIDE DEF tokens
  <2> QED BY <1>2, <2>1
<1> HIDE DEF tokens
<1>4. Unknown(past, info) = Made("unk", tokens, past)
  BY DEF Unknown, tokens
<1>5. Made("unk", tokens, past) \in Seq(WordsAt(pos, size))
  BY <1>3, MadeWords
<1>6. ~ HasConstraint(constraint) => Made("unk", tokens, past) # <<>>
  BY <1>2, MadeSome, NoConstraintIs
<1> QED BY <1>4, <1>5, <1>6

\* The character table knows every position, those past the end included.
LEMMA InfoType ==
  ASSUME NEW text, IsText(text), NEW p \in Nat
  PROVE  Info(text, p) \in Infos
<1>1. CASE p < Len(text)
  <2>1. p + 1 \in 1..Len(text) /\ text[p + 1] \in DOMAIN Property
    BY <1>1 DEF IsText
  <2> QED BY <1>1, <2>1 DEF Info, Infos
<1>2. CASE ~ (p < Len(text))
  BY <1>2, TokenizerAssumption DEF Info, Infos
<1> QED BY <1>1, <1>2

(* The run of characters ends at its limit at the latest. *)
LEMMA SeekStops ==
  ASSUME NEW text, IsText(text), NEW begin \in Nat, NEW limit \in Nat, begin <= limit,
         limit <= Len(text), NEW c
  PROVE  /\ SeekToOtherType(text, begin, limit, c) \in begin..limit
         /\ ~ IsKindOf(c, Info(text, begin)) => SeekToOtherType(text, begin, limit, c) = begin
<1> DEFINE Before(p) == IF p = begin THEN c ELSE Info(text, p - 1)
           Stops(p) == p = limit \/ ~ IsKindOf(Before(p), Info(text, p))
           First(p) == Stops(p) /\ \A q \in begin..p-1 : ~ Stops(q)
           S == { p \in begin..limit : Stops(p) }
<1>0. Len(text) \in Nat
  BY DEF IsText
<1>1. SeekToOtherType(text, begin, limit, c) = CHOOSE p \in begin..Len(text)+1 : First(p)
  BY DEF SeekToOtherType
<1>2. limit \in begin..limit /\ Stops(limit)
  OBVIOUS
<1>3. ~ IsKindOf(c, Info(text, begin)) => Stops(begin)
  OBVIOUS
<1> HIDE DEF Stops
<1>4. PICK m \in S : \A k \in S : m <= k
  <2>1. S \in SUBSET (begin..limit) /\ S # {}
    BY <1>2
  <2>2. begin \in Int /\ limit \in Int
    OBVIOUS
  <2> HIDE DEF S
  <2> QED BY <2>1, <2>2, LeastExists
<1>5. m \in begin..Len(text)+1 /\ First(m)
  <2>1. ASSUME NEW q \in begin..m-1, Stops(q) PROVE FALSE
    <3>1. q \in S
      BY <2>1
    <3>2. m <= q /\ q < m
      BY <1>4, <3>1
    <3> QED BY <3>2
  <2> QED BY <1>0, <1>4, <2>1
<1>6. ASSUME NEW p \in begin..Len(text)+1, First(p) PROVE p <= limit /\ (Stops(begin) => p = begin)
  <2>1. ~ (limit < p)
    <3> SUFFICES ASSUME limit < p PROVE FALSE
      OBVIOUS
    <3>1. limit \in begin..p-1
      OBVIOUS
    <3> QED BY <1>2, <1>6, <3>1
  <2>2. ASSUME Stops(begin), p # begin PROVE FALSE
    <3>1. begin \in begin..p-1
      BY <2>2
    <3> QED BY <1>6, <2>2, <3>1
  <2> QED BY <1>6, <2>1, <2>2
<1> HIDE DEF First
<1>7. /\ SeekToOtherType(text, begin, limit, c) \in begin..Len(text)+1
      /\ First(SeekToOtherType(text, begin, limit, c))
  BY <1>1, <1>5
<1>8. SeekToOtherType(text, begin, limit, c) <= limit
  BY <1>6, <1>7
<1>9. Stops(begin) => SeekToOtherType(text, begin, limit, c) = begin
  BY <1>6, <1>7
<1>10. SeekToOtherType(text, begin, limit, c) \in begin..limit
  BY <1>0, <1>7, <1>8
<1> QED BY <1>3, <1>9, <1>10

\* lookup stops behind its position and inside the text.
LEMMA LookupEndType ==
  ASSUME NEW text, IsText(text), NEW c, NEW from \in Nat, from < Len(text)
  PROVE  LookupEnd(text, c, from) \in from+1..Len(text)
<1> DEFINE bounds == { n \in from+1..Len(text)-1 : BoundaryAt(c, n) = "token" }
<1>0. Len(text) \in Nat
  BY DEF IsText
<1>1. CASE bounds = {}
  BY <1>0, <1>1, TokenizerAssumption DEF LookupEnd
<1>2. CASE bounds # {}
  <2>1. bounds \in SUBSET (from+1..Len(text)-1)
    OBVIOUS
  <2>2. LookupEnd(text, c, from) = Min(bounds)
    BY <1>2 DEF LookupEnd
  <2>3. from + 1 \in Int /\ Len(text) - 1 \in Int
    BY <1>0
  <2> HIDE DEF bounds
  <2>4. Min(bounds) \in bounds
    BY <1>2, <2>1, <2>3, MinIsLeast, Zenon
  <2>5. Min(bounds) \in from+1..Len(text)-1
    BY <2>1, <2>4
  <2> QED BY <1>0, <2>2, <2>5
<1> QED BY <1>1, <1>2

(* Stages of the lookup keep the sentence; it is enough to say where they lead. *)
LEMMA LookupReady ==
  ASSUME TextInv, LookupInv, LookingUp \/ place = "lookup"
  PROVE  /\ size \in Nat /\ pos \in Nat /\ pos < size /\ IsText(sentence)
         /\ IsConstraint(constraint, size)
         /\ HasConstraint(constraint) => Spaceless(sentence)
         /\ LookingUp => /\ end \in Nat /\ begin2 \in Nat /\ begin3 \in Nat
                         /\ end \in pos+1 .. size /\ begin2 \in pos .. end
                         /\ begin3 \in begin2+1 .. end+1 /\ begin3 \in pos+1..size+1
                         /\ end < size + 1
<1>1. place # "initPartial"
  BY DEF LookingUp
<1>2. IsText(sentence) /\ pos \in 0..size /\ IsConstraint(constraint, size)
      /\ (HasConstraint(constraint) => Spaceless(sentence))
  BY <1>1 DEF TextInv
<1>3. size \in Nat
  BY <1>2, SizeType
<1>4. pos < size /\ pos \in Nat
  BY <1>2, <1>3 DEF LookupInv
<1>5. ASSUME LookingUp
      PROVE  /\ end \in Nat /\ begin2 \in Nat /\ begin3 \in Nat
             /\ end \in pos+1 .. size /\ begin2 \in pos .. end
             /\ begin3 \in begin2+1 .. end+1 /\ begin3 \in pos+1..size+1
             /\ end < size + 1
  <2>1. end \in pos+1 .. size /\ begin2 \in pos .. end /\ begin3 \in begin2+1 .. end+1
    BY <1>5 DEF LookupInv
  <2> QED BY <1>3, <1>4, <2>1
<1> QED BY <1>2, <1>3, <1>4, <1>5

(* What a stage that follows has to show. *)
LEMMA LookupGoesOn ==
  ASSUME TextInv, LookupInv, LookingUp \/ place = "lookup", UNCHANGED sentenceVars,
         place' \in {"dictionary", "blank", "group", "count", "single", "stretch", "force",
                     "connect", "died"},
         end' \in pos+1 .. size /\ begin2' \in pos .. end' /\ begin3' \in begin2'+1 .. end'+1,
         HasConstraint(constraint) => begin2' = pos,
         cinfo' \in Infos,
         found' \in Seq(WordsAt(pos, size)),
         place' = "dictionary" => begin3' = begin2' + 1,
         place' = "blank" => ~ HasConstraint(constraint),
         place' = "group" => begin3' <= end',
         place' = "connect" => found' # <<>>,
         place' \in {"stretch", "force"} => HasConstraint(constraint)
  PROVE  TextInv' /\ LookupInv'
<1>1. place # "initPartial" /\ place' # "initPartial"
  BY DEF LookingUp
<1>2. sentence' = sentence /\ constraint' = constraint /\ pos' = pos
  BY DEF sentenceVars
<1>3. size' = size
  BY <1>2 DEF size
<1>4. TextInv'
  BY <1>1, <1>2, <1>3 DEF TextInv
<1>5. pos < size
  BY DEF LookupInv
<1>6. LookupInv'
  BY <1>2, <1>3, <1>5 DEF LookupInv, LookingUp
<1> QED BY <1>4, <1>6

\* Skipping white space keeps the invariant of lookup.
LEMMA SkipSpaceInv ==
  ASSUME TextInv, LookupInv, SkipSpace PROVE TextInv' /\ LookupInv'
<1>1. place = "lookup" /\ place' = "dictionary" /\ UNCHANGED sentenceVars
  BY DEF SkipSpace, Stage
<1>2. /\ size \in Nat /\ pos \in Nat /\ pos < size /\ IsText(sentence)
      /\ HasConstraint(constraint) => Spaceless(sentence)
  BY <1>1, LookupReady
<1>3. size = Len(sentence)
  BY DEF size
<1>4. end' \in pos+1..size
  BY <1>2, <1>3, LookupEndType DEF SkipSpace
<1>5. /\ begin2' \in pos..end'
      /\ ~ IsKindOf(Property[Space], Info(sentence, pos)) => begin2' = pos
  <2>1. end' \in Nat /\ pos <= end' /\ end' <= Len(sentence)
    BY <1>2, <1>3, <1>4
  <2> QED BY <1>2, <2>1, SeekStops DEF SkipSpace
<1>6. HasConstraint(constraint) => begin2' = pos
  <2> SUFFICES ASSUME HasConstraint(constraint) PROVE begin2' = pos
    OBVIOUS
  <2>1. pos + 1 \in DOMAIN sentence
    BY <1>2, <1>3 DEF IsText
  <2>2. Info(sentence, pos) = Property[sentence[pos + 1]]
    BY <1>2, <1>3 DEF Info
  <2> QED BY <1>2, <1>5, <2>1, <2>2 DEF Spaceless
<1>7. cinfo' \in Infos
  <2>1. end' - 1 \in Nat /\ begin2' \in Nat
    <3>1. PICK e \in pos+1..size : e = end'
      BY <1>4
    <3>2. PICK b \in pos..e : b = begin2'
      BY <1>5, <3>1
    <3>3. e - 1 \in Nat /\ b \in Nat
      BY <1>2
    <3> QED BY <3>1, <3>2, <3>3
  <2> QED BY <1>2, <2>1, InfoType DEF SkipSpace
<1>8. begin3' = begin2' + 1 /\ found' = <<>>
  BY DEF SkipSpace
<1>9. begin3' \in begin2'+1 .. end'+1
  <2>1. PICK e \in pos+1..size : e = end'
    BY <1>4
  <2>2. PICK b \in pos..e : b = begin2'
    BY <1>5, <2>1
  <2>3. b + 1 \in b+1..e+1
    BY <1>2
  <2> QED BY <1>8, <2>1, <2>2, <2>3
<1>10. found' \in Seq(WordsAt(pos, size))
  BY <1>8
<1> QED BY <1>1, <1>4, <1>5, <1>6, <1>7, <1>8, <1>9, <1>10, LookupGoesOn

(* The dictionaries hold words of known tokens, and a word found at begin2 *)
(* ends inside the sentence.                                               *)
LEMMA DictionaryWords ==
  ASSUME NEW d \in DOMAIN Dictionaries, IsText(sentence), size \in Nat, pos \in Nat,
         begin2 \in pos..size, end \in begin2..size, pos < size
  PROVE  LET lengths == PrefixLengths(Dictionaries[d], sentence, begin2, end - begin2)
         IN  FlattenSeq(Reverse([i \in DOMAIN lengths |->
               Made("nor", Dictionaries[d][SubSeq(sentence, begin2 + 1, begin2 + lengths[i])],
                    begin2 + lengths[i])])) \in Seq(WordsAt(pos, size))
<1> DEFINE dic == Dictionaries[d]
           lengths == PrefixLengths(dic, sentence, begin2, end - begin2)
           reach == IF end - begin2 = 0 THEN Len(sentence) - begin2 ELSE end - begin2
           ks == [k \in 1..reach |-> k]
           known == { k \in 1..reach : SubSeq(sentence, begin2 + 1, begin2 + k) \in DOMAIN dic }
           M(i) == Made("nor", dic[SubSeq(sentence, begin2 + 1, begin2 + lengths[i])], begin2 + lengths[i])
           lists == [i \in DOMAIN lengths |-> M(i)]
<1>1. reach \in Nat /\ begin2 + reach <= size
  BY DEF size
<1>2. lengths = Picked(ks, known)
  BY DEF PrefixLengths
<1> HIDE DEF lengths
<1>3. ks \in Seq(1..reach) /\ Len(ks) = reach /\ \A k \in 1..reach : ks[k] = k
  <2> HIDE DEF reach
  <2>1. ks \in [1..reach -> 1..reach]
    OBVIOUS
  <2> QED BY <1>1, <2>1
<1> HIDE DEF reach, ks, known
<1>4. lengths \in Seq(1..reach) /\ ToSet(lengths) = { ks[i] : i \in (1..Len(ks)) \intersect known }
  BY <1>2, <1>3, PickedElements
<1>5. \A i \in DOMAIN lengths : lengths[i] \in 1..reach /\ lengths[i] \in known
  <2> TAKE i \in DOMAIN lengths
  <2>1. lengths[i] \in ToSet(lengths)
    BY DEF ToSet
  <2>2. PICK j \in (1..Len(ks)) \intersect known : lengths[i] = ks[j]
    BY <1>4, <2>1
  <2>3. lengths[i] = j
    BY <1>3, <2>2
  <2> QED BY <1>3, <2>2, <2>3
<1>6. ASSUME NEW i \in DOMAIN lengths PROVE M(i) \in Seq(WordsAt(pos, size))
  <2> DEFINE w == SubSeq(sentence, begin2 + 1, begin2 + lengths[i])
             past == begin2 + lengths[i]
  <2>1. w \in DOMAIN dic
    BY <1>5, <1>6 DEF known
  <2>2. dic[w] \in Seq(Tokens)
    <3> HIDE DEF w
    <3> QED BY <2>1, TokenizerAssumption
  <2>3. Tokens \subseteq NodeTokens
    BY DEF NodeTokens
  <2>4. dic[w] \in Seq(NodeTokens)
    <3> HIDE DEF w, dic
    <3> QED BY <2>2, <2>3
  <2>5. past \in pos+1..size+1
    <3>1. lengths[i] \in 1..reach
      BY <1>5, <1>6
    <3> QED BY <1>1, <3>1
  <2>6. begin2 \in Int
    OBVIOUS
  <2>7. Made("nor", dic[w], past) \in Seq(WordsAt(pos, size))
    <3> HIDE DEF w, dic, past
    <3> QED BY <2>4, <2>5, <2>6, MadeWords
  <2> QED BY <2>7
<1>7. lists \in Seq(Seq(WordsAt(pos, size)))
  <2>1. DOMAIN lengths = 1..Len(lengths) /\ Len(lengths) \in Nat
    BY <1>4
  <2> HIDE DEF M
  <2>2. lists \in [1..Len(lengths) -> Seq(WordsAt(pos, size))]
    BY <1>6, <2>1
  <2> HIDE DEF lists
  <2> QED BY <2>1, <2>2
<1> HIDE DEF lists
<1>8. Reverse(lists) \in Seq(Seq(WordsAt(pos, size)))
  BY <1>7, ReverseElements
<1>9. FlattenSeq(Reverse(lists)) \in Seq(WordsAt(pos, size))
  BY <1>8, FlattenElements
<1> QED BY <1>9 DEF lists, lengths

\* The search of the dictionaries keeps it: a hit is a word at pos.
LEMMA SearchDictionariesInv ==
  ASSUME TextInv, LookupInv, SearchDictionaries PROVE TextInv' /\ LookupInv'
<1>1. place = "dictionary" /\ UNCHANGED <<sentenceVars, end, begin2, begin3, group_begin3, cinfo>>
  BY DEF SearchDictionaries
<1>2. LookingUp
  BY <1>1 DEF LookingUp
<1>3. /\ size \in Nat /\ pos \in Nat /\ pos < size /\ IsText(sentence)
      /\ end \in Nat /\ begin2 \in Nat /\ begin3 \in Nat
      /\ end \in pos+1 .. size /\ begin2 \in pos .. end
      /\ begin3 \in begin2+1 .. end+1
  BY <1>2, LookupReady
<1> DEFINE Prefixed(dic) ==
             LET lengths == PrefixLengths(dic, sentence, begin2, end - begin2)
             IN  FlattenSeq(Reverse([i \in DOMAIN lengths |->
                   Made("nor", dic[SubSeq(sentence, begin2 + 1, begin2 + lengths[i])],
                        begin2 + lengths[i])]))
           lists == [d \in DOMAIN Dictionaries |-> Prefixed(Dictionaries[d])]
<1>4. ASSUME NEW d \in DOMAIN Dictionaries PROVE Prefixed(Dictionaries[d]) \in Seq(WordsAt(pos, size))
  <2>1. begin2 \in pos..size /\ end \in begin2..size
    BY <1>3
  <2> QED BY <1>3, <2>1, DictionaryWords
<1> HIDE DEF Prefixed
<1>5. lists \in Seq(Seq(WordsAt(pos, size)))
  <2>1. DOMAIN Dictionaries = 1..Len(Dictionaries) /\ Len(Dictionaries) \in Nat
    BY TokenizerAssumption
  <2>2. lists \in [1..Len(Dictionaries) -> Seq(WordsAt(pos, size))]
    BY <1>4, <2>1
  <2> HIDE DEF lists
  <2> QED BY <2>1, <2>2
<1>6. /\ found' = FlattenSeq(Reverse(lists))
      /\ place' = IF found' # <<>> /\ ~ cinfo.invoke THEN "connect"
                  ELSE IF begin3 > end THEN "blank" ELSE "group"
  BY DEF SearchDictionaries, Prefixed
<1> HIDE DEF lists
<1>7. found' \in Seq(WordsAt(pos, size))
  BY <1>5, <1>6, ReverseElements, FlattenElements
<1>8. begin3 > end => ~ HasConstraint(constraint)
  <2>1. begin3 = begin2 + 1
    BY <1>1 DEF LookupInv
  <2>2. HasConstraint(constraint) => begin2 = pos
    BY <1>2 DEF LookupInv
  <2> QED BY <1>3, <2>1, <2>2
<1>9. (HasConstraint(constraint) => begin2 = pos) /\ cinfo \in Infos
  BY <1>2 DEF LookupInv
<1>10. begin3 > end \/ begin3 <= end
  BY <1>3
<1>11. /\ place' \in {"connect", "blank", "group"}
       /\ place' = "connect" => found' # <<>>
       /\ place' = "blank" => begin3 > end
       /\ place' = "group" => begin3 <= end
  BY <1>6, <1>10
<1>12. /\ end' \in pos+1 .. size /\ begin2' \in pos .. end' /\ begin3' \in begin2'+1 .. end'+1
       /\ HasConstraint(constraint) => begin2' = pos
       /\ cinfo' \in Infos
       /\ place' = "blank" => ~ HasConstraint(constraint)
       /\ place' = "group" => begin3' <= end'
  BY <1>1, <1>3, <1>8, <1>9, <1>11
<1> QED BY <1>1, <1>2, <1>7, <1>11, <1>12, LookupGoesOn

(* What the stages of unknown words see and make. *)
LEMMA UnknownReady ==
  ASSUME TextInv, LookupInv, LookingUp
  PROVE  /\ (HasConstraint(constraint) => begin2 = pos) /\ cinfo \in Infos
         /\ found \in Seq(WordsAt(pos, size))
         /\ \A past \in pos+1..size+1 : \A info \in Infos :
              /\ Unknown(past, info) \in Seq(WordsAt(pos, size))
              /\ Unknown(past, info) \o found \in Seq(WordsAt(pos, size))
              /\ ~ HasConstraint(constraint) => Unknown(past, info) # <<>>
              /\ Unknown(past, info) # <<>> => Unknown(past, info) \o found # <<>>
<1>1. (HasConstraint(constraint) => begin2 = pos) /\ cinfo \in Infos
      /\ found \in Seq(WordsAt(pos, size))
  BY DEF LookupInv
<1>2. size \in Nat /\ pos \in Nat /\ begin2 \in Int /\ IsConstraint(constraint, size)
  BY LookupReady
<1>3. ASSUME NEW past \in pos+1..size+1, NEW info \in Infos
      PROVE  /\ Unknown(past, info) \in Seq(WordsAt(pos, size))
             /\ Unknown(past, info) \o found \in Seq(WordsAt(pos, size))
             /\ ~ HasConstraint(constraint) => Unknown(past, info) # <<>>
             /\ Unknown(past, info) # <<>> => Unknown(past, info) \o found # <<>>
  <2> DEFINE u == Unknown(past, info)
  <2>1. u \in Seq(WordsAt(pos, size)) /\ (~ HasConstraint(constraint) => u # <<>>)
    BY <1>2, UnknownWords
  <2> HIDE DEF u
  <2>2. u \o found \in Seq(WordsAt(pos, size)) /\ (u # <<>> => u \o found # <<>>)
    BY <1>1, <2>1
  <2> QED BY <2>1, <2>2 DEF u
<1> QED BY <1>1, <1>3

\* The node of trailing white space keeps it.
LEMMA AddBlankInv ==
  ASSUME TextInv, LookupInv, AddBlank PROVE TextInv' /\ LookupInv'
<1>1. /\ place = "blank" /\ UNCHANGED <<sentenceVars, end, begin2, begin3, group_begin3, cinfo>>
      /\ found' = Unknown(begin3, cinfo) \o found
      /\ place' = IF found' # <<>> THEN "connect" ELSE "group"
  BY DEF AddBlank
<1>2. LookingUp /\ ~ HasConstraint(constraint)
  BY <1>1 DEF LookingUp, LookupInv
<1>3. /\ end \in pos+1 .. size /\ begin2 \in pos .. end /\ begin3 \in begin2+1 .. end+1
      /\ begin3 \in pos+1..size+1
  BY <1>2, LookupReady
<1>4. found' \in Seq(WordsAt(pos, size)) /\ found' # <<>> /\ cinfo \in Infos
  BY <1>1, <1>2, <1>3, UnknownReady
<1>5. place' = "connect"
  BY <1>1, <1>4
<1>6. /\ end' \in pos+1 .. size /\ begin2' \in pos .. end' /\ begin3' \in begin2'+1 .. end'+1
      /\ cinfo' \in Infos
  BY <1>1, <1>3, <1>4
<1> QED BY <1>1, <1>2, <1>4, <1>5, <1>6, LookupGoesOn

\* Grouping characters of a kind keeps it.
LEMMA AddGroupInv ==
  ASSUME TextInv, LookupInv, AddGroup PROVE TextInv' /\ LookupInv'
<1>1. /\ place = "group" /\ place' = "count" /\ UNCHANGED <<sentenceVars, end, begin2, begin3, cinfo>>
  BY DEF AddGroup, Stage
<1>2. LookingUp /\ begin3 <= end
  BY <1>1 DEF LookingUp, LookupInv
<1>3. /\ size \in Nat /\ pos \in Nat /\ IsText(sentence) /\ end \in Nat /\ begin3 \in Nat
      /\ end \in pos+1 .. size /\ begin2 \in pos .. end /\ begin3 \in begin2+1 .. end+1
      /\ begin3 \in pos+1..size+1
  BY <1>2, LookupReady
<1>4. (HasConstraint(constraint) => begin2 = pos) /\ cinfo \in Infos
      /\ found \in Seq(WordsAt(pos, size))
  BY <1>2, UnknownReady
<1>5. found' \in Seq(WordsAt(pos, size))
  <2>1. CASE cinfo.group
    <3>1. group_begin3' = SeekToOtherType(sentence, begin3, end, cinfo)
          /\ found' = IF group_begin3' - begin3 <= MaxGroupingSize
                      THEN Unknown(group_begin3', cinfo) \o found ELSE found
      BY <2>1 DEF AddGroup
    <3>2. end <= Len(sentence)
      BY <1>3 DEF size
    <3>3. group_begin3' \in begin3..end
      BY <1>2, <1>3, <3>1, <3>2, SeekStops
    <3>4. group_begin3' \in pos+1..size+1
      BY <1>3, <3>3
    <3>5. Unknown(group_begin3', cinfo) \o found \in Seq(WordsAt(pos, size))
      BY <1>2, <1>4, <3>4, UnknownReady
    <3> QED BY <1>4, <3>1, <3>5
  <2>2. CASE ~ cinfo.group
    BY <1>4, <2>2 DEF AddGroup
  <2> QED BY <2>1, <2>2
<1>6. /\ end' \in pos+1 .. size /\ begin2' \in pos .. end' /\ begin3' \in begin2'+1 .. end'+1
      /\ cinfo' \in Infos /\ (HasConstraint(constraint) => begin2' = pos)
  BY <1>1, <1>3, <1>4
<1> QED BY <1>1, <1>2, <1>5, <1>6, LookupGoesOn

\* Unknown words of a counted length keep it.
LEMMA AddCountedInv ==
  ASSUME TextInv, LookupInv, AddCounted PROVE TextInv' /\ LookupInv'
<1>1. /\ place = "count" /\ begin3 <= end /\ UNCHANGED <<sentenceVars, end, begin2, group_begin3, cinfo>>
      /\ found' = Unknown(begin3, cinfo) \o found
      /\ \/ begin3' = begin3 + 1 /\ place' = "count"
         \/ begin3' = begin3 /\ place' = "single"
  BY DEF AddCounted, Counting
<1>2. LookingUp
  BY <1>1 DEF LookingUp
<1>3. /\ size \in Nat /\ pos \in Nat /\ end \in Nat /\ begin3 \in Nat /\ begin2 \in Nat
      /\ end \in pos+1 .. size /\ begin2 \in pos .. end /\ begin3 \in begin2+1 .. end+1
      /\ begin3 \in pos+1..size+1
  BY <1>2, LookupReady
<1>4. (HasConstraint(constraint) => begin2 = pos) /\ cinfo \in Infos
      /\ found' \in Seq(WordsAt(pos, size))
  BY <1>1, <1>2, <1>3, UnknownReady
<1>5. begin3' \in begin2+1 .. end+1
  BY <1>1, <1>3
<1>6. /\ end' \in pos+1 .. size /\ begin2' \in pos .. end' /\ begin3' \in begin2'+1 .. end'+1
      /\ cinfo' \in Infos /\ (HasConstraint(constraint) => begin2' = pos)
  BY <1>1, <1>3, <1>4, <1>5
<1>7. place' \in {"count", "single"}
  BY <1>1
<1> QED BY <1>1, <1>2, <1>4, <1>6, <1>7, LookupGoesOn

\* The end of the count keeps it.
LEMMA EndCountingInv ==
  ASSUME TextInv, LookupInv, EndCounting PROVE TextInv' /\ LookupInv'
<1>1. /\ place = "count" /\ place' = "single"
      /\ UNCHANGED <<sentenceVars, end, begin2, begin3, group_begin3, cinfo, found>>
  BY DEF EndCounting, Stage
<1>2. LookingUp
  BY <1>1 DEF LookingUp
<1>3. /\ end \in pos+1 .. size /\ begin2 \in pos .. end /\ begin3 \in begin2+1 .. end+1
  BY <1>2, LookupReady
<1>4. (HasConstraint(constraint) => begin2 = pos) /\ cinfo \in Infos
      /\ found \in Seq(WordsAt(pos, size))
  BY <1>2, UnknownReady
<1>6. /\ end' \in pos+1 .. size /\ begin2' \in pos .. end' /\ begin3' \in begin2'+1 .. end'+1
      /\ cinfo' \in Infos /\ (HasConstraint(constraint) => begin2' = pos)
      /\ found' \in Seq(WordsAt(pos, size))
  BY <1>1, <1>3, <1>4
<1> QED BY <1>1, <1>2, <1>6, LookupGoesOn

\* The word of one character keeps it: without constraints lookup finds
\* something.
LEMMA AddSingleInv ==
  ASSUME TextInv, LookupInv, AddSingle PROVE TextInv' /\ LookupInv'
<1>1. /\ place = "single" /\ UNCHANGED <<sentenceVars, end, begin2, begin3, group_begin3, cinfo>>
      /\ found' = IF found = <<>> THEN Unknown(begin3, cinfo) ELSE found
      /\ place' = IF found' = <<>> /\ HasConstraint(constraint) THEN "stretch" ELSE "connect"
  BY DEF AddSingle
<1>2. LookingUp
  BY <1>1 DEF LookingUp
<1>3. /\ end \in pos+1 .. size /\ begin2 \in pos .. end /\ begin3 \in begin2+1 .. end+1
      /\ begin3 \in pos+1..size+1
  BY <1>2, LookupReady
<1>4. (HasConstraint(constraint) => begin2 = pos) /\ cinfo \in Infos
      /\ found \in Seq(WordsAt(pos, size))
      /\ Unknown(begin3, cinfo) \in Seq(WordsAt(pos, size))
      /\ (~ HasConstraint(constraint) => Unknown(begin3, cinfo) # <<>>)
  BY <1>2, <1>3, UnknownReady
<1>5. /\ found' \in Seq(WordsAt(pos, size))
      /\ place' \in {"stretch", "connect"}
      /\ place' = "connect" => found' # <<>>
      /\ place' = "stretch" => HasConstraint(constraint)
  BY <1>1, <1>4
<1>6. /\ end' \in pos+1 .. size /\ begin2' \in pos .. end' /\ begin3' \in begin2'+1 .. end'+1
      /\ cinfo' \in Infos /\ (HasConstraint(constraint) => begin2' = pos)
  BY <1>1, <1>3, <1>4
<1> QED BY <1>1, <1>2, <1>5, <1>6, LookupGoesOn

\* Stretching the word to the next boundary keeps it.
LEMMA AddStretchedInv ==
  ASSUME TextInv, LookupInv, AddStretched PROVE TextInv' /\ LookupInv'
<1>1. /\ place = "stretch" /\ UNCHANGED <<sentenceVars, end, begin2, group_begin3>>
      /\ cinfo' = Info(sentence, begin3' - 1)
      /\ found' = Unknown(begin3', cinfo')
      /\ place' = IF found' # <<>> THEN "connect" ELSE "force"
  BY DEF AddStretched
<1>2. LookingUp /\ HasConstraint(constraint)
  BY <1>1 DEF LookingUp, LookupInv
<1>3. /\ size \in Nat /\ pos \in Nat /\ end \in Nat /\ begin2 \in Nat /\ IsText(sentence)
      /\ end \in pos+1 .. size /\ begin2 \in pos .. end
  BY <1>2, LookupReady
<1> DEFINE Free(p) == p > end \/ BoundaryAt(constraint, p) # "inside"
           First(p) == Free(p) /\ \A q \in begin2+1..p-1 : ~ Free(q)
           S == { p \in begin2+1..end+1 : Free(p) }
<1>4. begin3' = CHOOSE p \in begin2+1..Len(sentence)+1 : First(p)
  <2>1. ASSUME NEW p \in begin2+1..Len(sentence)+1
        PROVE  First(p) <=> /\ p > end \/ BoundaryAt(constraint, p) # "inside"
                            /\ \A q \in begin2+1..p-1 : q <= end /\ BoundaryAt(constraint, q) = "inside"
    <3>1. \A q \in begin2+1..p-1 : ~ (q > end) <=> q <= end
      BY <1>3
    <3> QED BY <3>1
  <2> HIDE DEF First
  <2> QED BY <2>1 DEF AddStretched
<1>5. end + 1 \in S
  BY <1>3
<1> HIDE DEF Free
<1>6. PICK m \in S : \A k \in S : m <= k
  <2>1. S \in SUBSET (begin2+1..end+1) /\ S # {} /\ begin2+1 \in Int /\ end+1 \in Int
    BY <1>3, <1>5
  <2> HIDE DEF S
  <2> QED BY <2>1, LeastExists
<1>7. m \in begin2+1..Len(sentence)+1 /\ First(m)
  <2>1. ASSUME NEW q \in begin2+1..m-1, Free(q) PROVE FALSE
    <3>1. q \in S /\ q < m
      BY <1>3, <2>1
    <3>2. m <= q
      BY <1>6, <3>1
    <3> QED BY <1>3, <3>1, <3>2
  <2> QED BY <1>3, <1>6, <2>1 DEF size
<1>8. ASSUME NEW p \in begin2+1..Len(sentence)+1, First(p) PROVE p <= end + 1
  <2> SUFFICES ASSUME end + 1 < p PROVE FALSE
    BY <1>3
  <2>1. end + 1 \in begin2+1..p-1
    BY <1>3
  <2> QED BY <1>5, <1>8, <2>1
<1> HIDE DEF First
<1>9. begin3' \in begin2+1..Len(sentence)+1 /\ First(begin3')
  BY <1>4, <1>7
<1>10. begin3' \in begin2+1..end+1
  <2>1. begin3' <= end + 1
    BY <1>8, <1>9
  <2> QED BY <1>3, <1>9, <2>1
<1>11. begin3' \in pos+1..size+1 /\ begin3' - 1 \in Nat
  <2>1. PICK b \in begin2+1..end+1 : b = begin3'
    BY <1>10
  <2>2. b \in pos+1..size+1 /\ b - 1 \in Nat
    BY <1>3
  <2> QED BY <2>1, <2>2
<1>12. cinfo' \in Infos
  BY <1>1, <1>3, <1>11, InfoType
<1>13. found' \in Seq(WordsAt(pos, size))
  BY <1>1, <1>2, <1>11, <1>12, UnknownReady
<1>14. /\ place' \in {"connect", "force"} /\ (place' = "connect" => found' # <<>>)
  BY <1>1
<1>15. begin2 = pos
  BY <1>2, UnknownReady
<1>16. /\ end' \in pos+1 .. size /\ begin2' \in pos .. end' /\ begin3' \in begin2'+1 .. end'+1
       /\ (HasConstraint(constraint) => begin2' = pos)
  BY <1>1, <1>3, <1>10, <1>15
<1> QED BY <1>1, <1>2, <1>12, <1>13, <1>14, <1>16, LookupGoesOn

\* The word a constraint forces keeps it.
LEMMA AddForcedInv ==
  ASSUME TextInv, LookupInv, AddForced PROVE TextInv' /\ LookupInv'
<1> DEFINE n == Node("unk", begin2, begin3 - begin2, begin3 - pos,
                     [NullToken EXCEPT !.feature = FeatureAt(constraint, pos)])
<1>1. /\ place = "force" /\ UNCHANGED <<sentenceVars, end, begin2, begin3, group_begin3, cinfo>>
      /\ found' = <<n>>
      /\ place' = IF FeatureAt(constraint, pos) = None THEN "died" ELSE "connect"
  BY DEF AddForced
<1>2. LookingUp /\ HasConstraint(constraint)
  BY <1>1 DEF LookingUp, LookupInv
<1>3. /\ size \in Nat /\ pos \in Nat /\ end \in Nat /\ begin2 \in Nat /\ begin3 \in Nat
      /\ end \in pos+1 .. size /\ begin2 \in pos .. end /\ begin3 \in begin2+1 .. end+1
      /\ begin3 \in pos+1..size+1 /\ IsConstraint(constraint, size)
  BY <1>2, LookupReady
<1>4. begin2 = pos /\ cinfo \in Infos
  BY <1>2, UnknownReady
<1>5. FeatureAt(constraint, pos) \in ConstraintFeatures
  <2>1. None \in ConstraintFeatures
    BY DEF ConstraintFeatures
  <2>2. constraint.feature # <<>> => constraint.feature \in [0..size+3 -> ConstraintFeatures]
    BY <1>2, <1>3 DEF IsConstraint, HasConstraint, NoConstraint
  <2>3. pos \in 0..size+3
    BY <1>3
  <2> QED BY <2>1, <2>2, <2>3 DEF FeatureAt
<1>6. n \in WordsAt(pos, size)
  <2> DEFINE t == [NullToken EXCEPT !.feature = FeatureAt(constraint, pos)]
  <2>1. t \in NodeTokens
    BY <1>5 DEF NodeTokens
  <2> HIDE DEF t
  <2> DEFINE m == Node("unk", begin2, begin3 - begin2, begin3 - pos, t)
  <2>2. m \in [stat : {"nor", "unk"}, surface : Int, length : Int, rlength : Int, token : NodeTokens]
    BY <1>3, <2>1 DEF Node
  <2>3. BeginOf(m) = pos /\ EndOf(m) = begin3
    BY <1>3, <1>4 DEF Node, BeginOf, EndOf
  <2>4. m \in WordsAt(pos, size)
    BY <1>3, <2>2, <2>3 DEF WordsAt
  <2> QED BY <2>4 DEF t
<1> HIDE DEF n
<1>7. found' \in Seq(WordsAt(pos, size)) /\ found' # <<>>
  BY <1>1, <1>6
<1>8. /\ end' \in pos+1 .. size /\ begin2' \in pos .. end' /\ begin3' \in begin2'+1 .. end'+1
      /\ cinfo' \in Infos /\ (HasConstraint(constraint) => begin2' = pos)
      /\ place' \in {"died", "connect"}
  BY <1>1, <1>3, <1>4
<1> QED BY <1>1, <1>2, <1>7, <1>8, LookupGoesOn

(* Every node found at a position begins there and ends inside the text or *)
(* at its terminator.                                                      *)
LEMMA LookupKeeps ==
  ASSUME TextInv, LookupInv, Lookup PROVE TextInv' /\ LookupInv'
BY SkipSpaceInv, SearchDictionariesInv, AddBlankInv, AddGroupInv, AddCountedInv, EndCountingInv,
   AddSingleInv, AddStretchedInv, AddForcedInv DEF Lookup

\* lookup goes from stage to stage, or dies, and leaves its sentence alone.
LEMMA LookupPlaces ==
  ASSUME Lookup
  PROVE  /\ LookingUp \/ place = "lookup"
         /\ LookingUp' \/ place' = "died"
         /\ sentence' = sentence /\ constraint' = constraint /\ pos' = pos
BY DEF Lookup, LookingUp, Stage, sentenceVars, SkipSpace, SearchDictionaries, AddBlank,
       AddGroup, AddCounted, EndCounting, AddSingle, AddStretched, AddForced

-----------------------------------------------------------------------------
(* connect *)

\* Left in connect picks a neighbour of the least cost.
LEMMA LeastOf ==
  ASSUME NEW n \in Nat, n # 0, NEW f, \A i \in 1..n : f[i] \in Int
  PROVE  \E i \in 1..n : \A j \in 1..n : f[i] < f[j] \/ (f[i] = f[j] /\ i <= j)
<1> DEFINE Good == { k \in Nat : k + 1 <= n =>
             \E i \in 1..k + 1 : \A j \in 1..k + 1 : f[i] < f[j] \/ (f[i] = f[j] /\ i <= j) }
<1>1. 0 \in Good
  OBVIOUS
<1>2. ASSUME NEW k \in Nat, k \in Good PROVE k + 1 \in Good
  <2> SUFFICES ASSUME k + 1 + 1 <= n
               PROVE  \E i \in 1..k + 1 + 1 : \A j \in 1..k + 1 + 1 :
                        f[i] < f[j] \/ (f[i] = f[j] /\ i <= j)
    OBVIOUS
  <2>1. PICK i \in 1..k + 1 : \A j \in 1..k + 1 : f[i] < f[j] \/ (f[i] = f[j] /\ i <= j)
    BY <1>2
  <2>2. f[i] \in Int /\ f[k + 1 + 1] \in Int /\ \A j \in 1..k + 1 : f[j] \in Int
    OBVIOUS
  <2>3. CASE f[i] <= f[k + 1 + 1]
    <3>1. \A j \in 1..k + 1 + 1 : f[i] < f[j] \/ (f[i] = f[j] /\ i <= j)
      <4> TAKE j \in 1..k + 1 + 1
      <4>1. j \in 1..k + 1 \/ j = k + 1 + 1
        OBVIOUS
      <4> QED BY <2>1, <2>2, <2>3, <4>1
    <3> QED BY <3>1
  <2>4. CASE f[k + 1 + 1] < f[i]
    <3>1. \A j \in 1..k + 1 + 1 : f[k + 1 + 1] < f[j] \/ (f[k + 1 + 1] = f[j] /\ k + 1 + 1 <= j)
      <4> TAKE j \in 1..k + 1 + 1
      <4>1. CASE j \in 1..k + 1
        <5>1. f[i] <= f[j] /\ f[j] \in Int
          BY <2>1, <2>2, <4>1
        <5>2. \A x, y, z \in Int : x < y /\ y <= z => x < z
          OBVIOUS
        <5>3. f[k + 1 + 1] < f[j]
          BY <2>2, <2>4, <5>1, <5>2, Zenon
        <5> QED BY <5>3
      <4>2. CASE j = k + 1 + 1
        BY <4>2
      <4> QED BY <4>1, <4>2
    <3> QED BY <3>1
  <2> QED BY <2>2, <2>3, <2>4
<1> HIDE DEF Good
<1>3. Nat \subseteq Good
  BY <1>1, <1>2, NatSetInduction
<1>4. n - 1 \in Good /\ (n - 1) + 1 = n
  BY <1>3
<1> QED BY <1>4 DEF Good

\* The cost of a link between two nodes of the lattice is a number.
LEMMA LocalCostType ==
  ASSUME NEW l, NEW r, l.token \in NodeTokens, r.token \in NodeTokens
  PROVE  LocalCost(l, r) \in Int
<1>1. ASSUME NEW t \in NodeTokens
      PROVE  /\ t.wcost \in Int
             /\ \E u \in Tokens \union {NullToken} : u.rcAttr = t.rcAttr /\ u.lcAttr = t.lcAttr
  <2>1. NullToken.wcost \in Int
    BY DEF NullToken
  <2>2. CASE t \in Tokens \union {NullToken}
    BY <2>1, <2>2, CostAssumption
  <2>3. CASE \E f \in ConstraintFeatures : t = [NullToken EXCEPT !.feature = f]
    <3>1. t.wcost = NullToken.wcost /\ t.rcAttr = NullToken.rcAttr /\ t.lcAttr = NullToken.lcAttr
      BY <2>3 DEF NullToken
    <3> QED BY <2>1, <3>1
  <2> QED BY <2>2, <2>3 DEF NodeTokens
<1>2. PICK u \in Tokens \union {NullToken} : u.rcAttr = l.token.rcAttr
  BY <1>1
<1>3. PICK v \in Tokens \union {NullToken} : v.lcAttr = r.token.lcAttr
  BY <1>1
<1>4. Matrix[u.rcAttr + LSize * v.lcAttr] \in Int
  BY CostAssumption
<1>5. Matrix[l.token.rcAttr + LSize * r.token.lcAttr] \in Int
  BY <1>2, <1>3, <1>4
<1>6. r.token.wcost \in Int
  BY <1>1
<1> QED BY <1>5, <1>6 DEF LocalCost

(* The left neighbour chosen is a cheapest one; there is none only if the  *)
(* way through every one reaches the limit.                                *)
LEMMA BestLeftIs ==
  ASSUME NEW N, NEW lnodes \in Seq(N), NEW r, \A l \in N : CostThrough(l, r) \in Int
  PROVE  /\ \A i \in BestLeft(lnodes, r) :
              /\ i \in DOMAIN lnodes /\ CostThrough(lnodes[i], r) < CostLimit
              /\ \A l \in ToSet(lnodes) : CostThrough(lnodes[i], r) <= CostThrough(l, r)
         /\ BestLeft(lnodes, r) = {} => \A l \in ToSet(lnodes) : CostThrough(l, r) >= CostLimit
<1> DEFINE f == [i \in 1..Len(lnodes) |-> CostThrough(lnodes[i], r)]
<1>0. DOMAIN lnodes = 1..Len(lnodes) /\ Len(lnodes) \in Nat /\ \A i \in 1..Len(lnodes) : lnodes[i] \in N
  OBVIOUS
<1>1. \A i \in 1..Len(lnodes) : f[i] \in Int /\ f[i] = CostThrough(lnodes[i], r)
  BY <1>0
<1> HIDE DEF f
<1>2. BestLeft(lnodes, r) =
        { i \in 1..Len(lnodes) : /\ f[i] < CostLimit
                                 /\ \A j \in 1..Len(lnodes) : f[i] < f[j] \/ (f[i] = f[j] /\ i <= j) }
  <2>1. ASSUME NEW i \in 1..Len(lnodes)
        PROVE  (\A j \in DOMAIN lnodes :
                  \/ CostThrough(lnodes[i], r) < CostThrough(lnodes[j], r)
                  \/ CostThrough(lnodes[i], r) = CostThrough(lnodes[j], r) /\ i <= j)
               <=> \A j \in 1..Len(lnodes) : f[i] < f[j] \/ (f[i] = f[j] /\ i <= j)
    BY <1>0, <1>1, Zenon
  <2>2. \A i \in 1..Len(lnodes) : CostThrough(lnodes[i], r) = f[i]
    BY <1>1
  <2> QED BY <1>0, <2>1, <2>2, Zenon DEF BestLeft
<1>3. ASSUME NEW i \in BestLeft(lnodes, r)
      PROVE  /\ i \in DOMAIN lnodes /\ CostThrough(lnodes[i], r) < CostLimit
             /\ \A l \in ToSet(lnodes) : CostThrough(lnodes[i], r) <= CostThrough(l, r)
  <2>1. i \in 1..Len(lnodes) /\ f[i] < CostLimit /\ \A j \in 1..Len(lnodes) : f[i] <= f[j]
    <3>1. i \in 1..Len(lnodes) /\ f[i] < CostLimit
          /\ \A j \in 1..Len(lnodes) : f[i] < f[j] \/ (f[i] = f[j] /\ i <= j)
      BY <1>2, <1>3
    <3> QED BY <1>1, <3>1
  <2>2. ASSUME NEW l \in ToSet(lnodes) PROVE CostThrough(lnodes[i], r) <= CostThrough(l, r)
    <3>1. PICK j \in 1..Len(lnodes) : l = lnodes[j]
      BY <1>0 DEF ToSet
    <3> QED BY <1>1, <2>1, <3>1
  <2> QED BY <1>0, <1>1, <2>1, <2>2
<1>4. ASSUME BestLeft(lnodes, r) = {}, NEW l \in ToSet(lnodes)
      PROVE  CostThrough(l, r) >= CostLimit
  <2>1. PICK j \in 1..Len(lnodes) : l = lnodes[j]
    BY <1>0 DEF ToSet
  <2>2. Len(lnodes) # 0
    BY <1>0
  <2>3. PICK i \in 1..Len(lnodes) : \A k \in 1..Len(lnodes) : f[i] < f[k] \/ (f[i] = f[k] /\ i <= k)
    BY <1>0, <1>1, <2>2, LeastOf
  <2>4. ~ (f[i] < CostLimit)
    BY <1>2, <1>4, <2>3
  <2>5. f[i] <= f[j] /\ f[i] \in Int /\ f[j] \in Int /\ f[j] = CostThrough(l, r)
    BY <1>1, <2>1, <2>3
  <2> QED BY <2>4, <2>5, CostAssumption
<1> QED BY <1>3, <1>4

\* Updated overwrites the values of new and keeps those of the others.
LEMMA UpdatedIs ==
  ASSUME NEW old, NEW new
  PROVE  /\ DOMAIN Updated(old, new) = DOMAIN old \union DOMAIN new
         /\ \A n \in DOMAIN new : Updated(old, new)[n] = new[n]
         /\ \A n \in DOMAIN old \ DOMAIN new : Updated(old, new)[n] = old[n]
BY DEF Updated

\* what one connect does: all the nodes of L are linked to their best left neighbour
Links(p, L) ==
  /\ DOMAIN cost' = Nodes \union L
  /\ DOMAIN prev' = DOMAIN prev \union L /\ DOMAIN next' = DOMAIN next \union L
  /\ \A n \in Nodes \ L : cost'[n] = cost[n]
  /\ \A n \in DOMAIN prev \ L : prev'[n] = prev[n]
  /\ \A n \in DOMAIN next \ L : next'[n] = next[n]
  /\ \A r \in L : /\ next'[r] = None /\ prev'[r] \in ToSet(end_nodes[p])
                  /\ cost'[r] = CostThrough(prev'[r], r) /\ cost'[r] < CostLimit
                  /\ \A l \in ToSet(end_nodes[p]) : CostThrough(prev'[r], r) <= CostThrough(l, r)

Ends(p, L) ==
  /\ DOMAIN end_nodes' = DOMAIN end_nodes /\ end_nodes'[0] = end_nodes[0]
  /\ \A x \in DOMAIN end_nodes :
       /\ end_nodes'[x] \in Seq(Nodes \union L)
       /\ x # 0 => ToSet(end_nodes'[x]) = ToSet(end_nodes[x]) \union { r \in L : r.rlength + p = x }

\* the first m of rnodes are linked, either all or up to one that is too costly
LinksFirst(p, rnodes, m, goto) ==
  /\ Links(p, { rnodes[i] : i \in 1..m }) /\ Ends(p, { rnodes[i] : i \in 1..m })
  /\ paths' \subseteq paths \union PathsBetween(ToSet(end_nodes[p]), ToSet(rnodes))
  /\ \/ /\ m = Len(rnodes) /\ place' = goto
        /\ paths' = IF IsAllPath
                    THEN paths \union PathsBetween(ToSet(end_nodes[p]), ToSet(rnodes))
                    ELSE paths
     \/ /\ m < Len(rnodes) /\ place' = "too long sentence"
        /\ \A l \in ToSet(end_nodes[p]) : CostThrough(l, rnodes[m + 1]) >= CostLimit

\* connect links the first m nodes it is given, all of them unless one has no
\* left neighbour below the limit.
LEMMA ConnectDoes ==
  ASSUME NEW p, NEW goto, NEW R, NEW rnodes \in Seq(R), Connect(p, rnodes, goto),
         p \in DOMAIN end_nodes, 0 \in DOMAIN end_nodes,
         \A x \in DOMAIN end_nodes : end_nodes[x] \in Seq(Nodes),
         \A l \in Nodes : \A r \in R : CostThrough(l, r) \in Int
  PROVE  \E m \in 0..Len(rnodes) : LinksFirst(p, rnodes, m, goto)
<1> DEFINE lnodes == end_nodes[p]
           B == { i \in 1..Len(rnodes) : BestLeft(lnodes, rnodes[i]) = {} }
           reached == SelectInSeq(rnodes, LAMBDA r : BestLeft(lnodes, r) = {})
           linked == IF reached = 0 THEN rnodes ELSE SubSeq(rnodes, 1, reached - 1)
           tried == IF reached = 0 THEN rnodes ELSE SubSeq(rnodes, 1, reached)
           Left(r) == lnodes[CHOOSE i \in BestLeft(lnodes, r) : TRUE]
           Ending(x) == IF x = 0 THEN <<>>
                        ELSE Reverse(Picked(linked, { i \in DOMAIN linked : linked[i].rlength + p = x }))
           m == IF reached = 0 THEN Len(rnodes) ELSE reached - 1
           L == { rnodes[i] : i \in 1..m }
<1>0. Len(rnodes) \in Nat /\ DOMAIN rnodes = 1..Len(rnodes) /\ \A i \in 1..Len(rnodes) : rnodes[i] \in R
  OBVIOUS
<1>1. /\ cost' = Updated(cost, [r \in ToSet(linked) |-> CostThrough(Left(r), r)])
      /\ prev' = Updated(prev, [r \in ToSet(linked) |-> Left(r)])
      /\ next' = Updated(next, [r \in ToSet(linked) |-> None])
      /\ end_nodes' = [x \in DOMAIN end_nodes |-> Ending(x) \o end_nodes[x]]
      /\ paths' = IF ~ IsAllPath THEN paths ELSE paths \union
                    PathsBetween(ToSet(lnodes), ToSet(tried))
      /\ place' = IF reached = 0 THEN goto ELSE "too long sentence"
  <2>2. paths' = IF ~ IsAllPath THEN paths ELSE paths \union
                    PathsBetween(ToSet(lnodes), ToSet(tried))
    BY DEF Connect
  <2>3. end_nodes' = [x \in DOMAIN end_nodes |-> Ending(x) \o end_nodes[x]]
    BY DEF Connect
  <2>4. /\ cost' = Updated(cost, [r \in ToSet(linked) |-> CostThrough(Left(r), r)])
        /\ prev' = Updated(prev, [r \in ToSet(linked) |-> Left(r)])
        /\ next' = Updated(next, [r \in ToSet(linked) |-> None])
    BY DEF Connect
  <2>5. place' = IF reached = 0 THEN goto ELSE "too long sentence"
    BY DEF Connect
  <2> QED BY <2>2, <2>3, <2>4, <2>5
<1>2. reached = IF B # {} THEN Min(B) ELSE 0
  BY DEF SelectInSeq
<1>3. B # {} => Min(B) \in B /\ \A k \in B : Min(B) <= k
  <2>1. B \in SUBSET (1..Len(rnodes)) /\ 1 \in Int /\ Len(rnodes) \in Int
    BY <1>0
  <2> HIDE DEF B
  <2> QED BY <2>1, MinIsLeast
<1> HIDE DEF reached
<1>4. /\ reached \in 0..Len(rnodes) /\ m \in 0..Len(rnodes)
      /\ reached = 0 => m = Len(rnodes)
      /\ reached # 0 => m < Len(rnodes) /\ BestLeft(lnodes, rnodes[m + 1]) = {}
      /\ \A i \in 1..m : BestLeft(lnodes, rnodes[i]) # {}
  <2>1. CASE B = {}
    <3>1. reached = 0
      BY <1>2, <2>1
    <3>2. m = Len(rnodes)
      BY <3>1
    <3>3. \A i \in 1..Len(rnodes) : BestLeft(lnodes, rnodes[i]) # {}
      BY <2>1
    <3> HIDE DEF m, B
    <3> QED BY <1>0, <3>1, <3>2, <3>3
  <2>2. CASE B # {}
    <3>1. reached \in B /\ reached \in 1..Len(rnodes) /\ \A k \in B : reached <= k
      BY <1>2, <1>3, <2>2
    <3>2. m = reached - 1 /\ m + 1 = reached /\ m \in 0..Len(rnodes) /\ m < Len(rnodes)
      BY <3>1
    <3>3. ASSUME NEW i \in 1..m, BestLeft(lnodes, rnodes[i]) = {} PROVE FALSE
      <4>1. i \in B /\ i < reached
        BY <1>0, <3>1, <3>2, <3>3
      <4> QED BY <1>0, <3>1, <4>1
    <3>4. reached # 0 /\ reached \in 0..Len(rnodes)
      BY <3>1
    <3> QED BY <3>1, <3>2, <3>3, <3>4
  <2> QED BY <2>1, <2>2
<1>5. /\ linked \in Seq(R) /\ Len(linked) = m /\ \A i \in 1..m : linked[i] = rnodes[i]
      /\ DOMAIN linked = 1..m
  <2>1. CASE reached = 0
    BY <1>0, <2>1
  <2>2. CASE reached # 0
    <3>1. linked = SubSeq(rnodes, 1, reached - 1) /\ m = reached - 1
      BY <2>2
    <3> QED BY <1>4, <2>2, <3>1
  <2> QED BY <2>1, <2>2
<1>6. ToSet(linked) = L
  BY <1>5 DEF ToSet
<1>7. ToSet(tried) \subseteq ToSet(rnodes) /\ (reached = 0 => ToSet(tried) = ToSet(rnodes))
  <2>1. CASE reached = 0
    BY <2>1
  <2>2. CASE reached # 0
    <3>1. tried = SubSeq(rnodes, 1, reached) /\ reached \in 1..Len(rnodes)
      BY <1>4, <2>2
    <3>2. DOMAIN tried = 1..reached /\ \A i \in 1..reached : tried[i] = rnodes[i]
      <4> HIDE DEF tried
      <4>1. reached \in Nat /\ reached <= Len(rnodes)
        BY <1>0, <3>1
      <4> QED BY <1>0, <3>1, <4>1
    <3> HIDE DEF tried
    <3> QED BY <1>0, <2>2, <3>1, <3>2 DEF ToSet
  <2> QED BY <2>1, <2>2
<1> HIDE DEF m, linked, tried
<1>8. lnodes \in Seq(Nodes)
  OBVIOUS
<1>9. ASSUME NEW r \in L
      PROVE  /\ Left(r) \in ToSet(lnodes) /\ CostThrough(Left(r), r) < CostLimit
             /\ \A l \in ToSet(lnodes) : CostThrough(Left(r), r) <= CostThrough(l, r)
  <2>1. PICK i \in 1..m : r = rnodes[i]
    OBVIOUS
  <2>2. r \in R /\ BestLeft(lnodes, r) # {}
    BY <1>0, <1>4, <2>1
  <2>3. \A l \in Nodes : CostThrough(l, r) \in Int
    BY <2>2
  <2> DEFINE k == CHOOSE h \in BestLeft(lnodes, r) : TRUE
  <2>4. k \in BestLeft(lnodes, r)
    BY <2>2
  <2>5. Left(r) = lnodes[k]
    OBVIOUS
  <2> HIDE DEF k
  <2>6. /\ k \in DOMAIN lnodes /\ CostThrough(lnodes[k], r) < CostLimit
        /\ \A l \in ToSet(lnodes) : CostThrough(lnodes[k], r) <= CostThrough(l, r)
    BY <1>8, <2>3, <2>4, BestLeftIs
  <2>7. lnodes[k] \in ToSet(lnodes)
    BY <2>6 DEF ToSet
  <2> QED BY <2>5, <2>6, <2>7
<1> HIDE DEF Left, L
<1>10. Links(p, L)
  <2> DEFINE c == [r \in L |-> CostThrough(Left(r), r)]
             v == [r \in L |-> Left(r)]
             x == [r \in L |-> None]
  <2>1. cost' = Updated(cost, c) /\ prev' = Updated(prev, v) /\ next' = Updated(next, x)
    BY <1>1, <1>6
  <2>2. DOMAIN c = L /\ DOMAIN v = L /\ DOMAIN x = L
        /\ \A r \in L : c[r] = CostThrough(Left(r), r) /\ v[r] = Left(r) /\ x[r] = None
    OBVIOUS
  <2> HIDE DEF c, v, x
  <2>3. /\ DOMAIN cost' = Nodes \union L
        /\ \A n \in Nodes \ L : cost'[n] = cost[n]
        /\ \A r \in L : cost'[r] = CostThrough(Left(r), r)
    <3>1. /\ DOMAIN Updated(cost, c) = DOMAIN cost \union DOMAIN c
          /\ \A n \in DOMAIN c : Updated(cost, c)[n] = c[n]
          /\ \A n \in DOMAIN cost \ DOMAIN c : Updated(cost, c)[n] = cost[n]
      BY UpdatedIs
    <3> QED BY <2>1, <2>2, <3>1, Zenon DEF Nodes
  <2>4. /\ DOMAIN prev' = DOMAIN prev \union L
        /\ \A n \in DOMAIN prev \ L : prev'[n] = prev[n]
        /\ \A r \in L : prev'[r] = Left(r)
    <3>1. /\ DOMAIN Updated(prev, v) = DOMAIN prev \union DOMAIN v
          /\ \A n \in DOMAIN v : Updated(prev, v)[n] = v[n]
          /\ \A n \in DOMAIN prev \ DOMAIN v : Updated(prev, v)[n] = prev[n]
      BY UpdatedIs
    <3> QED BY <2>1, <2>2, <3>1, Zenon
  <2>5. /\ DOMAIN next' = DOMAIN next \union L
        /\ \A n \in DOMAIN next \ L : next'[n] = next[n]
        /\ \A r \in L : next'[r] = None
    <3>1. /\ DOMAIN Updated(next, x) = DOMAIN next \union DOMAIN x
          /\ \A n \in DOMAIN x : Updated(next, x)[n] = x[n]
          /\ \A n \in DOMAIN next \ DOMAIN x : Updated(next, x)[n] = next[n]
      BY UpdatedIs
    <3> QED BY <2>1, <2>2, <3>1, Zenon
  <2>6. \A r \in L : /\ next'[r] = None /\ prev'[r] \in ToSet(end_nodes[p])
                     /\ cost'[r] = CostThrough(prev'[r], r) /\ cost'[r] < CostLimit
                     /\ \A l \in ToSet(end_nodes[p]) : CostThrough(prev'[r], r) <= CostThrough(l, r)
    BY <1>9, <2>3, <2>4, <2>5
  <2> QED BY <2>3, <2>4, <2>5, <2>6 DEF Links
<1>11. Ends(p, L)
  <2>1. DOMAIN end_nodes' = DOMAIN end_nodes
    BY <1>1
  <2>2. \A x \in DOMAIN end_nodes : end_nodes'[x] = Ending(x) \o end_nodes[x]
    BY <1>1
  <2>3. end_nodes'[0] = end_nodes[0]
    <3>1. end_nodes'[0] = <<>> \o end_nodes[0]
      BY <2>2
    <3> QED BY <3>1
  <2>4. ASSUME NEW x \in DOMAIN end_nodes, x # 0
        PROVE  /\ end_nodes'[x] \in Seq(Nodes \union L)
               /\ ToSet(end_nodes'[x]) = ToSet(end_nodes[x]) \union { r \in L : r.rlength + p = x }
    <3> DEFINE places == { i \in DOMAIN linked : linked[i].rlength + p = x }
               picked == Picked(linked, places)
    <3>1. linked \in Seq(L)
      <4>1. \A i \in 1..Len(linked) : linked[i] \in L
        BY <1>5, <1>6 DEF ToSet
      <4> QED BY <1>5, <4>1
    <3>2. picked \in Seq(L) /\ ToSet(picked) = { linked[i] : i \in (1..Len(linked)) \intersect places }
      BY <3>1, PickedElements
    <3>3. ToSet(picked) = { r \in L : r.rlength + p = x }
      <4>1. ASSUME NEW r \in ToSet(picked) PROVE r \in L /\ r.rlength + p = x
        BY <1>5, <1>6, <3>2 DEF ToSet
      <4>2. ASSUME NEW r \in L, r.rlength + p = x PROVE r \in ToSet(picked)
        <5>1. PICK i \in 1..m : r = linked[i]
          BY <1>5, <1>6 DEF ToSet
        <5>2. i \in (1..Len(linked)) \intersect places
          BY <1>5, <4>2, <5>1
        <5> QED BY <3>2, <5>1, <5>2
      <4> QED BY <4>1, <4>2
    <3>4. Ending(x) = Reverse(picked)
      BY <2>4
    <3> HIDE DEF picked, Ending
    <3>5. Ending(x) \in Seq(L) /\ ToSet(Ending(x)) = { r \in L : r.rlength + p = x }
      BY <3>2, <3>3, <3>4, ReverseElements
    <3>6. Ending(x) \in Seq(Nodes \union L) /\ end_nodes[x] \in Seq(Nodes \union L)
      <4>1. end_nodes[x] \in Seq(Nodes)
        OBVIOUS
      <4> QED BY <3>5, <4>1
    <3>7. end_nodes'[x] = Ending(x) \o end_nodes[x]
      BY <2>2
    <3> QED BY <3>5, <3>6, <3>7, ConcatElements
  <2>5. end_nodes'[0] \in Seq(Nodes \union L)
    <3>1. end_nodes[0] \in Seq(Nodes)
      OBVIOUS
    <3> QED BY <2>3, <3>1
  <2> QED BY <2>1, <2>3, <2>4, <2>5 DEF Ends
<1>12. paths' \subseteq paths \union PathsBetween(ToSet(end_nodes[p]), ToSet(rnodes))
  <2>1. PathsBetween(ToSet(lnodes), ToSet(tried)) \subseteq PathsBetween(ToSet(lnodes), ToSet(rnodes))
    BY <1>7 DEF PathsBetween
  <2> QED BY <1>1, <2>1
<1>13. \/ /\ m = Len(rnodes) /\ place' = goto
          /\ paths' = IF IsAllPath
                      THEN paths \union PathsBetween(ToSet(end_nodes[p]), ToSet(rnodes))
                      ELSE paths
       \/ /\ m < Len(rnodes) /\ place' = "too long sentence"
          /\ \A l \in ToSet(end_nodes[p]) : CostThrough(l, rnodes[m + 1]) >= CostLimit
  <2>1. CASE reached = 0
    BY <1>1, <1>4, <1>7, <2>1
  <2>2. CASE reached # 0
    <3>1. rnodes[m + 1] \in R
      <4>1. m + 1 \in 1..Len(rnodes)
        BY <1>4, <2>2
      <4> QED BY <1>0, <4>1
    <3>2. \A l \in Nodes : CostThrough(l, rnodes[m + 1]) \in Int
      BY <3>1
    <3>3. \A l \in ToSet(lnodes) : CostThrough(l, rnodes[m + 1]) >= CostLimit
      BY <1>4, <1>8, <2>2, <3>2, BestLeftIs
    <3> QED BY <1>1, <1>4, <2>2, <3>3
  <2> QED BY <2>1, <2>2
<1>14. m \in 0..Len(rnodes)
  BY <1>4
<1> QED BY <1>10, <1>11, <1>12, <1>13, <1>14 DEF L, LinksFirst

-----------------------------------------------------------------------------
(* The lattice under construction and built *)

Scanning == LookingUp \/ place \in {"scan", "lookup", "died"}
GaveUp == place = "too long sentence"
Built == place \in {"forwardbackward", "buildBestLattice", "buildAllLattice", "initNBest", "parsed",
                    "searching", "result", "exhausted"}

EndsAt(p) == { n \in ToSet(end_nodes[p]) : n.stat # "eos" }
LastEnd == Max({ p \in 0..size : EndsAt(p) # {} })
LeftOf(n) == EndsAt(IF n.stat = "eos" THEN LastEnd ELSE BeginOf(n))
Linked(n, l) ==
  /\ l \in LeftOf(n) /\ cost[n] = CostThrough(l, n)
  /\ \A m \in LeftOf(n) : CostThrough(l, n) <= CostThrough(m, n)

StartInv ==
  place = "initPartial" =>
    /\ \E input \in Inputs : /\ sentence = input.text
                             /\ request = input.request
                             /\ constraint = input.constraint
    /\ pos = 0 /\ end_nodes = <<>> /\ paths = {} /\ isbest = {BOSNode}
    /\ cost = [n \in {BOSNode} |-> 0]
    /\ prev = [n \in {BOSNode} |-> None] /\ next = [n \in {BOSNode} |-> None]

\* the positions from pos on are not looked up yet; EOS comes when all are
ListsInv ==
  /\ DOMAIN begin_nodes = 0..size /\ DOMAIN end_nodes = 0..size+3
  /\ \A q \in 0..size-1 : /\ begin_nodes[q] \in Seq(WordsAt(q, size))
                          /\ pos <= q => begin_nodes[q] = <<>>
  /\ Scanning => begin_nodes[size] = <<>>
  /\ Built => begin_nodes[size] = <<EOSNode(size)>>
  /\ GaveUp => begin_nodes[size] \in {<<>>, <<EOSNode(size)>>}
  /\ end_nodes[0] = <<BOSNode>>
  /\ \A p \in 0..size+3 : end_nodes[p] \in Seq(Nodes)

\* the nodes that begin at q are linked, all of them
Whole(q) == GaveUp /\ begin_nodes[size] = <<>> => q < pos - 1

\* the begin_nodes and the end_nodes hold the same nodes, those that are linked
NodesInv ==
  /\ BOSNode \in Nodes
  /\ EOSNode(size) \in Nodes <=> Built
  /\ \A n \in Nodes : \/ n \in {BOSNode, EOSNode(size)}
                      \/ \E q \in 0..size-1 : n \in ToSet(begin_nodes[q])
  /\ \A q \in 0..size-1 : Whole(q) => ToSet(begin_nodes[q]) \subseteq Nodes
  /\ \A p \in 0..size+3 : EndsAt(p) = { n \in Nodes : n.stat # "eos" /\ EndOf(n) = p }

\* the cost of a node is that of its cheapest left neighbour and of the link to it
CostsInv ==
  /\ \A n \in Nodes : cost[n] \in Int /\ cost[n] < CostLimit
  /\ cost[BOSNode] = 0
  /\ \A n \in Nodes \ {BOSNode} : \E l \in Nodes : Linked(n, l)

LinksInv ==
  /\ DOMAIN prev = Nodes /\ DOMAIN next = Nodes /\ isbest \subseteq Nodes
  /\ \A n \in Nodes : prev[n] \in Nodes \union {None} /\ next[n] \in Nodes \union {None}

\* until the results are linked, prev is the best left neighbour
PrevInv ==
  Scanning \/ place \in {"forwardbackward", "buildBestLattice"} =>
    /\ isbest = {BOSNode} /\ prev[BOSNode] = None
    /\ \A n \in Nodes \ {BOSNode} : Linked(n, prev[n])

GaveUpInv ==
  GaveUp => \E p \in 0..size : \E n \in ToSet(begin_nodes[p]) :
    /\ \A l \in LeftOf(n) : CostThrough(l, n) >= CostLimit
    /\ p = IF begin_nodes[size] = <<>> THEN pos - 1 ELSE size

PathsInv == \A q \in paths : q.lnode \in Nodes /\ q.rnode # BOSNode

\* the paths that connect has made, where it makes all of them
AllPaths == UNION { PathsBetween(LeftOf(n), {n}) : n \in Nodes \ {BOSNode} }
FullPaths == IsAllPath /\ (Scanning \/ Built) => paths = AllPaths

LatticeInv ==
  place # "initPartial" =>
    ListsInv /\ NodesInv /\ CostsInv /\ LinksInv /\ PrevInv /\ GaveUpInv /\ PathsInv

-----------------------------------------------------------------------------
(* The kinds of nodes *)

\* A word is a node record that is neither end of the sentence.
LEMMA WordRecords ==
  ASSUME NEW p \in Nat, NEW n \in Nat, NEW w \in WordsAt(p, n)
  PROVE  /\ w \in NodeRecords /\ w.stat # "eos" /\ w.stat # "bos"
         /\ BeginOf(w) = p /\ EndOf(w) \in p+1..n+1 /\ EndOf(w) \in Int
         /\ w.rlength + p = EndOf(w)
         /\ w # BOSNode /\ \A k : w # EOSNode(k)
<1>1. w \in [stat : {"nor", "unk"}, surface : Int, length : Int, rlength : Int, token : NodeTokens]
      /\ BeginOf(w) = p /\ EndOf(w) \in p+1..n+1
  BY DEF WordsAt
<1>2. w.stat # "eos" /\ w.stat # "bos"
  BY <1>1
<1>3. w \in NodeRecords
  BY <1>1 DEF NodeRecords
<1>4. EndOf(w) \in Int /\ w.rlength + p = EndOf(w)
  BY <1>1 DEF BeginOf, EndOf
<1>5. BOSNode.stat = "bos" /\ \A k : EOSNode(k).stat = "eos"
  BY DEF BOSNode, EOSNode, Node
<1> QED BY <1>1, <1>2, <1>3, <1>4, <1>5

\* What the nodes of the two ends of a sentence are.
LEMMA EndNodes ==
  ASSUME NEW n \in Nat
  PROVE  /\ BOSNode \in NodeRecords /\ EOSNode(n) \in NodeRecords
         /\ BOSNode.stat = "bos" /\ EOSNode(n).stat = "eos" /\ BOSNode # EOSNode(n)
         /\ EndOf(BOSNode) = 0 /\ BeginOf(BOSNode) = 0
         /\ EndOf(EOSNode(n)) = n /\ EOSNode(n).rlength = 0
<1>1. NullToken \in NodeTokens
  BY DEF NodeTokens
<1>2. BOSNode \in NodeRecords /\ EOSNode(n) \in NodeRecords
  <2> HIDE DEF NullToken
  <2> QED BY <1>1 DEF NodeRecords, BOSNode, EOSNode, Node
<1> QED BY <1>2 DEF BOSNode, EOSNode, Node, EndOf, BeginOf

\* The parts of the invariant once a sentence is set.
LEMMA LatticeReady ==
  ASSUME TextInv, LatticeInv, place # "initPartial"
  PROVE  /\ size \in Nat /\ pos \in 0..size /\ IsText(sentence)
         /\ ListsInv /\ NodesInv /\ CostsInv /\ LinksInv /\ PrevInv /\ GaveUpInv /\ PathsInv
BY SizeType DEF TextInv, LatticeInv

\* A linked node is one of the two ends or was found where it begins.
LEMMA NodesAre ==
  ASSUME size \in Nat, ListsInv, NodesInv, NEW n \in Nodes
  PROVE  /\ n \in NodeRecords /\ n.token \in NodeTokens
         /\ n.stat = "bos" => n = BOSNode
         /\ n.stat = "eos" => n = EOSNode(size) /\ Built
         /\ n \notin {BOSNode, EOSNode(size)} =>
              /\ BeginOf(n) \in 0..size-1 /\ n \in ToSet(begin_nodes[BeginOf(n)])
              /\ n \in WordsAt(BeginOf(n), size)
<1>1. CASE n = BOSNode
  BY <1>1, EndNodes DEF NodeRecords
<1>2. CASE n = EOSNode(size)
  <2>1. Built
    BY <1>2 DEF NodesInv
  <2> QED BY <1>2, <2>1, EndNodes DEF NodeRecords
<1>3. CASE n \notin {BOSNode, EOSNode(size)}
  <2>1. PICK q \in 0..size-1 : n \in ToSet(begin_nodes[q])
    BY <1>3 DEF NodesInv
  <2>2. begin_nodes[q] \in Seq(WordsAt(q, size))
    BY DEF ListsInv
  <2>3. n \in WordsAt(q, size)
    BY <2>1, <2>2 DEF ToSet
  <2>4. q \in Nat
    OBVIOUS
  <2>5. n \in NodeRecords /\ n.stat # "eos" /\ n.stat # "bos" /\ BeginOf(n) = q
    BY <2>3, <2>4, WordRecords
  <2> QED BY <1>3, <2>1, <2>3, <2>5 DEF NodeRecords
<1> QED BY <1>1, <1>2, <1>3

-----------------------------------------------------------------------------
(* initPartial *)

\* set_boundary stays inside the boundaries.
LEMMA SetBoundaryIs ==
  ASSUME NEW c, NEW n \in Nat, IsConstraint(c, n), NEW p, NEW type \in {"any", "token", "inside"}
  PROVE  IsConstraint(SetBoundary(c, n, p, type), n)
<1>1. \A q \in 0..n+3 : BoundaryAt(c, q) \in {"any", "token", "inside"}
  BY DEF IsConstraint, BoundaryAt, HasConstraint, NoConstraint
<1> DEFINE b == [q \in 0..n+3 |-> IF q = p THEN type ELSE BoundaryAt(c, q)]
<1>2. b \in [0..n+3 -> {"any", "token", "inside"}]
  BY <1>1
<1> HIDE DEF b
<1>3. SetBoundary(c, n, p, type) = [c EXCEPT !.boundary = b]
  BY DEF SetBoundary, b
<1>4. c = [boundary |-> c.boundary, feature |-> c.feature]
      /\ c.feature \in [0..n+3 -> ConstraintFeatures] \union {<<>>}
  BY DEF IsConstraint, NoConstraint
<1>5. [c EXCEPT !.boundary = b] = [boundary |-> b, feature |-> c.feature]
  BY <1>4
<1>6. SetBoundary(c, n, p, type) = [boundary |-> b, feature |-> c.feature]
  BY <1>3, <1>5
<1> QED BY <1>2, <1>4, <1>6 DEF IsConstraint

\* The constraint made of lines is a constraint for their text.
LEMMA LinesConstraint ==
  ASSUME NEW lines, Len(TextOfLines(lines)) \in Nat,
         \A k \in DOMAIN lines : lines[k].feature \in ConstraintFeatures
  PROVE  IsConstraint(ConstraintOfLines(lines), Len(TextOfLines(lines)))
<1> DEFINE total == Len(TextOfLines(lines))
           begin == [k \in 1..Len(lines)+1 |-> Len(TextOfLines(SubSeq(lines, 1, k - 1)))]
           Inside(k, q) == begin[k] < q /\ q < begin[k + 1] /\ lines[k].feature # None
           BeginsAt(k, q) == begin[k] = q /\ lines[k].feature # None
           b == [q \in 0..total+3 |->
                  IF q \in Range(begin) THEN "token"
                  ELSE IF \E k \in DOMAIN lines : Inside(k, q) THEN "inside" ELSE "any"]
           f == [q \in 0..total+3 |->
                  IF \E k \in DOMAIN lines : BeginsAt(k, q)
                  THEN lines[CHOOSE k \in DOMAIN lines : BeginsAt(k, q)].feature ELSE None]
<1>1. ConstraintOfLines(lines) = IF lines = <<>> THEN NoConstraint
                                 ELSE [boundary |-> b, feature |-> f]
  BY DEF ConstraintOfLines
<1> HIDE DEF begin, total, Inside, BeginsAt
<1>2. b \in [0..total+3 -> {"any", "token", "inside"}]
  OBVIOUS
<1>3. f \in [0..total+3 -> ConstraintFeatures]
  <2>1. None \in ConstraintFeatures
    BY DEF ConstraintFeatures
  <2>2. ASSUME NEW q \in 0..total+3 PROVE f[q] \in ConstraintFeatures
    <3>1. CASE \E k \in DOMAIN lines : BeginsAt(k, q)
      <4>1. (CHOOSE k \in DOMAIN lines : BeginsAt(k, q)) \in DOMAIN lines
        BY <3>1
      <4> QED BY <3>1, <4>1
    <3>2. CASE ~ \E k \in DOMAIN lines : BeginsAt(k, q)
      BY <2>1, <3>2
    <3> QED BY <3>1, <3>2
  <2> QED BY <2>2
<1> HIDE DEF b, f
<1>4. IsConstraint(ConstraintOfLines(lines), total)
  BY <1>1, <1>2, <1>3 DEF IsConstraint
<1> QED BY <1>4 DEF total

\* initPartial leaves a text and a constraint for it.
LEMMA InitPartialText ==
  ASSUME StartInv, InitPartial
  PROVE  /\ size' \in Nat /\ pos' = 0 /\ place' = "scan"
         /\ TextInv' /\ LookupInv'
<1>1. PICK input \in Inputs : /\ sentence = input.text /\ request = input.request
                              /\ constraint = input.constraint
  BY DEF InitPartial, StartInv
<1>2. pos' = 0 /\ place' = "scan"
  BY DEF InitPartial, StartInv
<1>3. /\ IsText(sentence') /\ IsConstraint(constraint', size')
      /\ HasConstraint(constraint') => Spaceless(sentence')
  <2>1. CASE "PARTIAL" \notin request
    <3>1. /\ IsText(sentence) /\ IsConstraint(constraint, Len(sentence))
          /\ HasConstraint(constraint) => Spaceless(sentence)
      BY <1>1, <2>1, InputsAssumption
    <3>2. size \in Nat /\ size = Len(sentence)
      BY <3>1, SizeType DEF size
    <3>3. sentence' = sentence /\ constraint' = ClosedConstraint(constraint, size) /\ size' = size
      BY <2>1 DEF InitPartial, size
    <3>4. IsConstraint(constraint', size)
      BY <3>1, <3>2, <3>3, SetBoundaryIs DEF ClosedConstraint
    <3>5. HasConstraint(constraint') => HasConstraint(constraint)
      BY <3>3 DEF ClosedConstraint
    <3> QED BY <3>1, <3>3, <3>4, <3>5
  <2>2. CASE "PARTIAL" \in request
    <3>1. /\ sentence \in Seq(ToSet(sentence)) /\ IsText(TextOfLines(sentence))
          /\ Spaceless(TextOfLines(sentence))
      BY <1>1, <2>2, InputsAssumption
    <3>2. /\ sentence' = TextOfLines(sentence) /\ constraint' = ConstraintOfLines(sentence)
          /\ size' = Len(TextOfLines(sentence))
      BY <2>2 DEF InitPartial, size
    <3>3. \A k \in DOMAIN sentence : sentence[k].feature \in ConstraintFeatures
      <4> TAKE k \in DOMAIN sentence
      <4>1. sentence[k] \in ToSet(input.text)
        BY <1>1 DEF ToSet
      <4>2. sentence[k].feature \in { line.feature : line \in ToSet(input.text) }
        BY <4>1
      <4> QED BY <1>1, <2>2, <4>2 DEF ConstraintFeatures
    <3>4. Len(TextOfLines(sentence)) \in Nat
      BY <3>1 DEF IsText
    <3>5. IsConstraint(ConstraintOfLines(sentence), Len(TextOfLines(sentence)))
      BY <3>1, <3>3, <3>4, LinesConstraint
    <3> QED BY <3>1, <3>2, <3>5
  <2> QED BY <2>1, <2>2
<1>4. size' \in Nat
  BY <1>3 DEF IsText, size
<1>5. TextInv'
  BY <1>2, <1>3, <1>4 DEF TextInv
<1>6. LookupInv'
  BY <1>2 DEF LookupInv, LookingUp
<1> QED BY <1>2, <1>4, <1>5, <1>6

\* initPartial starts an empty lattice.
LEMMA InitPartialLattice ==
  ASSUME StartInv, InitPartial
  PROVE  LatticeInv'
<1>1. size' \in Nat /\ pos' = 0 /\ place' = "scan"
  BY InitPartialText
<1>2. /\ begin_nodes' = [p \in 0..size' |-> <<>>]
      /\ end_nodes' = [p \in 0..size'+3 |-> IF p = 0 THEN <<BOSNode>> ELSE <<>>]
  BY DEF InitPartial, size
<1>3. /\ cost' = [n \in {BOSNode} |-> 0] /\ isbest' = {BOSNode} /\ paths' = {}
      /\ prev' = [n \in {BOSNode} |-> None] /\ next' = [n \in {BOSNode} |-> None]
  BY DEF InitPartial, StartInv, markVars
<1>4. Nodes' = {BOSNode}
  BY <1>3 DEF Nodes
<1>5. Scanning' /\ ~ Built' /\ ~ GaveUp'
  BY <1>1 DEF Scanning, Built, GaveUp
<1>6. /\ BOSNode.stat = "bos" /\ EOSNode(size').stat = "eos" /\ BOSNode # EOSNode(size')
      /\ EndOf(BOSNode) = 0
  BY <1>1, EndNodes
<1>7. ASSUME NEW p \in 0..size'+3 PROVE EndsAt(p)' = { n \in Nodes' : n.stat # "eos" /\ EndOf(n) = p }
  <2>1. CASE p = 0
    <3>1. ToSet(end_nodes'[p]) = {BOSNode}
      BY <1>2, <2>1 DEF ToSet
    <3> QED BY <1>4, <1>6, <2>1, <3>1 DEF EndsAt
  <2>2. CASE p # 0
    <3>1. ToSet(end_nodes'[p]) = {}
      BY <1>2, <2>2 DEF ToSet
    <3> QED BY <1>4, <1>6, <2>2, <3>1 DEF EndsAt
  <2> QED BY <2>1, <2>2
<1>8. ListsInv'
  <2>1. \A q \in 0..size' : begin_nodes'[q] = <<>>
    BY <1>2
  <2>2. \A p \in 0..size'+3 : end_nodes'[p] \in Seq(Nodes')
    <3>1. <<BOSNode>> \in Seq({BOSNode}) /\ <<>> \in Seq({BOSNode})
      OBVIOUS
    <3>2. \A p \in 0..size'+3 : end_nodes'[p] \in {<<BOSNode>>, <<>>}
      BY <1>2
    <3> QED BY <1>4, <3>1, <3>2
  <2>3. end_nodes'[0] = <<BOSNode>> /\ DOMAIN begin_nodes' = 0..size' /\ DOMAIN end_nodes' = 0..size'+3
    BY <1>1, <1>2
  <2>4. \A q \in 0..size'-1 : begin_nodes'[q] \in Seq(WordsAt(q, size')) /\ (pos' <= q => begin_nodes'[q] = <<>>)
    <3>1. \A X : <<>> \in Seq(X)
      OBVIOUS
    <3>2. \A n \in Nat : \A q \in 0..n-1 : q \in 0..n
      OBVIOUS
    <3>3. \A q \in 0..size'-1 : begin_nodes'[q] = <<>>
      BY <1>1, <2>1, <3>2, Zenon
    <3> QED BY <3>1, <3>3, Zenon
  <2>5. begin_nodes'[size'] = <<>>
    BY <1>1, <2>1
  <2> QED BY <1>5, <2>2, <2>3, <2>4, <2>5 DEF ListsInv
<1>9. NodesInv'
  <2>1. \A q \in 0..size'-1 : ToSet(begin_nodes'[q]) \subseteq Nodes'
    <3>1. \A q \in 0..size'-1 : begin_nodes'[q] = <<>>
      BY <1>1, <1>2
    <3> QED BY <3>1 DEF ToSet
  <2> QED BY <1>4, <1>5, <1>6, <1>7, <2>1 DEF NodesInv
<1>10. CostsInv' /\ LinksInv' /\ PrevInv' /\ GaveUpInv' /\ PathsInv'
  <2>1. CostsInv'
    BY <1>3, <1>4, CostAssumption DEF CostsInv
  <2>2. LinksInv' /\ PathsInv'
    BY <1>3, <1>4 DEF LinksInv, PathsInv
  <2>3. PrevInv'
    BY <1>3, <1>4 DEF PrevInv
  <2>4. GaveUpInv'
    BY <1>5 DEF GaveUpInv
  <2> QED BY <2>1, <2>2, <2>3, <2>4
<1> QED BY <1>8, <1>9, <1>10 DEF LatticeInv

\* A linked node stays linked as long as its left neighbours and costs stay.
LEMMA LinkedStays ==
  ASSUME NEW n \in Nodes, NEW l, Linked(n, l), LeftOf(n)' = LeftOf(n), LeftOf(n) \subseteq Nodes,
         \A k \in Nodes : cost'[k] = cost[k]
  PROVE  Linked(n, l)'
<1>1. \A k \in LeftOf(n) : CostThrough(k, n)' = CostThrough(k, n)
  BY DEF CostThrough
<1>2. cost'[n] = cost[n]
  OBVIOUS
<1> QED BY <1>1, <1>2 DEF Linked

\* Left neighbours are linked nodes.
LEMMA LeftsAreNodes ==
  ASSUME TextInv, LatticeInv, place # "initPartial", NEW n \in Nodes
  PROVE  LeftOf(n) \subseteq Nodes
<1>1. size \in Nat /\ ListsInv /\ NodesInv
  BY LatticeReady
<1>2. EndsAt(0) # {} /\ \A p \in 0..size+3 : EndsAt(p) \subseteq Nodes
  <2>1. BOSNode \in EndsAt(0)
    BY <1>1, EndNodes DEF NodesInv
  <2> QED BY <1>1, <2>1 DEF NodesInv
<1>3. LastEnd \in 0..size
  <2> DEFINE S == { p \in 0..size : EndsAt(p) # {} }
  <2>1. S \in SUBSET (0..size) /\ S # {}
    BY <1>1, <1>2
  <2>2. 0 \in Int /\ size \in Int
    BY <1>1
  <2> HIDE DEF S
  <2>3. Max(S) \in S
    BY <2>1, <2>2, MaxIsGreatest
  <2>4. Max(S) \in 0..size
    BY <2>1, <2>3
  <2> QED BY <2>4 DEF LastEnd, S
<1>4. n.stat # "eos" => BeginOf(n) \in 0..size
  <2>1. CASE n = BOSNode
    BY <1>1, <2>1, EndNodes
  <2>2. CASE n # BOSNode /\ n.stat # "eos"
    <3>1. n \notin {BOSNode, EOSNode(size)}
      BY <1>1, <2>2, EndNodes
    <3>2. BeginOf(n) \in 0..size-1
      BY <1>1, <3>1, NodesAre
    <3> QED BY <1>1, <3>2
  <2> QED BY <2>1, <2>2
<1>5. LastEnd \in 0..size+3 /\ (n.stat # "eos" => BeginOf(n) \in 0..size+3)
  BY <1>1, <1>3, <1>4
<1> QED BY <1>2, <1>5 DEF LeftOf

(* A step that leaves the lists, the costs and the links alone. *)
LEMMA ListsStay ==
  ASSUME LatticeInv, TextInv, place # "initPartial", place' # "initPartial",
         UNCHANGED <<sentence, begin_nodes, end_nodes, cost, paths>>,
         ~ GaveUp, ~ GaveUp', Built' <=> Built, Scanning' <=> Scanning,
         pos' \in Int, pos <= pos'
  PROVE  /\ ListsInv' /\ NodesInv' /\ CostsInv' /\ GaveUpInv' /\ PathsInv'
         /\ Nodes' = Nodes /\ \A n \in Nodes : LeftOf(n)' = LeftOf(n)
<1>1. size \in Nat /\ pos \in 0..size /\ ListsInv /\ NodesInv /\ CostsInv /\ PathsInv
  BY LatticeReady
<1>2. size' = size /\ Nodes' = Nodes
  BY DEF size, Nodes
<1>3. \A p : EndsAt(p)' = EndsAt(p)
  BY DEF EndsAt
<1>4. LastEnd' = LastEnd
  BY <1>2, <1>3 DEF LastEnd
<1>5. \A n : LeftOf(n)' = LeftOf(n)
  BY <1>3, <1>4 DEF LeftOf
<1>6. ListsInv'
  <2>1. ASSUME NEW q \in 0..size-1, pos' <= q PROVE begin_nodes[q] = <<>>
    <3>1. pos <= q
      BY <1>1, <2>1
    <3> QED BY <1>1, <2>1, <3>1 DEF ListsInv
  <2> QED BY <1>1, <1>2, <2>1 DEF ListsInv
<1>7. NodesInv'
  <2>1. \A q : Whole(q)' = Whole(q)
    BY DEF Whole
  <2> QED BY <1>1, <1>2, <1>3, <2>1 DEF NodesInv
<1>8. CostsInv'
  <2>1. \A n, l : Linked(n, l)' = Linked(n, l)
    <3>1. \A n, l : CostThrough(l, n)' = CostThrough(l, n)
      BY DEF CostThrough
    <3> QED BY <1>5, <3>1 DEF Linked
  <2> QED BY <1>1, <1>2, <2>1 DEF CostsInv
<1>9. GaveUpInv' /\ PathsInv'
  BY <1>1, <1>2 DEF GaveUpInv, PathsInv
<1> QED BY <1>2, <1>5, <1>6, <1>7, <1>8, <1>9

\* A step that leaves the lists alone keeps the invariant of the lattice.
LEMMA LatticeStays ==
  ASSUME LatticeInv, TextInv, place # "initPartial", place' # "initPartial",
         UNCHANGED <<sentence, begin_nodes, end_nodes, cost, paths, prev, next, isbest>>,
         ~ GaveUp, ~ GaveUp', Built' <=> Built, Scanning' <=> Scanning,
         place' \in {"forwardbackward", "buildBestLattice"} =>
           place \in {"forwardbackward", "buildBestLattice"},
         pos' \in Int, pos <= pos'
  PROVE  LatticeInv'
<1>1. ListsInv' /\ NodesInv' /\ CostsInv' /\ GaveUpInv' /\ PathsInv' /\ Nodes' = Nodes
      /\ \A n \in Nodes : LeftOf(n)' = LeftOf(n)
  BY ListsStay
<1>2. LinksInv /\ PrevInv
  BY DEF LatticeInv
<1>3. LinksInv'
  BY <1>1, <1>2 DEF LinksInv
<1>4. PrevInv'
  <2>1. \A n \in Nodes : \A l : Linked(n, l)' = Linked(n, l)
    <3>1. \A n, l : CostThrough(l, n)' = CostThrough(l, n)
      BY DEF CostThrough
    <3> QED BY <1>1, <3>1 DEF Linked
  <2> QED BY <1>1, <1>2, <2>1 DEF PrevInv
<1> QED BY <1>1, <1>3, <1>4 DEF LatticeInv

\* The cost of a way through a link is a number.
LEMMA CostsBetween ==
  ASSUME TextInv, LatticeInv, place # "initPartial", NEW r, r.token \in NodeTokens
  PROVE  \A l \in Nodes : CostThrough(l, r) \in Int
<1>1. size \in Nat /\ ListsInv /\ NodesInv /\ CostsInv
  BY LatticeReady
<1> TAKE l \in Nodes
<1>2. l.token \in NodeTokens /\ cost[l] \in Int
  BY <1>1, NodesAre DEF CostsInv
<1>3. LocalCost(l, r) \in Int
  BY <1>2, LocalCostType
<1> QED BY <1>2, <1>3 DEF CostThrough

\* Linking what lookup found keeps the invariant of the lattice.
LEMMA ConnectFoundLattice ==
  ASSUME TextInv, LookupInv, LatticeInv, ConnectFound
  PROVE  LatticeInv' /\ (FullPaths => FullPaths')
<1>1. /\ place = "connect" /\ begin_nodes' = [begin_nodes EXCEPT ![pos] = found]
      /\ Connect(pos, found, "scan") /\ pos' = pos + 1
      /\ sentence' = sentence /\ isbest' = isbest /\ request' = request
  BY DEF ConnectFound, inputVars, markVars
<1>2. Scanning /\ ~ Built /\ ~ GaveUp /\ LookingUp /\ place # "initPartial"
  BY <1>1 DEF Scanning, Built, GaveUp, LookingUp
<1>3. /\ size \in Nat /\ pos \in Nat /\ pos < size
      /\ ListsInv /\ NodesInv /\ CostsInv /\ LinksInv /\ PrevInv /\ PathsInv
  BY <1>2, LatticeReady, LookupReady
<1>4. found \in Seq(WordsAt(pos, size)) /\ found # <<>>
  BY <1>1, <1>2 DEF LookupInv
<1>5. \A r \in WordsAt(pos, size) : \A l \in Nodes : CostThrough(l, r) \in Int
  <2> TAKE r \in WordsAt(pos, size)
  <2>1. r.token \in NodeTokens
    BY DEF WordsAt
  <2> QED BY <1>2, <2>1, CostsBetween
<1>6. pos \in DOMAIN end_nodes /\ 0 \in DOMAIN end_nodes
      /\ \A x \in DOMAIN end_nodes : end_nodes[x] \in Seq(Nodes)
  BY <1>3 DEF ListsInv
<1>7. PICK m \in 0..Len(found) :
           /\ Links(pos, { found[i] : i \in 1..m }) /\ Ends(pos, { found[i] : i \in 1..m })
           /\ paths' \subseteq paths \union PathsBetween(ToSet(end_nodes[pos]), ToSet(found))
           /\ \/ /\ m = Len(found) /\ place' = "scan"
                 /\ IsAllPath => paths' = paths \union
                                            PathsBetween(ToSet(end_nodes[pos]), ToSet(found))
              \/ /\ m < Len(found) /\ place' = "too long sentence"
                 /\ \A l \in ToSet(end_nodes[pos]) : CostThrough(l, found[m + 1]) >= CostLimit
  <2>1. \E m \in 0..Len(found) : LinksFirst(pos, found, m, "scan")
    BY <1>1, <1>4, <1>5, <1>6, ConnectDoes
  <2> QED BY <2>1 DEF LinksFirst
<1> DEFINE L == { found[i] : i \in 1..m }
<1>70. DOMAIN found = 1..Len(found) /\ Len(found) \in Nat /\ m \in 0..Len(found) /\ m \in Nat
  BY <1>4
<1>8. /\ L \subseteq ToSet(found)
      /\ (m = Len(found) => L = ToSet(found))
      /\ \A r \in ToSet(found) : r \in WordsAt(pos, size)
  <2>1. 1..m \subseteq 1..Len(found)
    BY <1>70
  <2>2. L \subseteq ToSet(found) /\ (m = Len(found) => L = ToSet(found))
    BY <1>70, <2>1 DEF ToSet
  <2>3. \A r \in ToSet(found) : r \in WordsAt(pos, size)
    BY <1>4 DEF ToSet
  <2> QED BY <2>2, <2>3
<1>9. Links(pos, L) /\ Ends(pos, L)
  BY <1>7
<1>10. m < Len(found) => found[m + 1] \in ToSet(found)
  <2>1. m < Len(found) => m + 1 \in 1..Len(found)
    BY <1>70
  <2> QED BY <1>70, <2>1 DEF ToSet
<1> HIDE DEF L
<1>11. \A r \in ToSet(found) :
         /\ r \in WordsAt(pos, size) /\ r \in NodeRecords /\ r.stat # "eos" /\ r.stat # "bos"
         /\ BeginOf(r) = pos /\ EndOf(r) \in pos+1..size+1 /\ EndOf(r) \in Int
         /\ r.rlength + pos = EndOf(r) /\ r # BOSNode /\ r # EOSNode(size)
  BY <1>3, <1>8, WordRecords
<1>110. \A r \in L : /\ r.stat # "eos" /\ BeginOf(r) = pos /\ EndOf(r) > pos /\ EndOf(r) # 0
                     /\ r # BOSNode /\ r # EOSNode(size) /\ \A x \in 0..pos : EndOf(r) # x
  <2> TAKE r \in L
  <2>1. r \in ToSet(found)
    BY <1>8
  <2>2. /\ r.stat # "eos" /\ BeginOf(r) = pos /\ r # BOSNode /\ r # EOSNode(size)
    BY <1>11, <2>1
  <2>3. EndOf(r) \in pos+1..size+1
    BY <1>11, <2>1
  <2>4. PICK e \in pos+1..size+1 : e = EndOf(r)
    BY <2>3
  <2>5. e > pos /\ e # 0 /\ \A x \in 0..pos : e # x
    BY <1>3
  <2> QED BY <2>2, <2>4, <2>5
<1>12. Nodes' = Nodes \union L /\ size' = size
  BY <1>1, <1>9 DEF Links, Nodes, size
<1>13. ToSet(begin_nodes[pos]) = {}
  <2>1. pos \in 0..size-1
    BY <1>3
  <2>2. begin_nodes[pos] = <<>>
    BY <1>3, <2>1 DEF ListsInv
  <2> QED BY <2>2 DEF ToSet
<1>14. \A r \in ToSet(found) : r \notin Nodes
  <2> SUFFICES ASSUME NEW r \in ToSet(found), r \in Nodes PROVE FALSE
    OBVIOUS
  <2>1. r \notin {BOSNode, EOSNode(size)} /\ BeginOf(r) = pos
    BY <1>11
  <2>2. r \in ToSet(begin_nodes[pos])
    BY <1>3, <2>1, NodesAre
  <2> QED BY <1>13, <2>2
<1>15. \A n \in Nodes : n \notin L
  BY <1>8, <1>14
<1>16. \A n \in Nodes : cost'[n] = cost[n] /\ prev'[n] = prev[n] /\ next'[n] = next[n]
  BY <1>3, <1>9, <1>15 DEF Links, LinksInv
<1>17. \A n \in Nodes : n.stat # "eos"
  BY <1>2, <1>3, NodesAre
<1>18. \A x \in 0..size+3 : x # 0 =>
         ToSet(end_nodes'[x]) = ToSet(end_nodes[x]) \union { r \in L : EndOf(r) = x }
  <2> TAKE x \in 0..size+3
  <2>1. x \in DOMAIN end_nodes
    BY <1>3 DEF ListsInv
  <2>2. { r \in L : r.rlength + pos = x } = { r \in L : EndOf(r) = x }
    BY <1>8, <1>11
  <2> QED BY <1>9, <2>1, <2>2 DEF Ends
<1>19. \A x \in 0..size+3 : EndsAt(x)' = EndsAt(x) \union { r \in L : EndOf(r) = x }
  <2> TAKE x \in 0..size+3
  <2>1. CASE x = 0
    <3>1. EndsAt(x)' = EndsAt(x)
      BY <1>9, <2>1 DEF EndsAt, Ends
    <3>2. { r \in L : EndOf(r) = x } = {}
      BY <1>110, <2>1
    <3> QED BY <3>1, <3>2
  <2>2. CASE x # 0
    <3>1. ToSet(end_nodes'[x]) = ToSet(end_nodes[x]) \union { r \in L : EndOf(r) = x }
      BY <1>18, <2>2
    <3>2. \A r \in L : r.stat # "eos"
      BY <1>8, <1>11
    <3> QED BY <3>1, <3>2 DEF EndsAt
  <2> QED BY <2>1, <2>2
<1>20. \A x \in 0..pos : EndsAt(x)' = EndsAt(x)
  <2> TAKE x \in 0..pos
  <2>1. x \in 0..size+3
    BY <1>3
  <2>2. \A r \in L : EndOf(r) # x
    BY <1>110
  <2> QED BY <1>19, <2>1, <2>2
<1>21. \A n \in Nodes' : BeginOf(n) \in 0..pos
  <2> TAKE n \in Nodes'
  <2>1. CASE n \in L
    BY <1>3, <1>110, <2>1
  <2>2. CASE n = BOSNode
    BY <1>3, <2>2, EndNodes
  <2>3. CASE n \in Nodes /\ n # BOSNode
    <3>1. n \notin {BOSNode, EOSNode(size)}
      BY <1>2, <1>3, <2>3 DEF NodesInv
    <3>2. BeginOf(n) \in 0..size-1 /\ n \in ToSet(begin_nodes[BeginOf(n)])
      BY <1>3, <2>3, <3>1, NodesAre
    <3>3. begin_nodes[BeginOf(n)] # <<>>
      BY <3>2 DEF ToSet
    <3>4. ~ (pos <= BeginOf(n))
      BY <1>3, <3>2, <3>3 DEF ListsInv
    <3> QED BY <1>3, <3>2, <3>4
  <2> QED BY <1>12, <2>1, <2>2, <2>3
<1>22. \A n \in Nodes' : n.stat # "eos" /\ LeftOf(n)' = EndsAt(BeginOf(n))
  <2> TAKE n \in Nodes'
  <2>1. n.stat # "eos"
    BY <1>8, <1>11, <1>12, <1>17
  <2>2. LeftOf(n)' = EndsAt(BeginOf(n))'
    BY <2>1 DEF LeftOf
  <2>3. EndsAt(BeginOf(n))' = EndsAt(BeginOf(n))
    BY <1>20, <1>21
  <2> QED BY <2>1, <2>2, <2>3
<1>23. \A x \in 0..pos : EndsAt(x) = ToSet(end_nodes[x]) /\ EndsAt(x) \subseteq Nodes
  <2> TAKE x \in 0..pos
  <2>1. x \in 0..size+3
    BY <1>3
  <2>2. end_nodes[x] \in Seq(Nodes)
    BY <1>3, <2>1 DEF ListsInv
  <2>3. ToSet(end_nodes[x]) \subseteq Nodes
    BY <2>2 DEF ToSet
  <2> QED BY <1>17, <2>3 DEF EndsAt
<1>24. \A n \in Nodes' \ {BOSNode} : \E l \in Nodes : prev'[n] = l /\ Linked(n, l)'
  <2> TAKE n \in Nodes' \ {BOSNode}
  <2>1. CASE n \in Nodes
    <3>1. PICK l : l = prev[n] /\ Linked(n, l)
      BY <1>2, <1>3, <2>1 DEF PrevInv
    <3>2. LeftOf(n) = EndsAt(BeginOf(n))
      BY <1>17, <2>1 DEF LeftOf
    <3>3. LeftOf(n)' = LeftOf(n) /\ LeftOf(n) \subseteq Nodes
      BY <1>21, <1>22, <1>23, <3>2
    <3>4. Linked(n, l)'
      BY <1>16, <2>1, <3>1, <3>3, LinkedStays
    <3>5. prev'[n] = l /\ l \in Nodes
      BY <1>16, <2>1, <3>1, <3>3 DEF Linked
    <3> QED BY <3>4, <3>5
  <2>2. CASE n \in L
    <3>1. BeginOf(n) = pos
      BY <1>110, <2>2
    <3>2. LeftOf(n)' = ToSet(end_nodes[pos]) /\ LeftOf(n)' \subseteq Nodes
      BY <1>3, <1>22, <1>23, <3>1
    <3>3. PICK l : l = prev'[n]
      OBVIOUS
    <3>4. /\ l \in ToSet(end_nodes[pos]) /\ cost'[n] = CostThrough(l, n)
          /\ \A k \in ToSet(end_nodes[pos]) : CostThrough(l, n) <= CostThrough(k, n)
      BY <1>9, <2>2, <3>3 DEF Links
    <3>5. \A k \in ToSet(end_nodes[pos]) : CostThrough(k, n)' = CostThrough(k, n)
      BY <1>16, <3>2 DEF CostThrough
    <3>6. Linked(n, l)'
      BY <3>2, <3>4, <3>5 DEF Linked
    <3>7. l \in Nodes
      BY <3>2, <3>4
    <3> QED BY <3>3, <3>6, <3>7
  <2> QED BY <1>12, <2>1, <2>2
<1>25. \/ Scanning' /\ ~ Built' /\ ~ GaveUp' /\ place' = "scan" /\ m = Len(found)
       \/ /\ ~ Scanning' /\ ~ Built' /\ GaveUp' /\ place' = "too long sentence" /\ m < Len(found)
  BY <1>7 DEF Scanning, Built, GaveUp, LookingUp
<1>26. /\ DOMAIN begin_nodes' = 0..size /\ begin_nodes'[pos] = found
       /\ \A q \in 0..size : q # pos => begin_nodes'[q] = begin_nodes[q]
       /\ begin_nodes'[size] = <<>>
  BY <1>1, <1>2, <1>3 DEF ListsInv
<1>27. ListsInv'
  <2>1. ASSUME NEW q \in 0..size-1
        PROVE  begin_nodes'[q] \in Seq(WordsAt(q, size)) /\ (pos' <= q => begin_nodes'[q] = <<>>)
    <3>1. CASE q = pos
      BY <1>1, <1>3, <1>4, <1>26, <3>1
    <3>2. CASE q # pos
      <4>1. begin_nodes'[q] = begin_nodes[q]
        BY <1>3, <1>26, <3>2
      <4>2. begin_nodes[q] \in Seq(WordsAt(q, size)) /\ (pos <= q => begin_nodes[q] = <<>>)
        BY <1>3 DEF ListsInv
      <4>3. pos' <= q => pos <= q
        BY <1>1, <1>3
      <4> QED BY <4>1, <4>2, <4>3
    <3> QED BY <3>1, <3>2
  <2>2. end_nodes'[0] = <<BOSNode>> /\ DOMAIN end_nodes' = 0..size+3
    BY <1>3, <1>9 DEF ListsInv, Ends
  <2>3. \A p \in 0..size+3 : end_nodes'[p] \in Seq(Nodes')
    BY <1>3, <1>9, <1>12 DEF ListsInv, Ends
  <2> QED BY <1>12, <1>25, <1>26, <2>1, <2>2, <2>3 DEF ListsInv
<1>28. NodesInv'
  <2>1. BOSNode \in Nodes' /\ EOSNode(size) \notin Nodes'
    BY <1>2, <1>3, <1>8, <1>11, <1>12 DEF NodesInv
  <2>2. ASSUME NEW n \in Nodes', n # BOSNode
        PROVE  \E q \in 0..size-1 : n \in ToSet(begin_nodes'[q])
    <3>1. pos \in 0..size-1
      BY <1>3
    <3>2. CASE n \in L
      BY <1>8, <1>26, <3>1, <3>2
    <3>3. CASE n \in Nodes
      <4>1. PICK q \in 0..size-1 : n \in ToSet(begin_nodes[q])
        BY <1>2, <1>3, <2>2, <3>3 DEF NodesInv
      <4>2. q # pos /\ q \in 0..size
        BY <1>3, <1>13, <4>1
      <4> QED BY <1>26, <4>1, <4>2
    <3> QED BY <1>12, <2>2, <3>2, <3>3
  <2>3. ASSUME NEW q \in 0..size-1, Whole(q)' PROVE ToSet(begin_nodes'[q]) \subseteq Nodes'
    <3>1. CASE q = pos
      <4>1. ~ GaveUp'
        <5>1. ~ (q < pos' - 1)
          BY <1>1, <1>3, <3>1
        <5> QED BY <1>12, <1>26, <2>3, <5>1 DEF Whole
      <4>2. L = ToSet(found)
        BY <1>8, <1>25, <4>1
      <4> QED BY <1>12, <1>26, <3>1, <4>2
    <3>2. CASE q # pos
      <4>1. begin_nodes'[q] = begin_nodes[q]
        BY <1>3, <1>26, <3>2
      <4>2. ToSet(begin_nodes[q]) \subseteq Nodes
        BY <1>2, <1>3 DEF NodesInv, Whole
      <4> QED BY <1>12, <4>1, <4>2
    <3> QED BY <3>1, <3>2
  <2>4. ASSUME NEW p \in 0..size+3
        PROVE  EndsAt(p)' = { n \in Nodes' : n.stat # "eos" /\ EndOf(n) = p }
    <3>1. EndsAt(p) = { n \in Nodes : n.stat # "eos" /\ EndOf(n) = p }
      BY <1>3 DEF NodesInv
    <3>2. EndsAt(p)' = EndsAt(p) \union { r \in L : EndOf(r) = p }
      BY <1>19
    <3> QED BY <1>8, <1>11, <1>12, <3>1, <3>2
  <2> QED BY <1>12, <1>25, <2>1, <2>2, <2>3, <2>4 DEF NodesInv
<1>29. CostsInv'
  <2>1. ASSUME NEW n \in Nodes' PROVE cost'[n] \in Int /\ cost'[n] < CostLimit
    <3>1. CASE n \in Nodes
      BY <1>3, <1>16, <3>1 DEF CostsInv
    <3>2. CASE n \in L
      <4>1. /\ prev'[n] \in ToSet(end_nodes[pos]) /\ cost'[n] = CostThrough(prev'[n], n)
            /\ cost'[n] < CostLimit
        BY <1>9, <3>2 DEF Links
      <4>2. prev'[n] \in Nodes
        BY <1>3, <1>23, <4>1
      <4> QED BY <1>5, <1>8, <3>2, <4>1, <4>2
    <3> QED BY <1>12, <3>1, <3>2
  <2>2. cost'[BOSNode] = 0
    BY <1>3, <1>16 DEF CostsInv, NodesInv
  <2>3. \A n \in Nodes' \ {BOSNode} : \E l \in Nodes' : Linked(n, l)'
    BY <1>12, <1>24, Zenon
  <2> QED BY <2>1, <2>2, <2>3 DEF CostsInv
<1>30. LinksInv'
  <2>1. DOMAIN prev' = Nodes' /\ DOMAIN next' = Nodes' /\ isbest' \subseteq Nodes'
    BY <1>1, <1>3, <1>9, <1>12 DEF LinksInv, Links
  <2>2. ASSUME NEW n \in Nodes' PROVE prev'[n] \in Nodes' \union {None} /\ next'[n] \in Nodes' \union {None}
    <3>1. CASE n \in Nodes
      BY <1>3, <1>12, <1>16, <3>1 DEF LinksInv
    <3>2. CASE n \in L
      <4>1. n # BOSNode /\ next'[n] = None
        BY <1>8, <1>9, <1>11, <3>2 DEF Links
      <4> QED BY <1>12, <1>24, <3>2, <4>1
    <3> QED BY <1>12, <3>1, <3>2
  <2> QED BY <2>1, <2>2 DEF LinksInv
<1>31. PrevInv'
  <2>1. isbest' = {BOSNode} /\ prev'[BOSNode] = None
    BY <1>1, <1>2, <1>3, <1>16 DEF PrevInv, NodesInv
  <2>2. \A n \in Nodes' \ {BOSNode} : Linked(n, prev[n])'
    BY <1>24 DEF Linked
  <2> QED BY <2>1, <2>2 DEF PrevInv
<1>32. GaveUpInv'
  <2> SUFFICES ASSUME GaveUp'
               PROVE  \E p \in 0..size' : \E n \in ToSet(begin_nodes'[p]) :
                        /\ \A l \in LeftOf(n)' : CostThrough(l, n)' >= CostLimit
                        /\ p = IF begin_nodes'[size'] = <<>> THEN pos' - 1 ELSE size'
    BY DEF GaveUpInv
  <2>1. m < Len(found)
    BY <1>25
  <2>2. PICK p \in 0..size : p = pos
    BY <1>3
  <2>3. PICK n : n = found[m + 1]
    OBVIOUS
  <2>4. n \in ToSet(found)
    BY <1>10, <2>1, <2>3
  <2>5. \A l \in ToSet(end_nodes[pos]) : CostThrough(l, n) >= CostLimit
    <3>1. place' = "too long sentence"
      BY DEF GaveUp
    <3> QED BY <1>7, <2>3, <3>1
  <2>6. n.stat # "eos" /\ BeginOf(n) = p
    BY <1>11, <2>2, <2>4
  <2>7. LeftOf(n)' = ToSet(end_nodes[pos]) /\ LeftOf(n)' \subseteq Nodes
    <3>1. LeftOf(n)' = EndsAt(p)'
      BY <2>6 DEF LeftOf
    <3>2. p \in 0..pos
      BY <1>3, <2>2
    <3>3. EndsAt(p)' = EndsAt(p)
      BY <1>20, <3>2
    <3> QED BY <1>23, <2>2, <3>1, <3>2, <3>3
  <2>8. \A l \in LeftOf(n)' : CostThrough(l, n)' >= CostLimit
    <3>1. \A l \in LeftOf(n)' : CostThrough(l, n)' = CostThrough(l, n)
      BY <1>16, <2>7 DEF CostThrough
    <3> QED BY <2>5, <2>7, <3>1
  <2>9. n \in ToSet(begin_nodes'[p]) /\ begin_nodes'[size'] = <<>>
    BY <1>12, <1>26, <2>2, <2>4
  <2>10. p = pos' - 1 /\ p \in 0..size'
    BY <1>1, <1>3, <1>12, <2>2
  <2> QED BY <2>8, <2>9, <2>10
<1>33. PathsInv'
  <2> SUFFICES ASSUME NEW q \in paths' PROVE q.lnode \in Nodes' /\ q.rnode # BOSNode
    BY DEF PathsInv
  <2>1. CASE q \in paths
    BY <1>3, <1>12, <2>1 DEF PathsInv
  <2>2. CASE q \in PathsBetween(ToSet(end_nodes[pos]), ToSet(found))
    <3>1. PICK l \in ToSet(end_nodes[pos]), r \in ToSet(found) : q.lnode = l /\ q.rnode = r
      BY <2>2 DEF PathsBetween
    <3>2. l \in Nodes
      BY <1>3, <1>23
    <3> QED BY <1>11, <1>12, <3>1, <3>2
  <2> QED BY <1>7, <2>1, <2>2
<1>34. ASSUME FullPaths PROVE FullPaths'
  <2> SUFFICES ASSUME IsAllPath', Scanning' \/ Built' PROVE paths' = AllPaths'
    BY DEF FullPaths
  <2>1. IsAllPath /\ L = ToSet(found)
    BY <1>1, <1>8, <1>25 DEF IsAllPath
  <2>2. /\ paths = AllPaths
        /\ paths' = paths \union PathsBetween(ToSet(end_nodes[pos]), L)
    <3>1. paths = AllPaths
      BY <1>2, <1>34, <2>1 DEF FullPaths
    <3>2. place' # "too long sentence"
      BY <1>25
    <3> QED BY <1>7, <2>1, <3>1, <3>2
  <2>3. ASSUME NEW n \in Nodes PROVE LeftOf(n)' = LeftOf(n)
    <3>1. LeftOf(n) = EndsAt(BeginOf(n))
      BY <1>17 DEF LeftOf
    <3> QED BY <1>12, <1>22, <3>1
  <2>4. ASSUME NEW n \in L PROVE LeftOf(n)' = ToSet(end_nodes[pos]) /\ n # BOSNode
    <3>1. BeginOf(n) = pos /\ n # BOSNode
      BY <1>110
    <3> QED BY <1>3, <1>12, <1>22, <1>23, <3>1
  <2>5. ASSUME NEW q PROVE q \in AllPaths' <=> q \in paths'
    <3>1. q \in AllPaths' <=> \E n \in Nodes' \ {BOSNode} : q \in PathsBetween(LeftOf(n)', {n})
      BY DEF AllPaths
    <3>2. q \in AllPaths <=> \E n \in Nodes \ {BOSNode} : q \in PathsBetween(LeftOf(n), {n})
      BY DEF AllPaths
    <3>3. q \in PathsBetween(ToSet(end_nodes[pos]), L)
            <=> \E n \in L : q \in PathsBetween(ToSet(end_nodes[pos]), {n})
      BY DEF PathsBetween
    <3> QED BY <1>12, <2>2, <2>3, <2>4, <3>1, <3>2, <3>3, Zenon
  <2> QED BY <2>5
<1> QED BY <1>27, <1>28, <1>29, <1>30, <1>31, <1>32, <1>33, <1>34 DEF LatticeInv

(* While no node is EOS, the lists of ending nodes hold nothing else. *)
LEMMA EndsBeforeEOS ==
  ASSUME size \in Nat, ListsInv, NodesInv, ~ Built
  PROVE  /\ \A n \in Nodes : n.stat # "eos"
         /\ \A x \in 0..size+3 : EndsAt(x) = ToSet(end_nodes[x]) /\ EndsAt(x) \subseteq Nodes
         /\ Max({ p \in 0..size : end_nodes[p] # <<>> }) = LastEnd
         /\ LastEnd \in 0..size
<1>1. \A n \in Nodes : n.stat # "eos"
  BY NodesAre
<1>2. ASSUME NEW x \in 0..size+3
      PROVE  /\ EndsAt(x) = ToSet(end_nodes[x]) /\ EndsAt(x) \subseteq Nodes
             /\ end_nodes[x] # <<>> <=> EndsAt(x) # {}
  <2>1. end_nodes[x] \in Seq(Nodes)
    BY DEF ListsInv
  <2>2. ToSet(end_nodes[x]) \subseteq Nodes
    BY <2>1 DEF ToSet
  <2>3. EndsAt(x) = ToSet(end_nodes[x])
    BY <1>1, <2>2 DEF EndsAt
  <2>4. end_nodes[x] # <<>> => end_nodes[x][1] \in ToSet(end_nodes[x])
    <3>1. end_nodes[x] # <<>> => 1 \in DOMAIN end_nodes[x]
      BY <2>1
    <3> QED BY <3>1 DEF ToSet
  <2>5. ToSet(<<>>) = {}
    BY DEF ToSet
  <2> QED BY <2>2, <2>3, <2>4, <2>5
<1>3. { p \in 0..size : end_nodes[p] # <<>> } = { p \in 0..size : EndsAt(p) # {} }
  BY <1>2
<1>4. LastEnd \in 0..size
  <2> DEFINE S == { p \in 0..size : EndsAt(p) # {} }
  <2>1. S \in SUBSET (0..size) /\ 0 \in Int /\ size \in Int
    OBVIOUS
  <2>2. S # {}
    <3>1. 0 \in 0..size /\ 0 \in 0..size+3
      OBVIOUS
    <3>2. end_nodes[0] # <<>>
      BY DEF ListsInv
    <3> QED BY <1>2, <3>1, <3>2
  <2> HIDE DEF S
  <2>3. Max(S) \in S
    BY <2>1, <2>2, MaxIsGreatest
  <2>4. Max(S) \in 0..size
    BY <2>1, <2>3
  <2> QED BY <2>4 DEF LastEnd, S
<1> QED BY <1>1, <1>2, <1>3, <1>4 DEF LastEnd

\* Linking the end of the sentence keeps it.
LEMMA ConnectEOSLattice ==
  ASSUME TextInv, LookupInv, LatticeInv, ConnectEOS
  PROVE  LatticeInv' /\ (FullPaths => FullPaths')
<1> DEFINE eos == EOSNode(size)
<1>1. /\ place = "scan" /\ pos = size /\ begin_nodes' = [begin_nodes EXCEPT ![size] = <<eos>>]
      /\ Connect(Max({ p \in 0..size : end_nodes[p] # <<>> }), <<eos>>, "forwardbackward")
      /\ pos' = pos /\ sentence' = sentence /\ isbest' = isbest /\ request' = request
  BY DEF ConnectEOS, inputVars, markVars
<1>2. Scanning /\ ~ Built /\ ~ GaveUp /\ place # "initPartial"
  BY <1>1 DEF Scanning, Built, GaveUp, LookingUp
<1>3. size \in Nat /\ ListsInv /\ NodesInv /\ CostsInv /\ LinksInv /\ PrevInv /\ PathsInv
  BY <1>2, LatticeReady
<1>4. /\ eos \in NodeRecords /\ eos.token \in NodeTokens /\ eos.stat = "eos" /\ eos # BOSNode
      /\ eos.rlength = 0
  <2>1. eos.token \in NodeTokens
    BY <1>3, EndNodes DEF NodeRecords
  <2> QED BY <1>3, <2>1, EndNodes
<1>40. eos \notin Nodes
  BY <1>2, <1>3 DEF NodesInv
<1> HIDE DEF eos
<1>5. PICK p \in 0..size : p = LastEnd
  BY <1>2, <1>3, EndsBeforeEOS
<1>6. /\ \A n \in Nodes : n.stat # "eos"
      /\ \A x \in 0..size+3 : EndsAt(x) = ToSet(end_nodes[x]) /\ EndsAt(x) \subseteq Nodes
      /\ Connect(p, <<eos>>, "forwardbackward")
  BY <1>1, <1>2, <1>3, <1>5, EndsBeforeEOS
<1>7. p \in DOMAIN end_nodes /\ 0 \in DOMAIN end_nodes /\ p \in 0..size+3
      /\ \A x \in DOMAIN end_nodes : end_nodes[x] \in Seq(Nodes)
  BY <1>3 DEF ListsInv
<1>8. \A l \in Nodes : CostThrough(l, eos) \in Int
  BY <1>2, <1>4, CostsBetween
<1> DEFINE Outcome(L) ==
       /\ Links(p, L) /\ Ends(p, L)
       /\ paths' \subseteq paths \union PathsBetween(ToSet(end_nodes[p]), {eos})
       /\ \/ /\ L = {eos} /\ place' = "forwardbackward"
             /\ IsAllPath => paths' = paths \union PathsBetween(ToSet(end_nodes[p]), {eos})
          \/ /\ L = {} /\ place' = "too long sentence"
             /\ \A l \in ToSet(end_nodes[p]) : CostThrough(l, eos) >= CostLimit
<1>9. \E L \in {{}, {eos}} : Outcome(L)
  <2>1. <<eos>> \in Seq({eos}) /\ Len(<<eos>>) = 1 /\ <<eos>>[1] = eos /\ DOMAIN <<eos>> = {1}
    OBVIOUS
  <2>2. ToSet(<<eos>>) = {eos}
    BY <2>1 DEF ToSet
  <2>3. \A l \in Nodes : \A r \in {eos} : CostThrough(l, r) \in Int
    BY <1>8
  <2> DEFINE w == <<eos>>
  <2>20. w \in Seq({eos}) /\ Len(w) = 1 /\ w[1] = eos /\ ToSet(w) = {eos}
    BY <2>1, <2>2
  <2> HIDE DEF w
  <2>4. \E m \in 0..Len(w) : LinksFirst(p, w, m, "forwardbackward")
    <3>1. Connect(p, w, "forwardbackward")
      BY <1>6 DEF w
    <3> QED BY <3>1, <1>7, <2>20, <2>3, ConnectDoes
  <2>40. PICK m \in 0..Len(w) :
           /\ Links(p, { w[i] : i \in 1..m }) /\ Ends(p, { w[i] : i \in 1..m })
           /\ paths' \subseteq paths \union PathsBetween(ToSet(end_nodes[p]), ToSet(w))
           /\ \/ /\ m = Len(w) /\ place' = "forwardbackward"
                 /\ IsAllPath => paths' = paths \union PathsBetween(ToSet(end_nodes[p]), {eos})
              \/ /\ m < Len(w) /\ place' = "too long sentence"
                 /\ \A l \in ToSet(end_nodes[p]) : CostThrough(l, w[m + 1]) >= CostLimit
    BY <2>4, <2>20 DEF LinksFirst
  <2> DEFINE L == { w[i] : i \in 1..m }
  <2>5. (m = 0 /\ L = {}) \/ (m = 1 /\ L = {eos})
    <3>1. m = 0 \/ m = 1
      BY <2>20
    <3>2. m = 0 => L = {}
      OBVIOUS
    <3>3. m = 1 => L = {eos}
      BY <2>20
    <3> QED BY <3>1, <3>2, <3>3
  <2> HIDE DEF L
  <2>6. Links(p, L) /\ Ends(p, L)
    BY <2>40 DEF L
  <2>7. CASE m = 0 /\ L = {}
    <3>0. m # Len(w) /\ w[m + 1] = eos
      BY <2>20, <2>7
    <3>1. place' = "too long sentence" /\ \A l \in ToSet(end_nodes[p]) : CostThrough(l, eos) >= CostLimit
      BY <2>40, <3>0
    <3> QED BY <2>20, <2>40, <2>6, <2>7, <3>1
  <2>8. CASE m = 1 /\ L = {eos}
    <3>1. /\ place' = "forwardbackward"
          /\ IsAllPath => paths' = paths \union PathsBetween(ToSet(end_nodes[p]), {eos})
      <4>1. ~ (m < Len(w))
        BY <2>20, <2>8
      <4> QED BY <2>40, <4>1, Zenon
    <3> QED BY <2>20, <2>40, <2>6, <2>8, <3>1
  <2> QED BY <2>5, <2>7, <2>8
<1>10. PICK L \in {{}, {eos}} : Outcome(L)
  BY <1>9
<1>11. \A r \in L : r = eos
  BY <1>10
<1>12. Nodes' = Nodes \union L /\ size' = size
  BY <1>1, <1>10 DEF Links, Nodes, size
<1>13. \A n \in Nodes : cost'[n] = cost[n] /\ prev'[n] = prev[n] /\ next'[n] = next[n]
  BY <1>3, <1>10, <1>11, <1>40 DEF Links, LinksInv
<1>14. \A x \in 0..size+3 : EndsAt(x)' = EndsAt(x)
  <2> TAKE x \in 0..size+3
  <2>1. x \in DOMAIN end_nodes
    BY <1>3 DEF ListsInv
  <2>2. x # 0 => ToSet(end_nodes'[x]) = ToSet(end_nodes[x]) \union { r \in L : r.rlength + p = x }
    BY <1>10, <2>1 DEF Ends
  <2>3. \A r \in L : r.stat = "eos"
    BY <1>4, <1>11
  <2>4. x = 0 => end_nodes'[x] = end_nodes[x]
    BY <1>10 DEF Ends
  <2>5. CASE x = 0
    BY <2>4, <2>5 DEF EndsAt
  <2>6. CASE x # 0
    BY <2>2, <2>3, <2>6 DEF EndsAt
  <2> QED BY <2>5, <2>6
<1>15. LastEnd' = LastEnd
  <2>1. \A q \in 0..size : EndsAt(q)' = EndsAt(q)
    BY <1>3, <1>14
  <2>2. { q \in 0..size' : EndsAt(q)' # {} } = { q \in 0..size : EndsAt(q) # {} }
    BY <1>12, <2>1
  <2> QED BY <2>2 DEF LastEnd
<1>16. \A n \in Nodes : LeftOf(n)' = LeftOf(n) /\ LeftOf(n) \subseteq Nodes
  <2> TAKE n \in Nodes
  <2>1. n.stat # "eos"
    BY <1>6
  <2>2. BeginOf(n) \in 0..size+3
    <3>1. CASE n = BOSNode
      BY <1>3, <3>1, EndNodes
    <3>2. CASE n # BOSNode
      <4>1. BeginOf(n) \in 0..size-1
        BY <1>2, <1>3, <3>2, NodesAre DEF NodesInv
      <4> QED BY <1>3, <4>1
    <3> QED BY <3>1, <3>2
  <2>3. LeftOf(n)' = EndsAt(BeginOf(n))' /\ LeftOf(n) = EndsAt(BeginOf(n))
    BY <2>1 DEF LeftOf
  <2>4. EndsAt(BeginOf(n))' = EndsAt(BeginOf(n)) /\ EndsAt(BeginOf(n)) \subseteq Nodes
    BY <1>6, <1>14, <2>2
  <2> QED BY <2>3, <2>4
<1>17. \A n : n = eos => LeftOf(n)' = ToSet(end_nodes[p]) /\ ToSet(end_nodes[p]) \subseteq Nodes
  <2> SUFFICES ASSUME NEW n, n = eos
               PROVE  LeftOf(n)' = ToSet(end_nodes[p]) /\ ToSet(end_nodes[p]) \subseteq Nodes
    OBVIOUS
  <2>1. n.stat = "eos"
    BY <1>4
  <2>2. LastEnd' = p
    BY <1>5, <1>15
  <2>3. LeftOf(n)' = EndsAt(p)'
    BY <2>1, <2>2 DEF LeftOf, EndsAt
  <2>4. EndsAt(p)' = EndsAt(p) /\ EndsAt(p) = ToSet(end_nodes[p]) /\ EndsAt(p) \subseteq Nodes
    BY <1>6, <1>7, <1>14
  <2> QED BY <2>3, <2>4
<1>18. \A n \in Nodes' \ {BOSNode} : \E l \in Nodes : prev'[n] = l /\ Linked(n, l)'
  <2> TAKE n \in Nodes' \ {BOSNode}
  <2>1. CASE n \in Nodes
    <3>1. PICK l : l = prev[n] /\ Linked(n, l)
      BY <1>2, <1>3, <2>1 DEF PrevInv
    <3>2. Linked(n, l)'
      BY <1>13, <1>16, <2>1, <3>1, LinkedStays
    <3>3. prev'[n] = l /\ l \in Nodes
      BY <1>13, <1>16, <2>1, <3>1 DEF Linked
    <3> QED BY <3>2, <3>3
  <2>2. CASE n \in L
    <3>1. LeftOf(n)' = ToSet(end_nodes[p]) /\ LeftOf(n)' \subseteq Nodes
      BY <1>11, <1>17, <2>2
    <3>2. PICK l : l = prev'[n]
      OBVIOUS
    <3>3. /\ l \in ToSet(end_nodes[p]) /\ cost'[n] = CostThrough(l, n)
          /\ \A k \in ToSet(end_nodes[p]) : CostThrough(l, n) <= CostThrough(k, n)
      BY <1>10, <2>2, <3>2 DEF Links
    <3>4. \A k \in ToSet(end_nodes[p]) : CostThrough(k, n)' = CostThrough(k, n)
      BY <1>13, <3>1 DEF CostThrough
    <3>5. Linked(n, l)'
      BY <3>1, <3>3, <3>4 DEF Linked
    <3>6. l \in Nodes
      BY <3>1, <3>3
    <3> QED BY <3>2, <3>5, <3>6
  <2> QED BY <1>12, <2>1, <2>2
<1>19. /\ ~ Scanning'
       /\ \/ Built' /\ ~ GaveUp' /\ place' = "forwardbackward" /\ L = {eos}
          \/ ~ Built' /\ GaveUp' /\ place' = "too long sentence" /\ L = {}
  BY <1>10 DEF Scanning, Built, GaveUp, LookingUp
<1>20. /\ DOMAIN begin_nodes' = 0..size /\ begin_nodes'[size] = <<eos>>
       /\ \A q \in 0..size-1 : begin_nodes'[q] = begin_nodes[q]
  <2>1. DOMAIN begin_nodes = 0..size /\ size \in 0..size
    BY <1>3 DEF ListsInv
  <2>2. \A q \in 0..size-1 : q \in 0..size /\ q # size
    BY <1>3
  <2> QED BY <1>1, <2>1, <2>2
<1>21. ListsInv'
  <2>1. \A q \in 0..size-1 : begin_nodes'[q] \in Seq(WordsAt(q, size)) /\ (pos' <= q => begin_nodes'[q] = <<>>)
    BY <1>1, <1>3, <1>20 DEF ListsInv
  <2>2. end_nodes'[0] = <<BOSNode>> /\ DOMAIN end_nodes' = 0..size+3
    BY <1>3, <1>10 DEF ListsInv, Ends
  <2>3. \A x \in 0..size+3 : end_nodes'[x] \in Seq(Nodes')
    BY <1>3, <1>10, <1>12 DEF ListsInv, Ends
  <2>4. /\ Built' => begin_nodes'[size] = <<EOSNode(size)>>
        /\ GaveUp' => begin_nodes'[size] \in {<<>>, <<EOSNode(size)>>}
    BY <1>20 DEF eos
  <2> QED BY <1>12, <1>19, <1>20, <2>1, <2>2, <2>3, <2>4 DEF ListsInv
<1>22. NodesInv'
  <2>1. BOSNode \in Nodes' /\ (EOSNode(size) \in Nodes' <=> Built')
    <3>1. eos \in Nodes' <=> Built'
      BY <1>12, <1>19, <1>40
    <3> QED BY <1>3, <1>12, <3>1 DEF NodesInv, eos
  <2>2. ASSUME NEW n \in Nodes'
        PROVE  n \in {BOSNode, EOSNode(size)} \/ \E q \in 0..size-1 : n \in ToSet(begin_nodes'[q])
    <3>1. CASE n \in Nodes
      BY <1>3, <1>20, <3>1 DEF NodesInv
    <3>2. CASE n \in L
      BY <1>11, <3>2 DEF eos
    <3> QED BY <1>12, <3>1, <3>2
  <2>3. ASSUME NEW q \in 0..size-1 PROVE ToSet(begin_nodes'[q]) \subseteq Nodes'
    <3>1. ToSet(begin_nodes[q]) \subseteq Nodes
      BY <1>2, <1>3 DEF NodesInv, Whole
    <3> QED BY <1>12, <1>20, <3>1
  <2>4. ASSUME NEW x \in 0..size+3
        PROVE  EndsAt(x)' = { n \in Nodes' : n.stat # "eos" /\ EndOf(n) = x }
    <3>1. EndsAt(x) = { n \in Nodes : n.stat # "eos" /\ EndOf(n) = x }
      BY <1>3 DEF NodesInv
    <3>2. \A r \in L : r.stat = "eos"
      BY <1>4, <1>11
    <3> QED BY <1>12, <1>14, <3>1, <3>2
  <2> QED BY <1>12, <2>1, <2>2, <2>3, <2>4 DEF NodesInv
<1>23. CostsInv'
  <2>1. ASSUME NEW n \in Nodes' PROVE cost'[n] \in Int /\ cost'[n] < CostLimit
    <3>1. CASE n \in Nodes
      BY <1>3, <1>13, <3>1 DEF CostsInv
    <3>2. CASE n \in L
      <4>1. /\ prev'[n] \in ToSet(end_nodes[p]) /\ cost'[n] = CostThrough(prev'[n], n)
            /\ cost'[n] < CostLimit /\ n = eos
        BY <1>10, <1>11, <3>2 DEF Links
      <4>2. prev'[n] \in Nodes
        BY <1>6, <1>7, <4>1
      <4> QED BY <1>8, <4>1, <4>2
    <3> QED BY <1>12, <3>1, <3>2
  <2>2. cost'[BOSNode] = 0
    BY <1>3, <1>13 DEF CostsInv, NodesInv
  <2>3. \A n \in Nodes' \ {BOSNode} : \E l \in Nodes' : Linked(n, l)'
    BY <1>12, <1>18, Zenon
  <2> QED BY <2>1, <2>2, <2>3 DEF CostsInv
<1>24. LinksInv'
  <2>1. DOMAIN prev' = Nodes' /\ DOMAIN next' = Nodes' /\ isbest' \subseteq Nodes'
    BY <1>1, <1>3, <1>10, <1>12 DEF LinksInv, Links
  <2>2. ASSUME NEW n \in Nodes' PROVE prev'[n] \in Nodes' \union {None} /\ next'[n] \in Nodes' \union {None}
    <3>1. CASE n \in Nodes
      BY <1>3, <1>12, <1>13, <3>1 DEF LinksInv
    <3>2. CASE n \in L
      <4>0. next'[n] = None
        BY <1>10, <3>2 DEF Links
      <4>1. n # BOSNode /\ next'[n] = None
        BY <1>4, <1>11, <3>2, <4>0
      <4> QED BY <1>12, <1>18, <3>2, <4>1
    <3> QED BY <1>12, <3>1, <3>2
  <2> QED BY <2>1, <2>2 DEF LinksInv
<1>25. PrevInv'
  <2>1. isbest' = {BOSNode} /\ prev'[BOSNode] = None
    BY <1>1, <1>2, <1>3, <1>13 DEF PrevInv, NodesInv
  <2>2. \A n \in Nodes' \ {BOSNode} : Linked(n, prev[n])'
    BY <1>18 DEF Linked
  <2> QED BY <2>1, <2>2 DEF PrevInv
<1>26. GaveUpInv'
  <2> SUFFICES ASSUME GaveUp'
               PROVE  \E q \in 0..size' : \E n \in ToSet(begin_nodes'[q]) :
                        /\ \A l \in LeftOf(n)' : CostThrough(l, n)' >= CostLimit
                        /\ q = IF begin_nodes'[size'] = <<>> THEN pos' - 1 ELSE size'
    BY DEF GaveUpInv
  <2>1. \A l \in ToSet(end_nodes[p]) : CostThrough(l, eos) >= CostLimit
    <3>1. place' = "too long sentence"
      BY DEF GaveUp
    <3> QED BY <1>10, <3>1
  <2>2. PICK n : n = eos
    OBVIOUS
  <2>3. LeftOf(n)' = ToSet(end_nodes[p]) /\ ToSet(end_nodes[p]) \subseteq Nodes
    BY <1>17, <2>2
  <2>4. \A l \in LeftOf(n)' : CostThrough(l, n)' >= CostLimit
    <3>1. \A l \in LeftOf(n)' : CostThrough(l, n)' = CostThrough(l, n)
      BY <1>13, <2>3 DEF CostThrough
    <3> QED BY <2>1, <2>2, <2>3, <3>1
  <2>5. ToSet(<<eos>>) = {eos} /\ <<eos>> # <<>>
    BY DEF ToSet
  <2>6. n \in ToSet(begin_nodes'[size']) /\ begin_nodes'[size'] # <<>>
    BY <1>12, <1>20, <2>2, <2>5
  <2>7. size' \in 0..size'
    BY <1>3, <1>12
  <2> QED BY <2>4, <2>6, <2>7
<1>27. PathsInv'
  <2> SUFFICES ASSUME NEW q \in paths' PROVE q.lnode \in Nodes' /\ q.rnode # BOSNode
    BY DEF PathsInv
  <2>1. CASE q \in paths
    BY <1>3, <1>12, <2>1 DEF PathsInv
  <2>2. CASE q \in PathsBetween(ToSet(end_nodes[p]), {eos})
    <3>1. PICK l \in ToSet(end_nodes[p]), r \in {eos} : q.lnode = l /\ q.rnode = r
      BY <2>2 DEF PathsBetween
    <3>2. l \in Nodes
      BY <1>6, <1>7
    <3> QED BY <1>4, <1>12, <3>1, <3>2
  <2> QED BY <1>10, <2>1, <2>2
<1>28. ASSUME FullPaths PROVE FullPaths'
  <2> SUFFICES ASSUME IsAllPath', Scanning' \/ Built' PROVE paths' = AllPaths'
    BY DEF FullPaths
  <2>1. IsAllPath /\ L = {eos}
    BY <1>1, <1>19 DEF IsAllPath
  <2>2. /\ paths = AllPaths
        /\ paths' = paths \union PathsBetween(ToSet(end_nodes[p]), {eos})
    <3>1. paths = AllPaths
      BY <1>2, <1>28, <2>1 DEF FullPaths
    <3>2. place' # "too long sentence"
      BY <1>19
    <3> QED BY <1>10, <2>1, <3>1, <3>2
  <2>30. PICK e : e = eos
    OBVIOUS
  <2>3. LeftOf(e)' = ToSet(end_nodes[p]) /\ e # BOSNode
    BY <1>4, <1>17, <2>30
  <2>31. Nodes' \ {BOSNode} = (Nodes \ {BOSNode}) \union {e}
    BY <1>12, <2>1, <2>3, <2>30
  <2>4. ASSUME NEW q PROVE q \in AllPaths' <=> q \in paths'
    <3>1. q \in AllPaths' <=> \E n \in Nodes' \ {BOSNode} : q \in PathsBetween(LeftOf(n)', {n})
      BY DEF AllPaths
    <3>2. q \in AllPaths <=> \E n \in Nodes \ {BOSNode} : q \in PathsBetween(LeftOf(n), {n})
      BY DEF AllPaths
    <3> QED BY <1>16, <2>2, <2>3, <2>30, <2>31, <3>1, <3>2, Zenon
  <2> QED BY <2>4
<1> QED BY <1>21, <1>22, <1>23, <1>24, <1>25, <1>26, <1>27, <1>28 DEF LatticeInv

-----------------------------------------------------------------------------
(* The ways through the lattice *)

\* a way from BOS to the position p, through nodes that the lookups found
IsChain(s, p) ==
  /\ s \in Seq(NodeRecords) /\ s # <<>> /\ s[1] = BOSNode /\ EndOf(s[Len(s)]) = p
  /\ \A i \in 2..Len(s) : /\ BeginOf(s[i]) \in 0..size-1 /\ EndOf(s[i - 1]) = BeginOf(s[i])
                          /\ s[i] \in ToSet(begin_nodes[BeginOf(s[i])])
Chains(p) == { s \in Seq(NodeRecords) : IsChain(s, p) }

\* What lookup found at a position begins there and ends behind it.
LEMMA FoundAre ==
  ASSUME size \in Nat, ListsInv, NEW q \in 0..size-1, NEW n \in ToSet(begin_nodes[q])
  PROVE  /\ n \in WordsAt(q, size) /\ n \in NodeRecords /\ n.stat # "eos" /\ n.stat # "bos"
         /\ BeginOf(n) = q /\ EndOf(n) \in q+1..size+1 /\ EndOf(n) \in Int
         /\ n # BOSNode /\ n # EOSNode(size)
<1>1. begin_nodes[q] \in Seq(WordsAt(q, size))
  BY DEF ListsInv
<1>2. n \in WordsAt(q, size)
  BY <1>1 DEF ToSet
<1>3. q \in Nat
  OBVIOUS
<1> QED BY <1>2, <1>3, WordRecords

\* The only chain of one node is the begin of the sentence.
LEMMA ChainOfOne ==
  ASSUME size \in Nat, ListsInv
  PROVE  /\ IsChain(<<BOSNode>>, 0)
         /\ \A s, p : IsChain(s, p) /\ (Len(s) = 1 \/ p = 0) => s = <<BOSNode>> /\ p = 0
<1>0. BOSNode \in NodeRecords /\ EndOf(BOSNode) = 0
  BY EndNodes
<1>1. IsChain(<<BOSNode>>, 0)
  <2> DEFINE w == <<BOSNode>>
  <2>1. w \in Seq(NodeRecords) /\ w # <<>> /\ w[1] = BOSNode /\ Len(w) = 1
    BY <1>0
  <2> HIDE DEF w
  <2>2. IsChain(w, 0)
    BY <1>0, <2>1 DEF IsChain
  <2> QED BY <2>2 DEF w
<1>2. ASSUME NEW s, NEW p, IsChain(s, p), Len(s) = 1 PROVE s = <<BOSNode>> /\ p = 0
  BY <1>0, <1>2 DEF IsChain
<1>3. ASSUME NEW s, NEW p, IsChain(s, p), p = 0 PROVE s = <<BOSNode>> /\ p = 0
  <2>1. CASE Len(s) = 1
    BY <1>2, <1>3, <2>1
  <2>2. CASE Len(s) # 1
    <3>0. s \in Seq(NodeRecords) /\ s # <<>>
      BY <1>3 DEF IsChain
    <3>10. Len(s) \in Nat /\ Len(s) # 0
      BY <3>0
    <3>11. \A k \in Nat : k # 0 /\ k # 1 => k \in 2..k
      OBVIOUS
    <3>1. Len(s) \in 2..Len(s)
      BY <2>2, <3>10, <3>11, Zenon
    <3>2. PICK q \in 0..size-1 : s[Len(s)] \in ToSet(begin_nodes[q])
      BY <1>3, <3>1 DEF IsChain
    <3>20. PICK n : n = s[Len(s)] /\ n \in ToSet(begin_nodes[q])
      BY <3>2
    <3>3. EndOf(n) \in q+1..size+1
      BY <3>20, FoundAre
    <3>4. EndOf(n) = 0
      BY <1>3, <3>20 DEF IsChain
    <3> QED BY <3>3, <3>4
  <2> QED BY <2>1, <2>2
<1> QED BY <1>1, <1>2, <1>3

\* A node found where a chain ends makes it longer.
LEMMA ChainLonger ==
  ASSUME size \in Nat, ListsInv, NEW q \in 0..size-1, NEW n \in ToSet(begin_nodes[q]),
         NEW t, IsChain(t, q)
  PROVE  IsChain(Append(t, n), EndOf(n)) /\ Append(t, n) \in Seq(NodeRecords)
<1>1. n \in NodeRecords /\ BeginOf(n) = q
  BY FoundAre
<1>2. t \in Seq(NodeRecords) /\ t # <<>> /\ t[1] = BOSNode /\ EndOf(t[Len(t)]) = q
      /\ \A i \in 2..Len(t) : /\ BeginOf(t[i]) \in 0..size-1 /\ EndOf(t[i - 1]) = BeginOf(t[i])
                              /\ t[i] \in ToSet(begin_nodes[BeginOf(t[i])])
  BY DEF IsChain
<1> DEFINE s == Append(t, n)
<1>3. /\ s \in Seq(NodeRecords) /\ s # <<>> /\ Len(s) = Len(t) + 1 /\ s[Len(t) + 1] = n
      /\ Len(t) \in Nat /\ Len(t) # 0 /\ \A i \in 1..Len(t) : s[i] = t[i]
  BY <1>1, <1>2
<1> HIDE DEF s
<1>4. s[1] = BOSNode /\ EndOf(s[Len(s)]) = EndOf(n)
  BY <1>2, <1>3
<1>5. ASSUME NEW i \in 2..Len(s)
      PROVE  /\ BeginOf(s[i]) \in 0..size-1 /\ EndOf(s[i - 1]) = BeginOf(s[i])
             /\ s[i] \in ToSet(begin_nodes[BeginOf(s[i])])
  <2>1. CASE i = Len(s)
    <3>1. s[i] = n /\ s[i - 1] = t[Len(t)]
      BY <1>3, <2>1
    <3> QED BY <1>1, <1>2, <3>1
  <2>2. CASE i # Len(s)
    <3>1. i \in 2..Len(t) /\ s[i] = t[i] /\ s[i - 1] = t[i - 1]
      BY <1>3, <2>2
    <3> QED BY <1>2, <3>1
  <2> QED BY <2>1, <2>2
<1>6. IsChain(s, EndOf(n))
  BY <1>3, <1>4, <1>5 DEF IsChain
<1> QED BY <1>3, <1>6 DEF s

\* A chain without its last node is a chain to where that node begins.
LEMMA ChainShorter ==
  ASSUME size \in Nat, ListsInv, NEW p \in 0..size, NEW s, IsChain(s, p), p # 0
  PROVE  \E q \in 0..p-1 : \E n, t :
           /\ n \in ToSet(begin_nodes[q]) /\ t \in Seq(NodeRecords)
           /\ IsChain(t, q) /\ s = Append(t, n) /\ EndOf(n) = p
<1>1. s \in Seq(NodeRecords) /\ s # <<>> /\ s[1] = BOSNode /\ EndOf(s[Len(s)]) = p
      /\ \A i \in 2..Len(s) : /\ BeginOf(s[i]) \in 0..size-1 /\ EndOf(s[i - 1]) = BeginOf(s[i])
                              /\ s[i] \in ToSet(begin_nodes[BeginOf(s[i])])
  BY DEF IsChain
<1>2. Len(s) # 1
  BY ChainOfOne
<1>30. Len(s) \in Nat /\ Len(s) # 0
  BY <1>1
<1>3. Len(s) \in Nat /\ Len(s) \in 2..Len(s) /\ Len(s) - 1 \in 1..Len(s)
  <2>1. \A k \in Nat : k # 0 /\ k # 1 => k \in 2..k /\ k - 1 \in 1..k
    OBVIOUS
  <2> QED BY <1>2, <1>30, <2>1, Zenon
<1>40. PICK n : n = s[Len(s)]
  OBVIOUS
<1>4. PICK q \in 0..size-1 : /\ n = s[Len(s)] /\ q = BeginOf(n) /\ n \in ToSet(begin_nodes[q])
                             /\ EndOf(s[Len(s) - 1]) = q
  BY <1>1, <1>3, <1>40
<1>5. EndOf(n) = p /\ EndOf(n) \in q+1..size+1
  BY <1>1, <1>4, FoundAre
<1>6. q \in 0..p-1
  BY <1>5
<1> DEFINE t == SubSeq(s, 1, Len(s) - 1)
<1>7. /\ t \in Seq(NodeRecords) /\ Len(t) = Len(s) - 1 /\ \A i \in 1..Len(s) - 1 : t[i] = s[i]
      /\ s = Append(t, n)
  BY <1>1, <1>3, <1>4
<1> HIDE DEF t
<1>8. t # <<>> /\ t[1] = BOSNode /\ t[Len(t)] = s[Len(s) - 1]
  BY <1>1, <1>3, <1>7
<1>9. ASSUME NEW i \in 2..Len(t)
      PROVE  /\ BeginOf(t[i]) \in 0..size-1 /\ EndOf(t[i - 1]) = BeginOf(t[i])
             /\ t[i] \in ToSet(begin_nodes[BeginOf(t[i])])
  <2>1. i \in 2..Len(s) /\ t[i] = s[i] /\ t[i - 1] = s[i - 1]
    BY <1>3, <1>7
  <2> QED BY <1>1, <2>1
<1>10. IsChain(t, q)
  BY <1>4, <1>7, <1>8, <1>9 DEF IsChain
<1> QED BY <1>4, <1>5, <1>6, <1>7, <1>10

-----------------------------------------------------------------------------
(* SegmentationsTo[p] is the set of the ways to p *)

EndingAt(p) == UNION { { m \in ToSet(begin_nodes[q]) : EndOf(m) = p } : q \in 0..p-1 }
Extended(f, p) == UNION { { Append(s, n) : s \in f[BeginOf(n)] } : n \in EndingAt(p) }

\* Extended makes the chains to a position of those to the earlier ones.
LEMMA ExtendedIs ==
  ASSUME size \in Nat, ListsInv, NEW p \in 0..size, p # 0, NEW f,
         \A q \in 0..p-1 : f[q] = Chains(q)
  PROVE  Extended(f, p) = Chains(p)
<1>1. ASSUME NEW s \in Extended(f, p) PROVE s \in Chains(p)
  <2>1. PICK n \in EndingAt(p) : s \in { Append(t, n) : t \in f[BeginOf(n)] }
    BY <1>1 DEF Extended
  <2>2. PICK q \in 0..p-1 : n \in { m \in ToSet(begin_nodes[q]) : EndOf(m) = p }
    BY <2>1 DEF EndingAt
  <2>3. q \in 0..size-1 /\ n \in ToSet(begin_nodes[q]) /\ EndOf(n) = p
    BY <2>2
  <2>4. BeginOf(n) = q
    BY <2>3, FoundAre
  <2>5. PICK t \in Chains(q) : s = Append(t, n)
    BY <2>1, <2>2, <2>4
  <2>6. IsChain(t, q)
    BY <2>5 DEF Chains
  <2>7. IsChain(s, p) /\ s \in Seq(NodeRecords)
    BY <2>3, <2>5, <2>6, ChainLonger
  <2> QED BY <2>7 DEF Chains
<1>2. ASSUME NEW s \in Chains(p) PROVE s \in Extended(f, p)
  <2>1. IsChain(s, p)
    BY <1>2 DEF Chains
  <2>2. PICK q \in 0..p-1 : \E n, t :
           /\ n \in ToSet(begin_nodes[q]) /\ t \in Seq(NodeRecords)
           /\ IsChain(t, q) /\ s = Append(t, n) /\ EndOf(n) = p
    BY <2>1, ChainShorter
  <2>20. PICK n, t : /\ n \in ToSet(begin_nodes[q]) /\ t \in Seq(NodeRecords)
                    /\ IsChain(t, q) /\ s = Append(t, n) /\ EndOf(n) = p
    BY <2>2
  <2>3. BeginOf(n) = q
    <3>1. q \in 0..size-1
      OBVIOUS
    <3> QED BY <2>20, <3>1, FoundAre
  <2>4. n \in EndingAt(p)
    BY <2>20 DEF EndingAt
  <2>5. t \in f[BeginOf(n)]
    BY <2>20, <2>3 DEF Chains
  <2> QED BY <2>20, <2>4, <2>5 DEF Extended
<1> QED BY <1>1, <1>2

\* The reference definition of the segmentations yields the chains, by
\* induction on the position.
LEMMA SegmentationsAre ==
  ASSUME size \in Nat, ListsInv
  PROVE  \A p \in 0..size : SegmentationsTo[p] = Chains(p)
<1> DEFINE Is(f) == f = [p \in 0..size |-> IF p = 0 THEN {<<BOS>>} ELSE Extended(f, p)]
           u == CHOOSE f : Is(f)
           g == [p \in 0..size |-> Chains(p)]
<1>1. SegmentationsTo = u
  BY DEF SegmentationsTo, Extended, EndingAt
<1>2. {<<BOS>>} = Chains(0)
  <2>1. BOS = BOSNode
    BY DEF BOS, ListsInv
  <2>2. <<BOSNode>> \in Seq(NodeRecords)
    BY EndNodes
  <2> QED BY <2>1, <2>2, ChainOfOne DEF Chains
<1>3. Is(g)
  <2>1. ASSUME NEW p \in 0..size, p # 0 PROVE Extended(g, p) = Chains(p)
    <3>1. \A q \in 0..p-1 : g[q] = Chains(q)
      OBVIOUS
    <3> HIDE DEF g
    <3> QED BY <2>1, <3>1, ExtendedIs
  <2> QED BY <1>2, <2>1
<1>4. Is(u)
  <2> HIDE DEF Is, g
  <2> QED BY <1>3
<1> HIDE DEF u, g
<1>5. u[0] = Chains(0) /\ \A p \in 0..size : p # 0 => u[p] = Extended(u, p)
  BY <1>2, <1>4
<1> HIDE DEF Is
<1> DEFINE Good == { k \in Nat : \A p \in 0..k : p <= size => u[p] = Chains(p) }
<1>6. 0 \in Good
  BY <1>5
<1>7. ASSUME NEW k \in Nat, k \in Good PROVE k + 1 \in Good
  <2> SUFFICES ASSUME k + 1 <= size PROVE u[k + 1] = Chains(k + 1)
    BY <1>7
  <2>1. k + 1 \in 0..size /\ k + 1 # 0 /\ \A q \in 0..(k + 1) - 1 : u[q] = Chains(q)
    BY <1>7
  <2>2. Extended(u, k + 1) = Chains(k + 1)
    BY <2>1, ExtendedIs
  <2> QED BY <1>5, <2>1, <2>2
<1> HIDE DEF Good
<1>8. size \in Good
  BY <1>6, <1>7, NatSetInduction
<1> QED BY <1>1, <1>8 DEF Good

-----------------------------------------------------------------------------
(* The costs of the ways *)

\* a way costs no less than its last node: that has the cost of the cheapest
LEMMA ChainsCostMore ==
  ASSUME TextInv, LatticeInv, place # "initPartial", NEW k \in 0..size,
         \A q \in 0..k-1 : Whole(q), NEW s \in Chains(k)
  PROVE  /\ Last(s) \in EndsAt(k) /\ Last(s) \in Nodes
         /\ CostOf(s) \in Int /\ cost[Last(s)] <= CostOf(s)
<1>1. size \in Nat /\ ListsInv /\ NodesInv /\ CostsInv
  BY LatticeReady
<1> DEFINE Above(p) == \A r \in Chains(p) : /\ Last(r) \in EndsAt(p) /\ Last(r) \in Nodes
                                            /\ CostOf(r) \in Int /\ cost[Last(r)] <= CostOf(r)
           Good == { m \in Nat : \A p \in 0..m : p <= k => Above(p) }
<1>2. 0 \in Good
  <2> SUFFICES ASSUME NEW r \in Chains(0)
               PROVE  /\ Last(r) \in EndsAt(0) /\ Last(r) \in Nodes
                      /\ CostOf(r) \in Int /\ cost[Last(r)] <= CostOf(r)
    OBVIOUS
  <2>1. r = <<BOSNode>>
    BY <1>1, ChainOfOne DEF Chains
  <2>2. Last(r) = BOSNode /\ CostOf(r) = 0
    BY <2>1, CostOfOne DEF Last
  <2>3. BOSNode \in Nodes /\ BOSNode \in EndsAt(0) /\ cost[BOSNode] = 0
    BY <1>1, EndNodes DEF NodesInv, CostsInv
  <2> QED BY <2>2, <2>3
<1>3. ASSUME NEW m \in Nat, m \in Good PROVE m + 1 \in Good
  <2> SUFFICES ASSUME m + 1 <= k, NEW r \in Chains(m + 1)
               PROVE  /\ Last(r) \in EndsAt(m + 1) /\ Last(r) \in Nodes
                      /\ CostOf(r) \in Int /\ cost[Last(r)] <= CostOf(r)
    BY <1>3
  <2>1. PICK p \in 0..size : p = m + 1 /\ p # 0
    BY <1>1
  <2>2. PICK q \in 0..p-1 : \E n, t :
           /\ n \in ToSet(begin_nodes[q]) /\ t \in Seq(NodeRecords)
           /\ IsChain(t, q) /\ r = Append(t, n) /\ EndOf(n) = p
    BY <1>1, <2>1, ChainShorter DEF Chains
  <2>20. PICK n, t : /\ n \in ToSet(begin_nodes[q]) /\ t \in Seq(NodeRecords)
                    /\ IsChain(t, q) /\ r = Append(t, n) /\ EndOf(n) = p
    BY <2>2
  <2>3. q \in 0..size-1 /\ q \in 0..m /\ q <= k /\ q \in 0..k-1
    BY <1>1, <2>1
  <2>4. n \in NodeRecords /\ n.token \in NodeTokens /\ n.stat # "eos" /\ BeginOf(n) = q /\ n # BOSNode
    BY <1>1, <2>3, <2>20, FoundAre DEF NodeRecords
  <2>5. /\ Last(t) \in EndsAt(q) /\ Last(t) \in Nodes /\ CostOf(t) \in Int
        /\ cost[Last(t)] <= CostOf(t)
    <3>1. t \in Chains(q)
      BY <2>20 DEF Chains
    <3> QED BY <1>3, <2>3, <3>1
  <2>6. n \in Nodes
    BY <1>1, <2>20, <2>3 DEF NodesInv
  <2>7. PICK l \in Nodes : Linked(n, l)
    BY <1>1, <2>4, <2>6 DEF CostsInv
  <2>8. LeftOf(n) = EndsAt(q)
    BY <2>4 DEF LeftOf
  <2>9. cost[n] <= CostThrough(Last(t), n) /\ CostThrough(Last(t), n) \in Int /\ cost[n] \in Int
    BY <1>1, <2>4, <2>5, <2>6, <2>7, <2>8, CostsBetween DEF Linked, CostsInv
  <2>10. CostOf(r) = CostOf(t) + LocalCost(Last(t), n)
    BY <2>20, <2>4, CostOfLonger DEF IsChain
  <2>11. LocalCost(Last(t), n) \in Int /\ cost[Last(t)] \in Int
    <3>1. Last(t).token \in NodeTokens
      BY <1>1, <2>5, NodesAre
    <3> QED BY <1>1, <2>4, <2>5, <3>1, LocalCostType DEF CostsInv
  <2>12. cost[n] <= CostOf(r) /\ CostOf(r) \in Int
    BY <2>5, <2>9, <2>10, <2>11 DEF CostThrough
  <2>13. Last(r) = n
    BY <2>20 DEF Last
  <2>14. n \in EndsAt(p)
    <3>1. p \in 0..size+3
      BY <1>1
    <3> QED BY <1>1, <2>20, <2>4, <2>6, <3>1 DEF NodesInv
  <2> QED BY <2>1, <2>6, <2>12, <2>13, <2>14
<1> HIDE DEF Good
<1>4. k \in Nat
  BY <1>1
<1>5. k \in Good
  BY <1>2, <1>3, <1>4, NatSetInduction
<1>6. Above(k)
  BY <1>4, <1>5 DEF Good
<1> QED BY <1>6

-----------------------------------------------------------------------------
(* The best way *)

Marked == place \in {"buildAllLattice", "initNBest", "parsed", "searching", "result", "exhausted"}

BestInv ==
  Marked => \E s \in Chains(LastEnd) : /\ isbest = ToSet(Append(s, EOS))
                                       /\ cost[EOS] = CostOf(Append(s, EOS))

\* The end of the sentence is linked to the last position a node ends at.
LEMMA LastEndIs ==
  ASSUME size \in Nat, ListsInv, NodesInv
  PROVE  /\ LastEnd \in 0..size /\ EndsAt(LastEnd) # {}
         /\ \A p \in 0..size : EndsAt(p) # {} => p <= LastEnd
<1> DEFINE S == { p \in 0..size : EndsAt(p) # {} }
<1>1. S \in SUBSET (0..size) /\ 0 \in Int /\ size \in Int
  OBVIOUS
<1>2. S # {}
  <2>1. BOSNode \in EndsAt(0) /\ 0 \in 0..size
    BY EndNodes DEF NodesInv
  <2> QED BY <2>1
<1> HIDE DEF S
<1>3. Max(S) \in S /\ \A p \in S : Max(S) >= p
  BY <1>1, <1>2, MaxIsGreatest
<1>4. PICK m \in 0..size : m = Max(S)
  BY <1>1, <1>3
<1>5. m \in S /\ \A p \in S : p <= m
  BY <1>1, <1>3, <1>4
<1>6. LastEnd = m
  BY <1>4 DEF LastEnd, S
<1> QED BY <1>5, <1>6 DEF S

\* The one node of the end of the sentence, and its left neighbours.
LEMMA EOSIs ==
  ASSUME TextInv, LatticeInv, Built
  PROVE  /\ EOS = EOSNode(size) /\ BOS = BOSNode /\ EOS \in Nodes /\ EOS.stat = "eos" /\ EOS # BOSNode
         /\ LeftOf(EOS) = EndsAt(LastEnd) /\ EOS.token \in NodeTokens /\ EOS \in NodeRecords
         /\ \A n \in Nodes : n.stat = "eos" <=> n = EOS
<1>0. place # "initPartial"
  BY DEF Built
<1>1. size \in Nat /\ ListsInv /\ NodesInv
  BY <1>0, LatticeReady
<1>2. EOS = EOSNode(size) /\ BOS = BOSNode
  BY <1>1 DEF EOS, BOS, ListsInv
<1>3. EOS \in Nodes
  BY <1>1, <1>2 DEF NodesInv
<1>4. EOS.stat = "eos" /\ EOS # BOSNode
  BY <1>1, <1>2, EndNodes
<1>5. LeftOf(EOS) = EndsAt(LastEnd)
  BY <1>4 DEF LeftOf
<1>6. EOS.token \in NodeTokens /\ EOS \in NodeRecords
  BY <1>1, <1>3, NodesAre
<1>7. \A n \in Nodes : n.stat = "eos" <=> n = EOS
  BY <1>1, <1>2, <1>4, NodesAre
<1> QED BY <1>2, <1>3, <1>4, <1>5, <1>6, <1>7

\* a way to EOS costs what its last node and the link from it cost, at least
LEMMA WaysToEOSCostMore ==
  ASSUME TextInv, LatticeInv, place # "initPartial", NEW k \in 0..size,
         \A q \in 0..k-1 : Whole(q), NEW s \in Chains(k), NEW n \in NodeRecords
  PROVE  /\ Last(s) \in EndsAt(k) /\ Last(s) \in Nodes
         /\ CostThrough(Last(s), n) \in Int /\ CostOf(Append(s, n)) \in Int
         /\ CostThrough(Last(s), n) <= CostOf(Append(s, n))
<1>1. size \in Nat /\ ListsInv /\ NodesInv /\ CostsInv
  BY LatticeReady
<1>2. /\ Last(s) \in EndsAt(k) /\ Last(s) \in Nodes
      /\ CostOf(s) \in Int /\ cost[Last(s)] <= CostOf(s)
  BY ChainsCostMore
<1>3. n.token \in NodeTokens /\ Last(s).token \in NodeTokens /\ cost[Last(s)] \in Int
  BY <1>1, <1>2, NodesAre DEF NodeRecords, CostsInv
<1>4. LocalCost(Last(s), n) \in Int
  BY <1>3, LocalCostType
<1>5. CostOf(Append(s, n)) = CostOf(s) + LocalCost(Last(s), n)
  BY CostOfLonger DEF Chains, IsChain
<1> QED BY <1>2, <1>3, <1>4, <1>5 DEF CostThrough

\* every node is the last of a way that costs what the node costs
LEMMA NodesEndChains ==
  ASSUME TextInv, LatticeInv, place # "initPartial", NEW n \in Nodes, n.stat # "eos"
  PROVE  \E s \in Chains(EndOf(n)) : Last(s) = n /\ CostOf(s) = cost[n]
<1>1. size \in Nat /\ ListsInv /\ NodesInv /\ CostsInv
  BY LatticeReady
<1> DEFINE Reached(x) == \E s \in Chains(EndOf(x)) : Last(s) = x /\ CostOf(s) = cost[x]
           Good == { m \in Nat : \A x \in Nodes : x.stat # "eos" /\ EndOf(x) \in 0..m => Reached(x) }
<1>2. Reached(BOSNode)
  <2>1. <<BOSNode>> \in Chains(0) /\ EndOf(BOSNode) = 0
    <3>1. <<BOSNode>> \in Seq(NodeRecords)
      BY EndNodes
    <3> QED BY <1>1, <3>1, EndNodes, ChainOfOne DEF Chains
  <2>2. Last(<<BOSNode>>) = BOSNode /\ CostOf(<<BOSNode>>) = 0
    BY CostOfOne DEF Last
  <2>3. cost[BOSNode] = 0
    BY <1>1 DEF CostsInv
  <2> QED BY <2>1, <2>2, <2>3
<1>3. ASSUME NEW x \in Nodes, x.stat # "eos", x # BOSNode
      PROVE  /\ BeginOf(x) \in 0..size-1 /\ x \in ToSet(begin_nodes[BeginOf(x)])
             /\ EndOf(x) \in BeginOf(x)+1..size+1 /\ x \in NodeRecords
  <2>1. x # EOSNode(size)
    BY <1>1, <1>3, EndNodes
  <2>2. BeginOf(x) \in 0..size-1 /\ x \in ToSet(begin_nodes[BeginOf(x)]) /\ x \in NodeRecords
    BY <1>1, <1>3, <2>1, NodesAre
  <2> QED BY <1>1, <2>2, FoundAre
<1>4. 0 \in Good
  <2> SUFFICES ASSUME NEW x \in Nodes, x.stat # "eos", EndOf(x) \in 0..0 PROVE Reached(x)
    OBVIOUS
  <2>1. x = BOSNode
    <3> SUFFICES ASSUME x # BOSNode PROVE FALSE
      OBVIOUS
    <3>1. PICK b \in 0..size-1 : b = BeginOf(x)
      BY <1>3
    <3>2. EndOf(x) \in b+1..size+1
      BY <1>3, <3>1
    <3> QED BY <3>2
  <2> QED BY <1>2, <2>1
<1>5. ASSUME NEW m \in Nat, m \in Good PROVE m + 1 \in Good
  <2> SUFFICES ASSUME NEW x \in Nodes, x.stat # "eos", EndOf(x) \in 0..m + 1 PROVE Reached(x)
    OBVIOUS
  <2>1. CASE x = BOSNode
    BY <1>2, <2>1
  <2>2. CASE x # BOSNode
    <3>1. PICK b \in 0..size-1 : b = BeginOf(x)
      BY <1>3, <2>2
    <3>2. EndOf(x) \in b+1..size+1 /\ x \in ToSet(begin_nodes[b]) /\ x \in NodeRecords
      BY <1>3, <2>2, <3>1
    <3>3. b \in 0..m /\ b \in 0..size+3
      BY <1>1, <3>2
    <3>4. PICK l \in Nodes : Linked(x, l)
      BY <1>1, <2>2 DEF CostsInv
    <3>5. l \in EndsAt(b) /\ cost[x] = cost[l] + LocalCost(l, x)
      BY <3>1, <3>4 DEF Linked, LeftOf, CostThrough
    <3>6. l.stat # "eos" /\ EndOf(l) = b
      BY <1>1, <3>3, <3>5 DEF NodesInv
    <3>7. PICK s \in Chains(b) : Last(s) = l /\ CostOf(s) = cost[l]
      BY <1>5, <3>3, <3>6
    <3>8. IsChain(s, b) /\ s \in Seq(NodeRecords) /\ s # <<>>
      BY <3>7 DEF Chains, IsChain
    <3>9. Append(s, x) \in Chains(EndOf(x))
      BY <1>1, <3>2, <3>8, ChainLonger DEF Chains
    <3>10. CostOf(Append(s, x)) = cost[x]
      BY <3>2, <3>5, <3>7, <3>8, CostOfLonger
    <3>11. Last(Append(s, x)) = x
      BY <3>8 DEF Last
    <3> QED BY <3>9, <3>10, <3>11
  <2> QED BY <2>1, <2>2
<1> HIDE DEF Good, Reached
<1>6. PICK k \in Nat : EndOf(n) \in 0..k
  <2>1. CASE n = BOSNode
    <3>1. EndOf(n) \in 0..0
      BY <2>1, EndNodes
    <3> QED BY <3>1
  <2>2. CASE n # BOSNode
    <3>1. PICK b \in 0..size-1 : b = BeginOf(n)
      BY <1>3, <2>2
    <3>2. EndOf(n) \in b+1..size+1
      BY <1>3, <2>2, <3>1
    <3>3. EndOf(n) \in 0..size+1 /\ size + 1 \in Nat
      BY <1>1, <3>2
    <3> QED BY <3>3
  <2> QED BY <2>1, <2>2
<1>7. k \in Good
  BY <1>4, <1>5, NatSetInduction
<1>8. Reached(n)
  BY <1>6, <1>7 DEF Good
<1> QED BY <1>8 DEF Reached

\* The segmentations are the chains to the last end, with EOS behind them.
LEMMA SegmentationsIs ==
  ASSUME TextInv, LatticeInv, place # "initPartial", \A q \in 0..size-1 : Whole(q)
  PROVE  /\ LastEnd \in 0..size
         /\ Segmentations = { Append(s, EOS) : s \in Chains(LastEnd) }
<1>1. size \in Nat /\ ListsInv /\ NodesInv /\ CostsInv
  BY LatticeReady
<1>2. \A p \in 0..size : SegmentationsTo[p] = Chains(p)
  BY <1>1, SegmentationsAre
<1>3. ASSUME NEW p \in 0..size PROVE Chains(p) # {} <=> EndsAt(p) # {}
  <2>1. ASSUME NEW s \in Chains(p) PROVE EndsAt(p) # {}
    <3>1. \A q \in 0..p-1 : Whole(q)
      BY <1>1
    <3> QED BY <3>1, ChainsCostMore
  <2>2. ASSUME NEW n \in EndsAt(p) PROVE Chains(p) # {}
    <3>1. p \in 0..size+3
      BY <1>1
    <3>2. n \in Nodes /\ n.stat # "eos" /\ EndOf(n) = p
      BY <1>1, <3>1 DEF NodesInv
    <3> QED BY <3>2, NodesEndChains
  <2> QED BY <2>1, <2>2
<1>4. { p \in 0..size : SegmentationsTo[p] # {} } = { p \in 0..size : EndsAt(p) # {} }
  BY <1>2, <1>3
<1>5. Max({ p \in 0..size : SegmentationsTo[p] # {} }) = LastEnd
  BY <1>4 DEF LastEnd
<1>6. LastEnd \in 0..size
  BY <1>1, LastEndIs
<1>7. Segmentations = { Append(s, EOS) : s \in SegmentationsTo[LastEnd] }
  BY <1>5 DEF Segmentations
<1> QED BY <1>2, <1>6, <1>7

\* BestPathOptimal follows from the invariant.
LEMMA BestIsOptimal ==
  ASSUME TextInv, LatticeInv, BestInv PROVE BestPathOptimal
<1>1. ASSUME Read
      PROVE  \E s \in Segmentations : /\ isbest = ToSet(s) /\ cost[EOS] = CostOf(s)
                                      /\ \A t \in Segmentations : cost[EOS] <= CostOf(t)
  <2>1. Marked /\ Built /\ ~ GaveUp /\ place # "initPartial"
    BY <1>1 DEF Read, Marked, Built, GaveUp
  <2>2. size \in Nat /\ ListsInv /\ NodesInv /\ CostsInv
    BY <2>1, LatticeReady
  <2>3. \A q : Whole(q)
    BY <2>1 DEF Whole
  <2>4. LastEnd \in 0..size /\ Segmentations = { Append(s, EOS) : s \in Chains(LastEnd) }
    BY <2>1, <2>3, SegmentationsIs
  <2>5. EOS \in NodeRecords /\ EOS \in Nodes /\ EOS # BOSNode /\ LeftOf(EOS) = EndsAt(LastEnd)
    BY <2>1, EOSIs
  <2>6. ASSUME NEW t \in Segmentations PROVE cost[EOS] <= CostOf(t)
    <3>1. PICK s \in Chains(LastEnd) : t = Append(s, EOS)
      BY <2>4
    <3>2. /\ Last(s) \in EndsAt(LastEnd)
          /\ CostThrough(Last(s), EOS) \in Int /\ CostOf(Append(s, EOS)) \in Int
          /\ CostThrough(Last(s), EOS) <= CostOf(Append(s, EOS))
      BY <2>1, <2>3, <2>4, <2>5, WaysToEOSCostMore
    <3>3. PICK l \in Nodes : Linked(EOS, l)
      BY <2>2, <2>5 DEF CostsInv
    <3>4. cost[EOS] <= CostThrough(Last(s), EOS) /\ cost[EOS] \in Int
      BY <2>2, <2>5, <3>2, <3>3 DEF Linked, CostsInv
    <3> QED BY <3>1, <3>2, <3>4
  <2>7. PICK s \in Chains(LastEnd) : /\ isbest = ToSet(Append(s, EOS))
                                     /\ cost[EOS] = CostOf(Append(s, EOS))
    BY <2>1 DEF BestInv
  <2>8. Append(s, EOS) \in Segmentations
    BY <2>4
  <2> QED BY <2>6, <2>7, <2>8
<1>2. ASSUME place = "too long sentence"
      PROVE  \E p \in DOMAIN begin_nodes : \E n \in ToSet(begin_nodes[p]) :
               \A s \in (IF n.stat = "eos" THEN { Front(t) : t \in Segmentations }
                         ELSE SegmentationsTo[p]) :
                 CostOf(Append(s, n)) >= CostLimit
  <2>1. GaveUp /\ ~ Built /\ place # "initPartial"
    BY <1>2 DEF GaveUp, Built
  <2>2. size \in Nat /\ ListsInv /\ NodesInv /\ CostsInv /\ GaveUpInv
    BY <2>1, LatticeReady
  <2>3. PICK p \in 0..size : \E n \in ToSet(begin_nodes[p]) :
          /\ \A l \in LeftOf(n) : CostThrough(l, n) >= CostLimit
          /\ p = IF begin_nodes[size] = <<>> THEN pos - 1 ELSE size
    BY <2>1, <2>2 DEF GaveUpInv
  <2>4. PICK n \in ToSet(begin_nodes[p]) :
          /\ \A l \in LeftOf(n) : CostThrough(l, n) >= CostLimit
          /\ p = IF begin_nodes[size] = <<>> THEN pos - 1 ELSE size
    BY <2>3
  <2>5. p \in DOMAIN begin_nodes /\ CostLimit \in Int
    BY <2>2, CostAssumption DEF ListsInv
  <2>6. CASE begin_nodes[size] = <<>>
    <3>1. p # size
      BY <2>4, <2>6 DEF ToSet
    <3>2. p \in 0..size-1 /\ p = pos - 1
      BY <2>2, <2>4, <2>6, <3>1
    <3>3. n \in NodeRecords /\ n.stat # "eos" /\ BeginOf(n) = p
      BY <2>2, <3>2, FoundAre
    <3>4. LeftOf(n) = EndsAt(p)
      BY <3>3 DEF LeftOf
    <3>5. \A q \in 0..p-1 : Whole(q)
      BY <3>2 DEF Whole
    <3>6. SegmentationsTo[p] = Chains(p)
      BY <2>2, SegmentationsAre
    <3>7. ASSUME NEW s \in Chains(p) PROVE CostOf(Append(s, n)) >= CostLimit
      <4>1. /\ Last(s) \in EndsAt(p)
            /\ CostThrough(Last(s), n) \in Int /\ CostOf(Append(s, n)) \in Int
            /\ CostThrough(Last(s), n) <= CostOf(Append(s, n))
        BY <2>1, <3>3, <3>5, WaysToEOSCostMore
      <4>2. CostThrough(Last(s), n) >= CostLimit
        BY <2>4, <3>4, <4>1
      <4> QED BY <2>5, <4>1, <4>2
    <3> QED BY <2>4, <2>5, <3>3, <3>6, <3>7
  <2>7. CASE begin_nodes[size] # <<>>
    <3>1. p = size /\ begin_nodes[size] = <<EOSNode(size)>>
      BY <2>1, <2>2, <2>4, <2>7 DEF ListsInv
    <3>2. n = EOSNode(size)
      BY <2>4, <3>1 DEF ToSet
    <3>3. n \in NodeRecords /\ n.stat = "eos"
      BY <2>2, <3>2, EndNodes
    <3>4. LeftOf(n) = EndsAt(LastEnd)
      BY <3>3 DEF LeftOf
    <3>5. \A q : Whole(q)
      BY <2>7 DEF Whole
    <3>6. LastEnd \in 0..size /\ Segmentations = { Append(s, EOS) : s \in Chains(LastEnd) }
      BY <2>1, <3>5, SegmentationsIs
    <3>7. ASSUME NEW t \in Segmentations PROVE CostOf(Append(Front(t), n)) >= CostLimit
      <4>1. PICK s \in Chains(LastEnd) : t = Append(s, EOS)
        BY <3>6
      <4>2. Front(t) = s
        <5>1. s \in Seq(NodeRecords)
          BY <4>1 DEF Chains
        <5>2. Front(Append(s, EOS)) = s
          <6>1. \A X, e : \A r \in Seq(X) : SubSeq(Append(r, e), 1, Len(Append(r, e)) - 1) = r
            OBVIOUS
          <6> QED BY <5>1, <6>1 DEF Front
        <5> QED BY <4>1, <5>2
      <4>3. /\ Last(s) \in EndsAt(LastEnd)
            /\ CostThrough(Last(s), n) \in Int /\ CostOf(Append(s, n)) \in Int
            /\ CostThrough(Last(s), n) <= CostOf(Append(s, n))
        BY <2>1, <3>3, <3>5, <3>6, WaysToEOSCostMore
      <4>4. CostThrough(Last(s), n) >= CostLimit
        BY <2>4, <3>4, <4>3
      <4> QED BY <2>5, <4>2, <4>3, <4>4
    <3> QED BY <2>4, <2>5, <3>3, <3>7
  <2> QED BY <2>6, <2>7
<1> QED BY <1>1, <1>2 DEF BestPathOptimal

-----------------------------------------------------------------------------
(* The links along a chain *)

\* IndexIn returns the first place of the element.
LEMMA IndexIs ==
  ASSUME NEW X, NEW chain \in Seq(X), NEW i \in 1..Len(chain)
  PROVE  /\ IndexIn(chain, chain[i]) \in 1..i
         /\ chain[IndexIn(chain, chain[i])] = chain[i]
<1> DEFINE S == { j \in 1..Len(chain) : chain[j] = chain[i] }
<1>1. IndexIn(chain, chain[i]) = IF S # {} THEN Min(S) ELSE 0
  BY DEF IndexIn, SelectInSeq
<1>2. S \in SUBSET (1..Len(chain)) /\ i \in S /\ 1 \in Int /\ Len(chain) \in Int
  OBVIOUS
<1>3. Min(S) \in S /\ \A k \in S : Min(S) <= k
  <2> HIDE DEF S
  <2> QED BY <1>2, MinIsLeast
<1>4. PICK m \in 1..Len(chain) : m = Min(S) /\ chain[m] = chain[i] /\ m <= i
  BY <1>2, <1>3
<1> QED BY <1>1, <1>2, <1>4

\* buildAllLattice sets next of the nodes of its chain to nodes of it.
LEMMA NextAlongIs ==
  ASSUME NEW N, NEW chain \in Seq(N), chain # <<>>, DOMAIN next = N
  PROVE  /\ DOMAIN NextAlong(chain) = N
         /\ \A n \in N : NextAlong(chain)[n] \in N \union {next[n]}
<1> DEFINE new == [n \in ToSet(Front(chain)) |-> chain[IndexIn(chain, n) + 1]]
<1>1. NextAlong(chain) = Updated(next, new)
  BY DEF NextAlong
<1>0. PICK len \in Nat : len = Len(chain) /\ len # 0
  OBVIOUS
<1>2. ASSUME NEW n \in ToSet(Front(chain)) PROVE n \in N /\ chain[IndexIn(chain, n) + 1] \in N
  <2>1. Front(chain) \in Seq(N) /\ Len(Front(chain)) = len - 1
        /\ \A i \in 1..len - 1 : Front(chain)[i] = chain[i]
    BY <1>0 DEF Front
  <2>2. PICK i \in 1..len - 1 : n = chain[i]
    BY <1>2, <2>1 DEF ToSet
  <2>3. i \in 1..Len(chain)
    BY <1>0
  <2>4. IndexIn(chain, n) \in 1..i
    BY <2>2, <2>3, IndexIs
  <2>5. PICK j \in 1..i : j = IndexIn(chain, n)
    BY <2>4
  <2>6. j + 1 \in 1..Len(chain)
    BY <1>0
  <2> QED BY <2>2, <2>3, <2>5, <2>6
<1>3. DOMAIN new \subseteq N /\ \A n \in DOMAIN new : new[n] \in N
  BY <1>2
<1> HIDE DEF new
<1>4. /\ DOMAIN Updated(next, new) = DOMAIN next \union DOMAIN new
      /\ \A n \in DOMAIN new : Updated(next, new)[n] = new[n]
      /\ \A n \in DOMAIN next \ DOMAIN new : Updated(next, new)[n] = next[n]
  BY UpdatedIs
<1>5. ASSUME NEW n \in N PROVE NextAlong(chain)[n] \in N \union {next[n]}
  <2>1. CASE n \in DOMAIN new
    BY <1>1, <1>3, <1>4, <2>1
  <2>2. CASE n \notin DOMAIN new
    BY <1>1, <1>4, <2>2
  <2> QED BY <2>1, <2>2
<1>6. DOMAIN NextAlong(chain) = N
  BY <1>1, <1>3, <1>4
<1> QED BY <1>5, <1>6

\* And prev likewise.
LEMMA PrevAlongIs ==
  ASSUME NEW N, NEW chain \in Seq(N), chain # <<>>, DOMAIN prev = N,
         \A i \in 2..Len(chain) : chain[i] # chain[1]
  PROVE  /\ DOMAIN PrevAlong(chain) = N
         /\ \A n \in N : PrevAlong(chain)[n] \in N \union {prev[n]}
<1> DEFINE new == [n \in ToSet(Tail(chain)) |-> chain[IndexIn(chain, n) - 1]]
<1>1. PrevAlong(chain) = Updated(prev, new)
  BY DEF PrevAlong
<1>0. PICK len \in Nat : len = Len(chain) /\ len # 0
  OBVIOUS
<1>2. ASSUME NEW n \in ToSet(Tail(chain)) PROVE n \in N /\ chain[IndexIn(chain, n) - 1] \in N
  <2>1. Tail(chain) \in Seq(N) /\ Len(Tail(chain)) = len - 1
        /\ \A i \in 1..len - 1 : Tail(chain)[i] = chain[i + 1]
    BY <1>0
  <2>2. PICK k \in 1..len - 1 : n = chain[k + 1]
    BY <1>2, <2>1 DEF ToSet
  <2>3. PICK i \in 2..Len(chain) : i = k + 1 /\ i \in 1..Len(chain)
    BY <1>0
  <2>4. IndexIn(chain, n) \in 1..i /\ chain[IndexIn(chain, n)] = n
    BY <2>2, <2>3, IndexIs
  <2>5. PICK j \in 1..i : j = IndexIn(chain, n) /\ chain[j] = n
    BY <2>4
  <2>6. j # 1
    BY <2>2, <2>3, <2>5
  <2>7. j - 1 \in 1..Len(chain)
    BY <1>0, <2>3, <2>6
  <2> QED BY <2>2, <2>3, <2>5, <2>7
<1>3. DOMAIN new \subseteq N /\ \A n \in DOMAIN new : new[n] \in N
  BY <1>2
<1> HIDE DEF new
<1>4. /\ DOMAIN Updated(prev, new) = DOMAIN prev \union DOMAIN new
      /\ \A n \in DOMAIN new : Updated(prev, new)[n] = new[n]
      /\ \A n \in DOMAIN prev \ DOMAIN new : Updated(prev, new)[n] = prev[n]
  BY UpdatedIs
<1>5. ASSUME NEW n \in N PROVE PrevAlong(chain)[n] \in N \union {prev[n]}
  <2>1. CASE n \in DOMAIN new
    BY <1>1, <1>3, <1>4, <2>1
  <2>2. CASE n \notin DOMAIN new
    BY <1>1, <1>4, <2>2
  <2> QED BY <2>1, <2>2
<1>6. DOMAIN PrevAlong(chain) = N
  BY <1>1, <1>3, <1>4
<1> QED BY <1>5, <1>6

\* The chain of all the nodes of the lattice starts with BOS and does not
\* return to it.
LEMMA AllMorphsIs ==
  ASSUME TextInv, LatticeInv, Built
  PROVE  /\ AllMorphs \in Seq(Nodes) /\ AllMorphs # <<>>
         /\ \A i \in 2..Len(AllMorphs) : AllMorphs[i] # AllMorphs[1]
<1>0. place # "initPartial" /\ ~ GaveUp
  BY DEF Built, GaveUp
<1>1. size \in Nat /\ ListsInv /\ NodesInv
  BY <1>0, LatticeReady
<1>2. BOS = BOSNode /\ BOSNode \in Nodes
  BY <1>1, EOSIs DEF NodesInv
<1> DEFINE Others == Nodes \ {BOSNode}
           lists == [i \in 1..size+1 |-> begin_nodes[i - 1]]
<1>3. ASSUME NEW i \in 1..size+1 PROVE begin_nodes[i - 1] \in Seq(Others)
  <2>1. PICK q \in 0..size : q = i - 1
    BY <1>1
  <2>2. CASE q = size
    <3>1. begin_nodes[q] = <<EOSNode(size)>>
      BY <1>1, <2>2 DEF ListsInv
    <3>2. EOSNode(size) \in Others
      BY <1>1, EndNodes DEF NodesInv
    <3> QED BY <2>1, <3>1, <3>2
  <2>3. CASE q # size
    <3>1. q \in 0..size-1
      BY <1>1, <2>3
    <3>2. begin_nodes[q] \in Seq(WordsAt(q, size))
      BY <1>1, <3>1 DEF ListsInv
    <3>3. ToSet(begin_nodes[q]) \subseteq Nodes
      BY <1>0, <1>1, <3>1 DEF NodesInv, Whole
    <3>4. \A n \in ToSet(begin_nodes[q]) : n \in Others
      BY <1>1, <3>1, <3>3, FoundAre
    <3>5. begin_nodes[q] \in Seq(Others)
      <4>1. \A j \in 1..Len(begin_nodes[q]) : begin_nodes[q][j] \in Others
        BY <3>2, <3>4 DEF ToSet
      <4> HIDE DEF Others
      <4> QED BY <3>2, <4>1
    <3> QED BY <2>1, <3>5
  <2> QED BY <2>2, <2>3
<1>4. lists \in Seq(Seq(Others))
  <2>1. lists \in [1..size+1 -> Seq(Others)]
    BY <1>3
  <2> HIDE DEF lists, Others
  <2>2. size + 1 \in Nat
    BY <1>1
  <2> QED BY <2>1, <2>2
<1> DEFINE rest == FlattenSeq(lists)
<1>5. rest \in Seq(Others)
  <2> HIDE DEF lists, Others
  <2> QED BY <1>4, FlattenElements
<1>6. AllMorphs = <<BOSNode>> \o rest
  BY <1>2 DEF AllMorphs
<1> HIDE DEF rest, lists
<1> DEFINE all == <<BOSNode>> \o rest
<1>7. /\ all \in Seq(Nodes) /\ all # <<>> /\ Len(all) = Len(rest) + 1 /\ all[1] = BOSNode
      /\ \A i \in 1..Len(rest) : all[i + 1] = rest[i]
  BY <1>2, <1>5
<1>8. ASSUME NEW i \in 2..Len(all) PROVE all[i] # BOSNode
  <2>1. PICK j \in 1..Len(rest) : i = j + 1
    <3>1. i - 1 \in 1..Len(rest)
      BY <1>5, <1>7
    <3> QED BY <3>1
  <2>2. rest[j] \in Others
    BY <1>5
  <2> QED BY <1>7, <2>1, <2>2
<1> QED BY <1>6, <1>7, <1>8

-----------------------------------------------------------------------------
(* The chain that prev leads back along *)

IsBack(f) == f = [n \in Nodes |-> IF prev[n] = None THEN <<n>> ELSE Append(f[prev[n]], n)]

\* Before the results are linked, prev names the neighbour that the cost came
\* from.
LEMMA PrevIs ==
  ASSUME TextInv, LatticeInv, place = "buildBestLattice"
  PROVE  /\ prev[BOSNode] = None /\ isbest = {BOSNode}
         /\ \A n \in Nodes \ {BOSNode} :
              /\ prev[n] \in Nodes /\ prev[n] # None /\ prev[n].stat # "eos"
              /\ cost[n] = cost[prev[n]] + LocalCost(prev[n], n)
              /\ n.stat = "eos" => n = EOS /\ EndOf(prev[n]) = LastEnd
              /\ n.stat # "eos" => /\ EndOf(prev[n]) = BeginOf(n) /\ BeginOf(n) \in 0..size-1
                                   /\ n \in ToSet(begin_nodes[BeginOf(n)])
                                   /\ EndOf(n) \in BeginOf(n)+1..size+1
<1>0. Built /\ place # "initPartial"
  BY DEF Built
<1>1. size \in Nat /\ ListsInv /\ NodesInv /\ PrevInv
  BY <1>0, LatticeReady
<1>2. prev[BOSNode] = None /\ isbest = {BOSNode}
  BY <1>1 DEF PrevInv
<1> SUFFICES ASSUME NEW n \in Nodes \ {BOSNode}
             PROVE  /\ prev[n] \in Nodes /\ prev[n] # None /\ prev[n].stat # "eos"
                    /\ cost[n] = cost[prev[n]] + LocalCost(prev[n], n)
                    /\ n.stat = "eos" => n = EOS /\ EndOf(prev[n]) = LastEnd
                    /\ n.stat # "eos" => /\ EndOf(prev[n]) = BeginOf(n) /\ BeginOf(n) \in 0..size-1
                                         /\ n \in ToSet(begin_nodes[BeginOf(n)])
                                         /\ EndOf(n) \in BeginOf(n)+1..size+1
  BY <1>2
<1>3. PICK l : l = prev[n] /\ Linked(n, l)
  BY <1>1 DEF PrevInv
<1>4. l \in LeftOf(n) /\ cost[n] = cost[l] + LocalCost(l, n)
  BY <1>3 DEF Linked, CostThrough
<1>5. l \in Nodes /\ l # None
  <2>1. l \in Nodes
    BY <1>0, <1>4, LeftsAreNodes
  <2>2. l \in NodeRecords
    BY <1>1, <2>1, NodesAre
  <2> QED BY <2>1, <2>2, NullAssumption
<1>6. CASE n.stat = "eos"
  <2>1. LastEnd \in 0..size /\ LeftOf(n) = EndsAt(LastEnd) /\ n = EOS
    BY <1>0, <1>1, <1>6, LastEndIs, EOSIs
  <2>2. LastEnd \in 0..size+3
    BY <1>1, <2>1
  <2>3. l.stat # "eos" /\ EndOf(l) = LastEnd
    BY <1>1, <1>4, <2>1, <2>2 DEF NodesInv
  <2> QED BY <1>3, <1>4, <1>5, <1>6, <2>1, <2>3
<1>7. CASE n.stat # "eos"
  <2>1. n \notin {BOSNode, EOSNode(size)}
    BY <1>1, <1>7, EndNodes
  <2>2. BeginOf(n) \in 0..size-1 /\ n \in ToSet(begin_nodes[BeginOf(n)]) /\ LeftOf(n) = EndsAt(BeginOf(n))
    BY <1>1, <1>7, <2>1, NodesAre DEF LeftOf
  <2>3. BeginOf(n) \in 0..size+3 /\ EndOf(n) \in BeginOf(n)+1..size+1
    BY <1>1, <2>2, FoundAre
  <2>4. l.stat # "eos" /\ EndOf(l) = BeginOf(n)
    BY <1>1, <1>4, <2>2, <2>3 DEF NodesInv
  <2> QED BY <1>3, <1>4, <1>5, <1>7, <2>2, <2>3, <2>4
<1> QED BY <1>6, <1>7

\* the nodes whose way back is at most k links long
Rank(n) == IF n.stat = "eos" THEN size + 2 ELSE EndOf(n)
Below(k) == { n \in Nodes : Rank(n) \in 0..k }

\* Going back along prev gets nearer to the begin of the text.
LEMMA RankIs ==
  ASSUME TextInv, LatticeInv, place = "buildBestLattice"
  PROVE  /\ size \in Nat /\ Nodes = Below(size + 2) /\ Below(0) = {BOSNode}
         /\ \A k \in Nat : \A n \in Below(k + 1) \ {BOSNode} : prev[n] \in Below(k)
<1>0. place # "initPartial"
  OBVIOUS
<1>1. size \in Nat /\ ListsInv /\ NodesInv
  BY <1>0, LatticeReady
<1>2. LastEnd \in 0..size
  BY <1>1, LastEndIs
<1>3. Rank(BOSNode) = 0 /\ BOSNode \in Nodes
  BY <1>1, EndNodes DEF Rank, NodesInv
<1>4. ASSUME NEW n \in Nodes \ {BOSNode}
      PROVE  /\ Rank(n) \in 1..size+2 /\ prev[n] \in Nodes
             /\ Rank(prev[n]) \in 0..size+2 /\ Rank(prev[n]) < Rank(n)
  <2>1. prev[n] \in Nodes /\ Rank(prev[n]) = EndOf(prev[n])
    BY PrevIs DEF Rank
  <2>2. CASE n.stat = "eos"
    BY <1>1, <1>2, <2>1, <2>2, PrevIs DEF Rank
  <2>3. CASE n.stat # "eos"
    <3>1. PICK b \in 0..size-1 : b = BeginOf(n)
      BY <2>3, PrevIs
    <3>2. EndOf(n) \in b+1..size+1 /\ EndOf(prev[n]) = b
      BY <2>3, <3>1, PrevIs
    <3>3. PICK e \in b+1..size+1 : e = EndOf(n)
      BY <3>2
    <3>4. Rank(n) = e /\ Rank(prev[n]) = b
      BY <2>1, <2>3, <3>2, <3>3 DEF Rank
    <3> QED BY <1>1, <2>1, <3>4
  <2> QED BY <2>2, <2>3
<1>5. Nodes = Below(size + 2)
  <2>1. 0 \in 0..size+2 /\ \A r \in 1..size+2 : r \in 0..size+2
    BY <1>1
  <2> QED BY <1>3, <1>4, <2>1 DEF Below
<1>6. Below(0) = {BOSNode}
  BY <1>3, <1>4 DEF Below
<1>7. ASSUME NEW k \in Nat, NEW n \in Below(k + 1) \ {BOSNode} PROVE prev[n] \in Below(k)
  <2>1. n \in Nodes \ {BOSNode} /\ Rank(n) \in 0..k+1
    BY DEF Below
  <2>2. PICK r \in 1..size+2, m \in 0..size+2 : r = Rank(n) /\ m = Rank(prev[n]) /\ m < r
    BY <1>4, <2>1
  <2>3. m \in 0..k
    BY <1>1, <2>1, <2>2
  <2> QED BY <1>4, <2>1, <2>2, <2>3 DEF Below
<1> QED BY <1>1, <1>5, <1>6, <1>7

\* So the recursive function that walks back is defined.
LEMMA BackExists ==
  ASSUME TextInv, LatticeInv, place = "buildBestLattice"
  PROVE  \E f : IsBack(f)
<1> DEFINE Follows(f, k) ==
             \A n \in Below(k) : f[n] = IF prev[n] = None THEN <<n>> ELSE Append(f[prev[n]], n)
           Good == { k \in Nat : \E f : Follows(f, k) }
<1>0. /\ size \in Nat /\ Nodes = Below(size + 2) /\ Below(0) = {BOSNode}
      /\ \A k \in Nat : \A n \in Below(k + 1) \ {BOSNode} : prev[n] \in Below(k)
  BY RankIs
<1>1. prev[BOSNode] = None /\ \A n \in Nodes \ {BOSNode} : prev[n] \in Nodes /\ prev[n] # None
  BY PrevIs
<1>2. 0 \in Good
  <2>1. Follows([n \in {BOSNode} |-> <<n>>], 0)
    BY <1>0, <1>1
  <2> QED BY <2>1
<1>3. ASSUME NEW k \in Nat, k \in Good PROVE k + 1 \in Good
  <2>1. PICK f : Follows(f, k)
    BY <1>3
  <2> DEFINE g == [n \in Below(k) \union Below(k + 1) |-> IF n \in Below(k) THEN f[n]
                                                           ELSE Append(f[prev[n]], n)]
  <2>2. \A n \in Below(k) : g[n] = f[n]
    OBVIOUS
  <2>3. \A n \in Below(k + 1) \ Below(k) : g[n] = Append(f[prev[n]], n)
    OBVIOUS
  <2> HIDE DEF g
  <2>4. ASSUME NEW n \in Below(k + 1)
        PROVE  g[n] = IF prev[n] = None THEN <<n>> ELSE Append(g[prev[n]], n)
    <3>0. BOSNode \in Below(k)
      <4>1. 0 \in 0..k /\ BOSNode \in Below(0)
        BY <1>0
      <4>2. Rank(BOSNode) = 0 /\ BOSNode \in Nodes
        BY <4>1 DEF Below
      <4> QED BY <4>1, <4>2 DEF Below
    <3>1. CASE n = BOSNode
      BY <1>1, <2>1, <2>2, <3>0, <3>1
    <3>2. CASE n # BOSNode
      <4>1. prev[n] \in Below(k) /\ prev[n] # None
        BY <1>0, <1>1, <3>2 DEF Below
      <4>2. g[prev[n]] = f[prev[n]]
        BY <2>2, <4>1
      <4> QED BY <2>1, <2>2, <2>3, <4>1, <4>2
    <3> QED BY <3>1, <3>2
  <2>5. Follows(g, k + 1)
    BY <2>4
  <2> HIDE DEF Follows
  <2> QED BY <2>5
<1> HIDE DEF Good
<1>4. size + 2 \in Good
  <2>1. size + 2 \in Nat
    BY <1>0
  <2> QED BY <1>2, <1>3, <2>1, NatSetInduction
<1>5. PICK f : Follows(f, size + 2)
  BY <1>4 DEF Good
<1> DEFINE g == [n \in Nodes |-> f[n]]
<1>6. \A n \in Nodes : f[n] = IF prev[n] = None THEN <<n>> ELSE Append(f[prev[n]], n)
  BY <1>0, <1>5
<1> HIDE DEF Follows
<1>7. \A n \in Nodes : prev[n] # None => prev[n] \in Nodes
  BY <1>1
<1>8. IsBack(g)
  BY <1>6, <1>7 DEF IsBack
<1> QED BY <1>8

\* The walk back from EOS is a segmentation that costs what EOS costs.
LEMMA BackChain ==
  ASSUME TextInv, LatticeInv, place = "buildBestLattice", NEW f, IsBack(f)
  PROVE  /\ f[EOS] \in Seq(Nodes) /\ f[EOS] # <<>>
         /\ \E s \in Chains(LastEnd) :
              /\ f[EOS] = Append(s, EOS) /\ cost[EOS] = CostOf(Append(s, EOS))
<1> DEFINE Right(n) == /\ f[n] \in Seq(Nodes) /\ f[n] # <<>>
                       /\ n.stat # "eos" => /\ f[n] \in Chains(EndOf(n)) /\ Last(f[n]) = n
                                            /\ CostOf(f[n]) = cost[n]
           Good == { k \in Nat : \A n \in Below(k) : Right(n) }
<1>0. /\ size \in Nat /\ Nodes = Below(size + 2) /\ Below(0) = {BOSNode}
      /\ \A k \in Nat : \A n \in Below(k + 1) \ {BOSNode} : prev[n] \in Below(k)
  BY RankIs
<1>1. /\ prev[BOSNode] = None
      /\ \A n \in Nodes \ {BOSNode} :
           /\ prev[n] \in Nodes /\ prev[n] # None /\ prev[n].stat # "eos"
           /\ cost[n] = cost[prev[n]] + LocalCost(prev[n], n)
           /\ n.stat = "eos" => n = EOS /\ EndOf(prev[n]) = LastEnd
           /\ n.stat # "eos" => /\ EndOf(prev[n]) = BeginOf(n) /\ BeginOf(n) \in 0..size-1
                                /\ n \in ToSet(begin_nodes[BeginOf(n)])
                                /\ EndOf(n) \in BeginOf(n)+1..size+1
  BY PrevIs
<1>2. ListsInv /\ NodesInv /\ CostsInv /\ BOSNode \in Nodes
  BY LatticeReady DEF NodesInv
<1>3. EOS \in Nodes /\ EOS # BOSNode /\ EOS.stat = "eos" /\ EOS \in NodeRecords
  BY EOSIs DEF Built
<1>4. \A n \in Nodes : f[n] = IF prev[n] = None THEN <<n>> ELSE Append(f[prev[n]], n)
  BY DEF IsBack
<1>5. Right(BOSNode)
  <2>1. f[BOSNode] = <<BOSNode>>
    BY <1>1, <1>2, <1>4
  <2>2. <<BOSNode>> \in Seq(Nodes) /\ <<BOSNode>> # <<>> /\ <<BOSNode>> \in Seq(NodeRecords)
    BY <1>2, EndNodes, <1>0
  <2>3. <<BOSNode>> \in Chains(0) /\ EndOf(BOSNode) = 0
    BY <1>0, <1>2, <2>2, EndNodes, ChainOfOne DEF Chains
  <2>4. Last(<<BOSNode>>) = BOSNode /\ CostOf(<<BOSNode>>) = 0 /\ cost[BOSNode] = 0
    BY <1>2, CostOfOne DEF Last, CostsInv
  <2> QED BY <2>1, <2>2, <2>3, <2>4
<1>6. 0 \in Good
  BY <1>0, <1>5
<1>7. ASSUME NEW k \in Nat, k \in Good PROVE k + 1 \in Good
  <2> SUFFICES ASSUME NEW n \in Below(k + 1) PROVE Right(n)
    OBVIOUS
  <2>1. CASE n = BOSNode
    BY <1>5, <2>1
  <2>2. CASE n # BOSNode
    <3>1. n \in Nodes /\ prev[n] \in Nodes /\ prev[n] \in Below(k)
      BY <1>0, <1>1, <2>2 DEF Below
    <3>2. PICK l : l = prev[n] /\ l.stat # "eos" /\ l # None
      BY <1>1, <2>2, <3>1
    <3>3. Right(l) /\ f[n] = Append(f[l], n)
      BY <1>4, <1>7, <3>1, <3>2
    <3>4. f[n] \in Seq(Nodes) /\ f[n] # <<>>
      BY <3>1, <3>3
    <3>5. ASSUME n.stat # "eos"
          PROVE  /\ f[n] \in Chains(EndOf(n)) /\ Last(f[n]) = n /\ CostOf(f[n]) = cost[n]
      <4>1. PICK b \in 0..size-1 : b = BeginOf(n) /\ n \in ToSet(begin_nodes[b]) /\ EndOf(l) = b
        BY <1>1, <2>2, <3>1, <3>2, <3>5
      <4>2. IsChain(f[l], b) /\ f[l] \in Seq(NodeRecords) /\ Last(f[l]) = l /\ CostOf(f[l]) = cost[l]
        BY <3>2, <3>3, <4>1 DEF Chains
      <4>3. n \in NodeRecords
        BY <1>0, <1>2, <4>1, FoundAre
      <4>4. f[n] \in Chains(EndOf(n))
        BY <1>0, <1>2, <3>3, <4>1, <4>2, ChainLonger DEF Chains
      <4>5. CostOf(f[n]) = CostOf(f[l]) + LocalCost(l, n)
        BY <3>3, <4>2, <4>3, CostOfLonger
      <4>6. CostOf(f[n]) = cost[n]
        BY <1>1, <2>2, <3>1, <3>2, <4>2, <4>5
      <4>7. Last(f[n]) = n
        BY <3>3 DEF Last
      <4> QED BY <4>4, <4>6, <4>7
    <3> QED BY <3>4, <3>5
  <2> QED BY <2>1, <2>2
<1> HIDE DEF Good, Right
<1>8. \A n \in Nodes : Right(n)
  <2>1. size + 2 \in Nat
    BY <1>0
  <2>2. size + 2 \in Good
    BY <1>6, <1>7, <2>1, NatSetInduction
  <2> QED BY <1>0, <2>2 DEF Good
<1>9. f[EOS] \in Seq(Nodes) /\ f[EOS] # <<>>
  BY <1>3, <1>8 DEF Right
<1>10. PICK l \in Nodes : /\ l = prev[EOS] /\ l # None /\ l.stat # "eos" /\ EndOf(l) = LastEnd
                          /\ cost[EOS] = cost[l] + LocalCost(l, EOS)
  BY <1>1, <1>3
<1>11. f[l] \in Chains(LastEnd) /\ Last(f[l]) = l /\ CostOf(f[l]) = cost[l]
  BY <1>8, <1>10 DEF Right
<1>12. f[EOS] = Append(f[l], EOS)
  BY <1>3, <1>4, <1>10
<1>13. CostOf(Append(f[l], EOS)) = CostOf(f[l]) + LocalCost(l, EOS)
  BY <1>3, <1>11, CostOfLonger DEF Chains, IsChain
<1> QED BY <1>9, <1>10, <1>11, <1>12, <1>13

-----------------------------------------------------------------------------
(* The invariant *)

PlaceInv ==
  LookingUp \/ place \in {"initPartial", "scan", "lookup", "died", "too long sentence"} \/ Built

\* the search holds chains of linked nodes, BOS at most at their head
SearchInv ==
  /\ ~ Read => agenda = {} /\ results = <<>>
  /\ \A e \in agenda : /\ e.chain \in Seq(Nodes) /\ e.chain # <<>>
                       /\ \A i \in 2..Len(e.chain) : e.chain[i] # BOSNode
  /\ results \in Seq(Seq(Nodes))

IInv ==
  PlaceInv /\ StartInv /\ TextInv /\ LookupInv /\ LatticeInv /\ SearchInv /\ BestInv

\* TypeOK follows from the invariant.
LEMMA TypesHold ==
  ASSUME IInv PROVE TypeOK
<1>1. place \in {"initPartial", "scan", "lookup", "dictionary", "blank", "group", "count",
                "single", "stretch", "force", "connect", "too long sentence", "died", "forwardbackward",
                "buildBestLattice", "buildAllLattice", "initNBest", "parsed", "searching",
                "result", "exhausted"}
  BY DEF IInv, PlaceInv, LookingUp, Built
<1>2. \A i \in DOMAIN results : ToSet(results[i]) \subseteq Nodes
  <2>1. results \in Seq(Seq(Nodes))
    BY DEF IInv, SearchInv
  <2>2. ASSUME NEW i \in DOMAIN results PROVE results[i] \in Seq(Nodes)
    BY <2>1
  <2> QED BY <2>2 DEF ToSet
<1>3. CASE place = "initPartial"
  <2>1. /\ end_nodes = <<>> /\ isbest = {BOSNode}
        /\ cost = [n \in {BOSNode} |-> 0]
        /\ prev = [n \in {BOSNode} |-> None] /\ next = [n \in {BOSNode} |-> None]
    BY <1>3 DEF IInv, StartInv
  <2>2. Nodes = {BOSNode} /\ cost[BOSNode] = 0 /\ 0 < CostLimit
    BY <2>1, CostAssumption DEF Nodes
  <2>3. DOMAIN end_nodes = {}
    BY <2>1
  <2>4. DOMAIN prev = Nodes /\ DOMAIN next = Nodes /\ isbest \subseteq Nodes
    BY <2>1, <2>2
  <2>5. \A n \in Nodes : /\ cost[n] \in Int /\ cost[n] < CostLimit
                         /\ prev[n] \in Nodes \union {None} /\ next[n] \in Nodes \union {None}
    BY <2>1, <2>2
  <2>6. \A p \in DOMAIN end_nodes : \A n \in ToSet(end_nodes[p]) : n.stat # "eos" => EndOf(n) = p
    BY <2>3, Zenon
  <2> QED BY <1>1, <1>2, <2>4, <2>5, <2>6 DEF TypeOK
<1>4. CASE place # "initPartial"
  <2>1. size \in Nat /\ ListsInv /\ NodesInv /\ CostsInv /\ LinksInv
    BY <1>4, LatticeReady DEF IInv
  <2>2. \A p \in DOMAIN end_nodes : \A n \in ToSet(end_nodes[p]) : n.stat # "eos" => EndOf(n) = p
    <3> TAKE p \in DOMAIN end_nodes
    <3>1. p \in 0..size+3
      BY <2>1 DEF ListsInv
    <3> QED BY <2>1, <3>1 DEF NodesInv, EndsAt
  <2> QED BY <1>1, <1>2, <2>1, <2>2 DEF TypeOK, CostsInv, LinksInv
<1> QED BY <1>3, <1>4

\* The initial states satisfy the invariant.
LEMMA InitHolds ==
  ASSUME Init PROVE IInv
<1>1. /\ place = "initPartial" /\ pos = 0 /\ end_nodes = <<>> /\ isbest = {BOSNode} /\ paths = {}
      /\ cost = [n \in {BOSNode} |-> 0] /\ agenda = {} /\ results = <<>>
      /\ prev = [n \in {BOSNode} |-> None] /\ next = [n \in {BOSNode} |-> None]
      /\ \E input \in Inputs : /\ sentence = input.text /\ request = input.request
                               /\ constraint = input.constraint
  BY DEF Init, InitLattice
<1>2. PlaceInv /\ StartInv
  BY <1>1 DEF PlaceInv, StartInv
<1>3. TextInv /\ LookupInv /\ LatticeInv /\ BestInv
  BY <1>1 DEF TextInv, LookupInv, LookingUp, LatticeInv, BestInv, Marked
<1>4. SearchInv
  <2>1. <<>> \in Seq(Seq(Nodes))
    OBVIOUS
  <2> QED BY <1>1, <2>1 DEF SearchInv
<1> QED BY <1>2, <1>3, <1>4 DEF IInv

-----------------------------------------------------------------------------
(* The steps *)

\* The text and its constraint stay while one sentence is analysed.
LEMMA TextStays ==
  ASSUME TextInv, place # "initPartial", UNCHANGED <<sentence, constraint>>, pos' \in 0..size
  PROVE  TextInv'
<1>1. size' = size
  BY DEF size
<1> QED BY <1>1 DEF TextInv

\* Outside lookup its invariant says nothing.
LEMMA LookupOver ==
  ASSUME place' \notin {"lookup", "dictionary", "blank", "group", "count", "single", "stretch",
                        "force", "connect"}
  PROVE  LookupInv'
BY DEF LookupInv, LookingUp

\* The marked path stays the best while the lattice stays.
LEMMA BestStays ==
  ASSUME BestInv, UNCHANGED <<sentence, begin_nodes, end_nodes, cost, isbest>>, Marked' => Marked
  PROVE  BestInv'
<1>1. size' = size /\ EOS' = EOS
  BY DEF size, EOS
<1>2. LastEnd' = LastEnd
  <2>1. \A p : EndsAt(p)' = EndsAt(p)
    BY DEF EndsAt
  <2> QED BY <1>1, <2>1 DEF LastEnd
<1>3. \A p, s : IsChain(s, p)' = IsChain(s, p)
  BY <1>1 DEF IsChain
<1> SUFFICES ASSUME Marked'
             PROVE  \E s \in Chains(LastEnd)' : /\ isbest' = ToSet(Append(s, EOS'))
                                                /\ cost'[EOS'] = CostOf(Append(s, EOS'))
  BY DEF BestInv
<1>4. PICK s \in Chains(LastEnd) : /\ isbest = ToSet(Append(s, EOS))
                                   /\ cost[EOS] = CostOf(Append(s, EOS))
  BY DEF BestInv
<1>5. PICK p : p = LastEnd
  OBVIOUS
<1>6. s \in Chains(p) /\ s \in Seq(NodeRecords)
  BY <1>4, <1>5 DEF Chains
<1>7. s \in { t \in Seq(NodeRecords) : IsChain(t, LastEnd)' }
  BY <1>2, <1>3, <1>5, <1>6 DEF Chains, IsChain
<1>8. s \in Chains(LastEnd)'
  BY <1>7 DEF Chains
<1> QED BY <1>1, <1>4, <1>8

\* a step that leaves the lattice as it is
LEMMA QuietStep ==
  ASSUME IInv, place # "initPartial", place' # "initPartial",
         UNCHANGED <<sentence, constraint, begin_nodes, end_nodes, cost, paths, prev, next, isbest>>,
         ~ GaveUp, ~ GaveUp', Built' <=> Built, Scanning' <=> Scanning, Marked' => Marked,
         place' \in {"forwardbackward", "buildBestLattice"} =>
           place \in {"forwardbackward", "buildBestLattice"},
         pos' \in pos..size, PlaceInv', LookupInv', SearchInv'
  PROVE  IInv'
<1>1. size \in Nat /\ pos \in 0..size
  BY LatticeReady DEF IInv
<1>2. pos' \in Int /\ pos <= pos' /\ pos' \in 0..size
  BY <1>1
<1>3. TextInv'
  BY <1>2, TextStays DEF IInv
<1>4. LatticeInv'
  BY <1>2, LatticeStays DEF IInv
<1>5. BestInv'
  BY BestStays DEF IInv
<1>6. StartInv'
  BY DEF StartInv
<1> QED BY <1>3, <1>4, <1>5, <1>6 DEF IInv

\* a step that links the results
LEMMA LinkingStep ==
  ASSUME IInv, Built, Built', place' \notin {"forwardbackward", "buildBestLattice"},
         UNCHANGED <<sentence, constraint, pos, begin_nodes, end_nodes, cost, paths>>,
         DOMAIN prev' = Nodes, DOMAIN next' = Nodes, isbest' \subseteq Nodes,
         \A n \in Nodes : prev'[n] \in Nodes \union {prev[n]} /\ next'[n] \in Nodes \union {next[n]},
         SearchInv', BestInv'
  PROVE  IInv'
<1>1. /\ ~ GaveUp /\ ~ GaveUp' /\ ~ Scanning /\ ~ Scanning'
      /\ place # "initPartial" /\ place' # "initPartial"
  BY DEF Built, GaveUp, Scanning, LookingUp
<1>2. size \in Nat /\ pos \in 0..size /\ LinksInv
  BY <1>1, LatticeReady DEF IInv
<1>3. pos' \in Int /\ pos <= pos' /\ pos' \in 0..size
  BY <1>2
<1>4. ListsInv' /\ NodesInv' /\ CostsInv' /\ GaveUpInv' /\ PathsInv' /\ Nodes' = Nodes
  BY <1>1, <1>3, ListsStay DEF IInv
<1>5. LinksInv'
  <2>1. \A n \in Nodes : prev'[n] \in Nodes \union {None} /\ next'[n] \in Nodes \union {None}
    BY <1>2 DEF LinksInv
  <2> QED BY <1>4, <2>1 DEF LinksInv
<1>6. PrevInv'
  BY <1>1 DEF PrevInv
<1>7. LatticeInv'
  BY <1>4, <1>5, <1>6 DEF LatticeInv
<1>8. TextInv'
  BY <1>1, <1>3, TextStays DEF IInv
<1>9. LookupInv'
  BY LookupOver DEF Built
<1>10. PlaceInv' /\ StartInv'
  BY <1>1 DEF PlaceInv, StartInv
<1> QED BY <1>7, <1>8, <1>9, <1>10 DEF IInv

\* Before the results are read there is no agenda.
LEMMA NoSearch ==
  ASSUME IInv, ~ Read, UNCHANGED <<agenda, results>>
  PROVE  SearchInv'
<1>1. agenda' = {} /\ results' = <<>>
  BY DEF IInv, SearchInv
<1>2. <<>> \in Seq(Seq(Nodes'))
  OBVIOUS
<1> QED BY <1>1, <1>2 DEF SearchInv

\* Every step of the analysis keeps the invariant.
LEMMA AnalyzeKeeps ==
  ASSUME IInv, Analyze
  PROVE  IInv'
<1>0. UNCHANGED <<agenda, results>>
  BY DEF Analyze
<1>1. CASE InitPartial
  <2>1. place' = "scan" /\ ~ Read /\ StartInv
    BY <1>1 DEF InitPartial, Read, IInv
  <2>2. TextInv' /\ LookupInv' /\ LatticeInv'
    BY <1>1, <2>1, InitPartialText, InitPartialLattice
  <2>3. SearchInv'
    BY <1>0, <2>1, NoSearch
  <2>4. PlaceInv' /\ StartInv' /\ BestInv'
    BY <2>1 DEF PlaceInv, StartInv, BestInv, Marked
  <2> QED BY <2>2, <2>3, <2>4 DEF IInv
<1>2. CASE SkipPosition
  <2>1. /\ place = "scan" /\ place' = "scan" /\ pos < size /\ pos' = pos + 1
        /\ UNCHANGED <<sentence, constraint, begin_nodes, end_nodes, cost, paths, prev, next, isbest>>
    BY <1>2 DEF SkipPosition, inputVars, listVars, markVars
  <2>2. size \in Nat /\ pos \in 0..size
    BY <2>1, LatticeReady DEF IInv
  <2>3. SearchInv'
    BY <1>0, <2>1, NoSearch DEF Read
  <2>4. LookupInv' /\ PlaceInv'
    BY <2>1, LookupOver DEF PlaceInv
  <2>5. pos' \in pos..size
    BY <2>1, <2>2
  <2>6. /\ ~ GaveUp /\ ~ GaveUp' /\ ~ Built /\ ~ Built' /\ Scanning /\ Scanning' /\ ~ Marked'
    BY <2>1 DEF GaveUp, Built, Scanning, Marked
  <2>7. place # "initPartial" /\ place' # "initPartial"
        /\ place' \notin {"forwardbackward", "buildBestLattice"}
    BY <2>1
  <2> QED BY <2>1, <2>3, <2>4, <2>5, <2>6, <2>7, QuietStep
<1>3. CASE ScanPosition
  <2>1. /\ place = "scan" /\ place' = "lookup" /\ pos < size /\ pos' = pos
        /\ UNCHANGED <<sentence, constraint, begin_nodes, end_nodes, cost, paths, prev, next, isbest>>
    BY <1>3 DEF ScanPosition, Stage, inputVars, listVars, markVars
  <2>2. size \in Nat /\ pos \in 0..size
    BY <2>1, LatticeReady DEF IInv
  <2>3. SearchInv'
    BY <1>0, <2>1, NoSearch DEF Read
  <2>4. size' = size
    BY <2>1 DEF size
  <2>5. LookupInv' /\ PlaceInv'
    BY <2>1, <2>4 DEF PlaceInv, LookupInv, LookingUp
  <2>6. pos' \in pos..size
    BY <2>1, <2>2
  <2>7. /\ ~ GaveUp /\ ~ GaveUp' /\ ~ Built /\ ~ Built' /\ Scanning /\ Scanning' /\ ~ Marked'
    BY <2>1 DEF GaveUp, Built, Scanning, Marked
  <2>8. place # "initPartial" /\ place' # "initPartial"
        /\ place' \notin {"forwardbackward", "buildBestLattice"}
    BY <2>1
  <2> QED BY <2>1, <2>3, <2>5, <2>6, <2>7, <2>8, QuietStep
<1>4. CASE LookupStep
  <2>1. Lookup /\ UNCHANGED <<request, listVars, prev, next, markVars>>
    BY <1>4 DEF LookupStep
  <2>2. LookingUp \/ place = "lookup"
    BY <2>1, LookupPlaces
  <2>3. LookingUp' \/ place' = "died"
    BY <2>1, LookupPlaces
  <2>4. sentence' = sentence /\ constraint' = constraint /\ pos' = pos
    BY <2>1, LookupPlaces
  <2>5. UNCHANGED <<begin_nodes, end_nodes, cost, paths, prev, next, isbest>>
    BY <2>1 DEF listVars, markVars
  <2>6. LookupInv'
    BY <2>1, LookupKeeps DEF IInv
  <2>7. /\ place # "initPartial" /\ place' # "initPartial"
        /\ place' \notin {"forwardbackward", "buildBestLattice"} /\ ~ Read
        /\ ~ GaveUp /\ ~ GaveUp' /\ ~ Built /\ ~ Built' /\ Scanning /\ Scanning' /\ ~ Marked'
        /\ PlaceInv'
    BY <2>2, <2>3 DEF GaveUp, Built, Scanning, Marked, LookingUp, Read, PlaceInv
  <2>8. size \in Nat /\ pos \in 0..size
    BY <2>7, LatticeReady DEF IInv
  <2>9. pos' \in pos..size
    BY <2>4, <2>8
  <2>10. SearchInv'
    BY <1>0, <2>7, NoSearch
  <2> QED BY <2>4, <2>5, <2>6, <2>7, <2>9, <2>10, QuietStep
<1>5. CASE ConnectFound
  <2>1. LatticeInv'
    BY <1>5, ConnectFoundLattice DEF IInv
  <2>2. /\ place = "connect" /\ pos' = pos + 1 /\ sentence' = sentence /\ constraint' = constraint
        /\ place' \in {"scan", "too long sentence"}
    BY <1>5 DEF ConnectFound, Connect, inputVars
  <2>3. size \in Nat /\ pos \in Nat /\ pos < size
    BY <2>2, LookupReady DEF IInv, LookingUp
  <2>4. TextInv'
    <3>1. pos' \in 0..size
      <4>1. \A m, n \in Nat : m < n => m + 1 \in 0..n
        OBVIOUS
      <4>2. pos + 1 \in 0..size
        BY <2>3, <4>1, Zenon
      <4> QED BY <2>2, <4>2, Zenon
    <3> QED BY <2>2, <3>1, TextStays DEF IInv
  <2>5. LookupInv' /\ PlaceInv' /\ StartInv' /\ BestInv'
    BY <2>2, LookupOver DEF PlaceInv, StartInv, BestInv, Marked
  <2>6. SearchInv'
    BY <1>0, <2>2, NoSearch DEF Read
  <2> QED BY <2>1, <2>4, <2>5, <2>6 DEF IInv
<1>6. CASE ConnectEOS
  <2>1. LatticeInv'
    BY <1>6, ConnectEOSLattice DEF IInv
  <2>2. /\ place = "scan" /\ pos' = pos /\ sentence' = sentence /\ constraint' = constraint
        /\ place' \in {"forwardbackward", "too long sentence"}
    BY <1>6 DEF ConnectEOS, Connect, inputVars
  <2>3. size \in Nat /\ pos \in 0..size
    BY <2>2, LatticeReady DEF IInv
  <2>4. TextInv'
    BY <2>2, <2>3, TextStays DEF IInv
  <2>5. LookupInv' /\ PlaceInv' /\ StartInv' /\ BestInv'
    BY <2>2, LookupOver DEF PlaceInv, StartInv, BestInv, Marked, Built
  <2>6. SearchInv'
    BY <1>0, <2>2, NoSearch DEF Read
  <2> QED BY <2>1, <2>4, <2>5, <2>6 DEF IInv
<1>7. CASE ForwardBackward
  <2>1. /\ place = "forwardbackward" /\ place' = "buildBestLattice" /\ pos' = pos
        /\ UNCHANGED <<sentence, constraint, begin_nodes, end_nodes, cost, paths, prev, next, isbest>>
    BY <1>7 DEF ForwardBackward, inputVars, listVars
  <2>2. size \in Nat /\ pos \in 0..size
    BY <2>1, LatticeReady DEF IInv
  <2>3. SearchInv'
    BY <1>0, <2>1, NoSearch DEF Read
  <2>4. LookupInv' /\ PlaceInv'
    BY <2>1, LookupOver DEF PlaceInv, Built
  <2>5. pos' \in pos..size
    BY <2>1, <2>2
  <2>6. /\ ~ GaveUp /\ ~ GaveUp' /\ Built /\ Built' /\ ~ Scanning /\ ~ Scanning' /\ ~ Marked'
    BY <2>1 DEF GaveUp, Built, Scanning, Marked, LookingUp
  <2>7. place # "initPartial" /\ place' # "initPartial"
        /\ place \in {"forwardbackward", "buildBestLattice"}
    BY <2>1
  <2> QED BY <2>1, <2>3, <2>4, <2>5, <2>6, <2>7, QuietStep
<1>8. CASE BuildBestLattice
  <2> DEFINE back == CHOOSE f : IsBack(f)
  <2>1. /\ place = "buildBestLattice" /\ place' = "buildAllLattice"
        /\ UNCHANGED <<sentence, constraint, pos, begin_nodes, end_nodes, cost, paths, prev>>
    BY <1>8 DEF BuildBestLattice, inputVars, listVars
  <2>2. isbest' = isbest \union ToSet(back[EOS]) /\ next' = NextAlong(back[EOS])
    BY <1>8 DEF BuildBestLattice, IsBack
  <2>3. IsBack(back)
    <3>1. \E f : IsBack(f)
      BY <2>1, BackExists DEF IInv
    <3> QED BY <3>1
  <2> HIDE DEF back
  <2>4. /\ back[EOS] \in Seq(Nodes) /\ back[EOS] # <<>>
        /\ \E s \in Chains(LastEnd) :
             /\ back[EOS] = Append(s, EOS) /\ cost[EOS] = CostOf(Append(s, EOS))
    BY <2>1, <2>3, BackChain DEF IInv
  <2>5. PICK s \in Chains(LastEnd) : back[EOS] = Append(s, EOS) /\ cost[EOS] = CostOf(Append(s, EOS))
    BY <2>4
  <2>6. Built /\ Built' /\ ~ Read
    BY <2>1 DEF Built, Read
  <2>7. LinksInv /\ isbest = {BOSNode}
    BY <2>1, PrevIs, LatticeReady DEF IInv
  <2>8. ToSet(back[EOS]) \subseteq Nodes /\ BOSNode \in ToSet(back[EOS])
    <3>1. ToSet(back[EOS]) \subseteq Nodes
      BY <2>4 DEF ToSet
    <3>2. s \in Seq(NodeRecords) /\ s # <<>> /\ s[1] = BOSNode
      BY <2>5 DEF Chains, IsChain
    <3>3. Append(s, EOS)[1] = BOSNode /\ 1 \in DOMAIN Append(s, EOS)
      BY <3>2
    <3> QED BY <2>5, <3>1, <3>3 DEF ToSet
  <2>9. isbest' = ToSet(Append(s, EOS)) /\ isbest' \subseteq Nodes
    BY <2>2, <2>5, <2>7, <2>8
  <2>10. /\ DOMAIN prev' = Nodes /\ DOMAIN next' = Nodes
         /\ \A n \in Nodes : prev'[n] \in Nodes \union {prev[n]} /\ next'[n] \in Nodes \union {next[n]}
    BY <2>1, <2>2, <2>4, <2>7, NextAlongIs DEF LinksInv
  <2>11. SearchInv'
    BY <1>0, <2>6, NoSearch
  <2>12. BestInv'
    <3>1. size' = size /\ EOS' = EOS
      BY <2>1 DEF size, EOS
    <3>2. LastEnd' = LastEnd
      <4>1. \A p : EndsAt(p)' = EndsAt(p)
        BY <2>1 DEF EndsAt
      <4> QED BY <3>1, <4>1 DEF LastEnd
    <3>3. IsChain(s, LastEnd) /\ s \in Seq(NodeRecords)
      BY <2>5 DEF Chains
    <3>4. IsChain(s, LastEnd)'
      BY <2>1, <3>1, <3>2, <3>3 DEF IsChain
    <3>5. s \in Chains(LastEnd)'
      BY <3>3, <3>4 DEF Chains
    <3> QED BY <2>1, <2>5, <2>9, <3>1, <3>5 DEF BestInv
  <2>13. place' \notin {"forwardbackward", "buildBestLattice"}
    BY <2>1
  <2> QED BY <2>1, <2>6, <2>9, <2>10, <2>11, <2>12, <2>13, LinkingStep
<1>9. CASE BuildAllLattice
  <2>1. /\ place = "buildAllLattice" /\ place' = "initNBest"
        /\ UNCHANGED <<sentence, constraint, pos, begin_nodes, end_nodes, cost, paths, isbest>>
        /\ \/ next' = NextAlong(AllMorphs) /\ prev' = PrevAlong(AllMorphs)
           \/ UNCHANGED <<next, prev>>
    BY <1>9 DEF BuildAllLattice, inputVars, listVars, markVars
  <2>2. Built /\ Built' /\ ~ Read /\ Marked /\ place # "initPartial"
    BY <2>1 DEF Built, Read, Marked
  <2>3. LinksInv
    BY <2>2, LatticeReady DEF IInv
  <2>4. /\ AllMorphs \in Seq(Nodes) /\ AllMorphs # <<>>
        /\ \A i \in 2..Len(AllMorphs) : AllMorphs[i] # AllMorphs[1]
    BY <2>2, AllMorphsIs DEF IInv
  <2>5. /\ DOMAIN prev' = Nodes /\ DOMAIN next' = Nodes /\ isbest' \subseteq Nodes
        /\ \A n \in Nodes : prev'[n] \in Nodes \union {prev[n]} /\ next'[n] \in Nodes \union {next[n]}
    BY <2>1, <2>3, <2>4, NextAlongIs, PrevAlongIs DEF LinksInv
  <2>6. SearchInv'
    BY <1>0, <2>2, NoSearch
  <2>7. BestInv'
    BY <2>1, <2>2, BestStays DEF IInv
  <2>8. place' \notin {"forwardbackward", "buildBestLattice"}
    BY <2>1
  <2> QED BY <2>1, <2>2, <2>5, <2>6, <2>7, <2>8, LinkingStep
<1> QED BY <1>1, <1>2, <1>3, <1>4, <1>5, <1>6, <1>7, <1>8, <1>9 DEF Analyze, AnalyzeStep

\* Every step of the N-best search keeps the invariant.
LEMMA SearchKeeps ==
  ASSUME IInv, InitNBest \/ CallNext \/ Search
  PROVE  IInv'
<1>0. /\ Built /\ Built' /\ ~ GaveUp /\ ~ GaveUp' /\ ~ Scanning /\ ~ Scanning' /\ Marked /\ PlaceInv'
      /\ place # "initPartial" /\ place' # "initPartial"
      /\ place' \notin {"forwardbackward", "buildBestLattice"}
      /\ LookupInv' /\ Read'
  <2>1. /\ place \in {"initNBest", "parsed", "searching", "result"}
        /\ place' \in {"parsed", "searching", "result", "exhausted"}
    BY DEF InitNBest, CallNext, Search, Expand, Find, Exhaust
  <2>2. LookupInv'
    BY <2>1, LookupOver
  <2> QED BY <2>1, <2>2 DEF Built, GaveUp, Scanning, LookingUp, Marked, PlaceInv, Read
<1>1. size \in Nat /\ pos \in 0..size /\ ListsInv /\ NodesInv /\ LinksInv /\ PathsInv /\ SearchInv
  BY <1>0, LatticeReady DEF IInv
<1>2. EOS \in Nodes /\ BOSNode \in Nodes /\ BOSNode.stat = "bos"
  BY <1>0, <1>1, EOSIs, EndNodes DEF IInv, NodesInv
<1>3. UNCHANGED <<sentence, constraint, begin_nodes, end_nodes, cost, paths, isbest>> /\ pos' = pos
  BY DEF InitNBest, CallNext, Search, Expand, Find, Exhaust, searchVars, inputVars, listVars, markVars
<1>4. Nodes' = Nodes /\ pos' \in pos..size
  BY <1>1, <1>3 DEF Nodes
<1>5. CASE UNCHANGED <<prev, next>> /\ SearchInv'
  BY <1>0, <1>3, <1>4, <1>5, QuietStep
<1>6. CASE InitNBest
  <2>1. UNCHANGED <<prev, next, results>>
        /\ agenda' \in {{}, {[chain |-> <<EOS>>, fx |-> 0, gx |-> 0]}}
    BY <1>6 DEF InitNBest
  <2>2. <<EOS>> \in Seq(Nodes) /\ <<EOS>> # <<>> /\ \A i \in 2..Len(<<EOS>>) : <<EOS>>[i] # BOSNode
    BY <1>2
  <2>3. \A e \in agenda' : e.chain = <<EOS>>
    BY <2>1
  <2>4. SearchInv'
    BY <1>0, <1>1, <1>4, <2>1, <2>2, <2>3 DEF SearchInv
  <2> QED BY <1>5, <2>1, <2>4
<1>7. CASE CallNext \/ Exhaust
  <2>1. UNCHANGED <<prev, next, agenda, results>>
    BY <1>7 DEF CallNext, Exhaust
  <2>2. SearchInv'
    BY <1>0, <1>1, <1>4, <2>1 DEF SearchInv
  <2> QED BY <1>5, <2>1, <2>2
<1>8. CASE Expand
  <2>1. UNCHANGED <<prev, next, results>>
    BY <1>8 DEF Expand
  <2>2. PICK top \in agenda :
          /\ Head(top.chain).stat # "bos"
          /\ agenda' = (agenda \ {top}) \union
               { Element(q, top) : q \in { p \in paths : p.rnode = Head(top.chain) } }
    BY <1>8 DEF Expand
  <2>3. /\ top.chain \in Seq(Nodes) /\ top.chain # <<>>
        /\ \A i \in 2..Len(top.chain) : top.chain[i] # BOSNode
    BY <1>1 DEF SearchInv
  <2>4. top.chain[1] # BOSNode
    BY <1>2, <2>2, <2>3
  <2>5. ASSUME NEW q \in paths
        PROVE  /\ Element(q, top).chain \in Seq(Nodes) /\ Element(q, top).chain # <<>>
               /\ \A i \in 2..Len(Element(q, top).chain) : Element(q, top).chain[i] # BOSNode
    <3>1. PICK l \in Nodes : l = q.lnode
      BY <1>1 DEF PathsInv
    <3>2. Element(q, top).chain = <<l>> \o top.chain
      BY <3>1 DEF Element
    <3> DEFINE c == <<l>> \o top.chain
    <3>3. /\ c \in Seq(Nodes) /\ c # <<>> /\ Len(c) = Len(top.chain) + 1 /\ Len(top.chain) \in Nat
          /\ \A j \in 1..Len(top.chain) : c[j + 1] = top.chain[j]
      BY <2>3
    <3>4. ASSUME NEW i \in 2..Len(c) PROVE c[i] # BOSNode
      <4>1. PICK j \in 1..Len(top.chain) : i = j + 1
        <5>1. i - 1 \in 1..Len(top.chain)
          BY <3>3
        <5> QED BY <5>1
      <4>2. top.chain[j] # BOSNode
        BY <2>3, <2>4
      <4> QED BY <3>3, <4>1, <4>2
    <3> QED BY <3>2, <3>3, <3>4
  <2>6. \A e \in agenda' : /\ e.chain \in Seq(Nodes) /\ e.chain # <<>>
                           /\ \A i \in 2..Len(e.chain) : e.chain[i] # BOSNode
    <3>1. \A e \in agenda' : e \in agenda \/ \E q \in paths : e = Element(q, top)
      BY <2>2
    <3> QED BY <1>1, <2>5, <3>1 DEF SearchInv
  <2>7. SearchInv'
    BY <1>0, <1>1, <1>4, <2>1, <2>6 DEF SearchInv
  <2> QED BY <1>5, <2>1, <2>7
<1>9. CASE Find
  <2>1. PICK top \in agenda :
          /\ agenda' = agenda \ {top} /\ results' = Append(results, top.chain)
          /\ LET linked == IF "ALL_MORPHS" \in request THEN AllMorphs ELSE top.chain
             IN  next' = NextAlong(linked) /\ prev' = PrevAlong(linked)
    BY <1>9 DEF Find
  <2>2. /\ top.chain \in Seq(Nodes) /\ top.chain # <<>>
        /\ \A i \in 2..Len(top.chain) : top.chain[i] # BOSNode
        /\ Head(top.chain) = top.chain[1]
    BY <1>1 DEF SearchInv
  <2>3. PICK c : c \in {AllMorphs, top.chain} /\ next' = NextAlong(c) /\ prev' = PrevAlong(c)
    BY <2>1
  <2>4. top.chain[1] = BOSNode
    <3>1. PICK t \in agenda : Head(t.chain).stat = "bos" /\ results' = Append(results, t.chain)
      BY <1>9 DEF Find
    <3>2. results \in Seq(Seq(Nodes)) /\ t.chain \in Seq(Nodes) /\ t.chain # <<>>
      BY <1>1 DEF SearchInv
    <3>3. t.chain = top.chain
      <4>1. \A a, b : Append(results, a) = Append(results, b) => a = b
        <5>1. \A a : Append(results, a)[Len(results) + 1] = a
          BY <3>2
        <5> QED BY <5>1
      <4> QED BY <2>1, <3>1, <4>1
    <3>4. top.chain[1] \in Nodes /\ top.chain[1].stat = "bos"
      BY <2>2, <3>1, <3>3
    <3> QED BY <1>1, <3>4, NodesAre
  <2>5. c \in Seq(Nodes) /\ c # <<>> /\ \A i \in 2..Len(c) : c[i] # c[1]
    BY <1>0, <2>2, <2>3, <2>4, AllMorphsIs DEF IInv
  <2>6. /\ DOMAIN prev' = Nodes /\ DOMAIN next' = Nodes /\ isbest' \subseteq Nodes
        /\ \A n \in Nodes : prev'[n] \in Nodes \union {prev[n]} /\ next'[n] \in Nodes \union {next[n]}
    BY <1>1, <1>3, <2>3, <2>5, NextAlongIs, PrevAlongIs DEF LinksInv
  <2>7. SearchInv'
    <3>1. results' \in Seq(Seq(Nodes))
      BY <1>1, <2>1, <2>2 DEF SearchInv
    <3>2. \A e \in agenda' : e \in agenda
      BY <2>1
    <3> QED BY <1>0, <1>1, <1>4, <3>1, <3>2 DEF SearchInv
  <2>8. BestInv'
    BY <1>0, <1>3, BestStays DEF IInv
  <2> QED BY <1>0, <1>3, <2>6, <2>7, <2>8, LinkingStep
<1> QED BY <1>6, <1>7, <1>8, <1>9 DEF Search

-----------------------------------------------------------------------------
(* The theorems *)

\* Stuttering keeps the invariant.
LEMMA StutterKeeps ==
  ASSUME IInv, UNCHANGED <<latticeVars, agenda, results>>
  PROVE  IInv'
<1>1. UNCHANGED <<sentence, request, constraint, place, pos, end, begin2, begin3, group_begin3,
                  cinfo, found, begin_nodes, end_nodes, cost, paths, prev, next, isbest,
                  agenda, results>>
  BY DEF latticeVars, inputVars, lookupVars, listVars, markVars
<1>2. /\ size' = size /\ Nodes' = Nodes /\ LookingUp' = LookingUp /\ Scanning' = Scanning
      /\ GaveUp' = GaveUp /\ Built' = Built /\ Read' = Read /\ Marked' = Marked /\ EOS' = EOS
  BY <1>1 DEF size, Nodes, LookingUp, Scanning, GaveUp, Built, Read, Marked, EOS
<1>3. PlaceInv' /\ StartInv' /\ TextInv' /\ LookupInv' /\ SearchInv'
  BY <1>1, <1>2 DEF IInv, PlaceInv, StartInv, TextInv, LookupInv, SearchInv
<1>4. /\ \A p : EndsAt(p)' = EndsAt(p)
      /\ \A q : Whole(q)' = Whole(q)
  BY <1>1, <1>2 DEF EndsAt, Whole
<1>5. LastEnd' = LastEnd
  BY <1>2, <1>4 DEF LastEnd
<1>6. \A n : LeftOf(n)' = LeftOf(n)
  BY <1>4, <1>5 DEF LeftOf
<1>7. \A l, n : CostThrough(l, n)' = CostThrough(l, n)
  BY <1>1 DEF CostThrough
<1>8. \A l, n : Linked(n, l)' = Linked(n, l)
  BY <1>1, <1>6, <1>7 DEF Linked
<1>9. LatticeInv'
  <2> SUFFICES ASSUME place # "initPartial"
               PROVE  (ListsInv /\ NodesInv /\ CostsInv /\ LinksInv /\ PrevInv /\ GaveUpInv /\ PathsInv)'
    BY <1>1 DEF LatticeInv
  <2>1. ListsInv /\ NodesInv /\ CostsInv /\ LinksInv /\ PrevInv /\ GaveUpInv /\ PathsInv
    BY DEF IInv, LatticeInv
  <2>2. ListsInv' /\ LinksInv' /\ PathsInv'
    BY <1>1, <1>2, <2>1 DEF ListsInv, LinksInv, PathsInv
  <2>3. NodesInv'
    BY <1>1, <1>2, <1>4, <2>1 DEF NodesInv
  <2>4. CostsInv'
    BY <1>1, <1>2, <1>8, <2>1 DEF CostsInv
  <2>5. PrevInv'
    <3>1. \A n : Linked(n, prev[n])' = Linked(n, prev[n])
      BY <1>1, <1>6, <1>7 DEF Linked
    <3> QED BY <1>1, <1>2, <2>1, <3>1 DEF PrevInv
  <2>6. GaveUpInv'
    BY <1>1, <1>2, <1>6, <1>7, <2>1 DEF GaveUpInv
  <2> QED BY <2>2, <2>3, <2>4, <2>5, <2>6
<1>10. BestInv'
  BY <1>1, <1>2, BestStays DEF IInv
<1> QED BY <1>3, <1>9, <1>10 DEF IInv

\* Every step keeps the invariant.
LEMMA StepKeeps ==
  ASSUME IInv, [Next]_vars PROVE IInv'
<1>1. CASE Analyze
  BY <1>1, AnalyzeKeeps
<1>2. CASE InitNBest \/ CallNext \/ Search
  BY <1>2, SearchKeeps
<1>3. CASE UNCHANGED vars
  <2>1. UNCHANGED <<latticeVars, agenda, results>>
    BY <1>3 DEF vars
  <2> QED BY <2>1, StutterKeeps
<1> QED BY <1>1, <1>2, <1>3 DEF Next

\* Every reachable state satisfies the invariant.
LEMMA InvariantHolds == Spec => []IInv
<1>1. Init => IInv
  BY InitHolds
<1>2. IInv /\ [Next]_vars => IInv'
  BY StepKeeps
<1> QED BY <1>1, <1>2, PTL DEF Spec

(* The types of the lattice, whatever the dictionaries, texts and          *)
(* constraints: every node connect has linked (viterbi.cpp 315-358) has a  *)
(* cost below the limit, is in the list of the position it ends at, and    *)
(* its prev and next are none or name such a node, as do the marked nodes  *)
(* and the results of the N-best search.                                   *)
THEOREM LatticeTypes == Spec => []TypeOK
<1>1. IInv => TypeOK
  BY TypesHold
<1> QED BY <1>1, InvariantHolds, PTL

(* viterbi and buildBestLattice (viterbi.cpp 227-238, 362-403): the nodes  *)
(* that parse marks, walking back from EOS along prev, are a cheapest of   *)
(* all the segmentations that lookup allows, and EOS carries its cost; and *)
(* parse gives up only where no way to some node stays below the limit.    *)
THEOREM BestPathIsBest == Spec => []BestPathOptimal
<1>1. IInv => BestPathOptimal
  BY BestIsOptimal DEF IInv
<1> QED BY <1>1, InvariantHolds, PTL

-----------------------------------------------------------------------------
(* The ends of a chain *)

\* One element more of a sequence.
LEMMA SubSeqLonger ==
  ASSUME NEW X, NEW s \in Seq(X), NEW k \in 1..Len(s), NEW m \in k..Len(s), m # Len(s)
  PROVE  /\ SubSeq(s, k, m) \in Seq(X) /\ SubSeq(s, k, m) # <<>>
         /\ Last(SubSeq(s, k, m)) = s[m]
         /\ SubSeq(s, k, m + 1) = Append(SubSeq(s, k, m), s[m + 1])
<1>1. /\ k \in Int /\ m \in Int /\ m + 1 \in 1..Len(s) /\ Len(s) \in Nat
      /\ k <= m /\ 1 <= k /\ m + 1 \in k..Len(s) /\ m + 1 - 1 = m
  OBVIOUS
<1>2. \A i \in k..m : s[i] \in X
  BY <1>1
<1>3. /\ SubSeq(s, k, m) \in Seq(X) /\ Len(SubSeq(s, k, m)) = m - k + 1
      /\ \A i \in 1..m - k + 1 : SubSeq(s, k, m)[i] = s[k + i - 1]
  BY <1>1, <1>2, SubSeqProperties
<1>4. SubSeq(s, k, m) # <<>> /\ Last(SubSeq(s, k, m)) = s[m]
  <2>1. m - k + 1 \in 1..m - k + 1 /\ k + (m - k + 1) - 1 = m
    BY <1>1
  <2> QED BY <1>3, <2>1 DEF Last
<1>5. SubSeq(s, k, m + 1) = SubSeq(s, k, m) \o <<s[m + 1]>>
  <2>1. SubSeq(s, k, m + 1) = SubSeq(s, k, m + 1 - 1) \o <<s[m + 1]>>
    BY <1>1, SubSeqRecursiveSecond
  <2> QED BY <1>1, <2>1
<1>6. s[m + 1] \in X
  BY <1>1
<1> QED BY <1>3, <1>4, <1>5, <1>6, AppendIsConcat

\* Links between nodes cost numbers, and so do chains.
LEMMA CostIsInt ==
  ASSUME NEW s \in Seq(NodeRecords), s # <<>>
  PROVE  CostOf(s) \in Int
<1>1. PICK run : /\ CostOf(s) = run[Len(s)] /\ run[1] = 0
                 /\ \A i \in 2..Len(s) : run[i] = run[i - 1] + LocalCost(s[i - 1], s[i])
  BY CostRun
<1>20. \A n \in NodeRecords : n.token \in NodeTokens
  BY DEF NodeRecords
<1>2. \A i \in 1..Len(s) : s[i].token \in NodeTokens
  BY <1>20
<1> DEFINE Good == { k \in Nat : k + 1 <= Len(s) => run[k + 1] \in Int }
<1>3. 0 \in Good
  BY <1>1
<1>4. ASSUME NEW k \in Nat, k \in Good PROVE k + 1 \in Good
  <2> SUFFICES ASSUME k + 1 + 1 <= Len(s) PROVE run[k + 1 + 1] \in Int
    OBVIOUS
  <2>1. k + 1 \in 1..Len(s) /\ k + 1 + 1 \in 2..Len(s) /\ k + 1 + 1 \in 1..Len(s)
        /\ k + 1 + 1 - 1 = k + 1
    OBVIOUS
  <2>2. run[k + 1] \in Int
    BY <1>4, <2>1
  <2>3. LocalCost(s[k + 1], s[k + 1 + 1]) \in Int
    BY <1>2, <2>1, LocalCostType
  <2>4. run[k + 1 + 1] = run[k + 1] + LocalCost(s[k + 1], s[k + 1 + 1])
    BY <1>1, <2>1
  <2> QED BY <2>2, <2>3, <2>4
<1> HIDE DEF Good
<1>5. Len(s) - 1 \in Nat /\ Len(s) - 1 + 1 = Len(s)
  OBVIOUS
<1>6. Len(s) - 1 \in Good
  BY <1>3, <1>4, <1>5, NatSetInduction
<1> QED BY <1>1, <1>5, <1>6 DEF Good

\* What a chain costs up to a node and from there on is what it costs.
LEMMA CostSplits ==
  ASSUME NEW s \in Seq(NodeRecords), NEW k \in 1..Len(s)
  PROVE  /\ CostOf(SubSeq(s, 1, k)) \in Int /\ CostOf(SubSeq(s, k, Len(s))) \in Int
         /\ CostOf(s) = CostOf(SubSeq(s, 1, k)) + CostOf(SubSeq(s, k, Len(s)))
<1>0. Len(s) \in Nat /\ k \in Nat /\ 1 \in 1..Len(s) /\ Len(s) - k \in Nat
  OBVIOUS
<1>1. ASSUME NEW a \in 1..Len(s), NEW b \in a..Len(s) PROVE CostOf(SubSeq(s, a, b)) \in Int
  <2>1. \A i \in a..b : s[i] \in NodeRecords
    OBVIOUS
  <2>2. SubSeq(s, a, b) \in Seq(NodeRecords) /\ Len(SubSeq(s, a, b)) = b - a + 1
    BY <2>1, SubSeqProperties
  <2>3. SubSeq(s, a, b) # <<>>
    BY <2>2
  <2> QED BY <2>2, <2>3, CostIsInt
<1> DEFINE Good == { j \in Nat : k + j <= Len(s) =>
             CostOf(SubSeq(s, 1, k + j)) = CostOf(SubSeq(s, 1, k)) + CostOf(SubSeq(s, k, k + j)) }
<1>2. 0 \in Good
  <2>1. SubSeq(s, k, k + 0) = <<s[k]>>
    <3>1. \A i \in k..k : s[i] \in NodeRecords
      OBVIOUS
    <3>2. /\ SubSeq(s, k, k) \in Seq(NodeRecords) /\ Len(SubSeq(s, k, k)) = 1
          /\ SubSeq(s, k, k)[1] = s[k]
      BY <1>0, <3>1, SubSeqProperties
    <3>3. \A w \in Seq(NodeRecords) : Len(w) = 1 => w = <<w[1]>>
      OBVIOUS
    <3>4. SubSeq(s, k, k) = <<s[k]>>
      BY <3>2, <3>3, Zenon
    <3>5. k + 0 = k
      BY <1>0
    <3> QED BY <3>4, <3>5
  <2>2. CostOf(SubSeq(s, k, k + 0)) = 0
    BY <2>1, CostOfOne
  <2>3. CostOf(SubSeq(s, 1, k)) \in Int
    BY <1>0, <1>1
  <2> QED BY <2>2, <2>3
<1>3. ASSUME NEW j \in Nat, j \in Good PROVE j + 1 \in Good
  <2> SUFFICES ASSUME k + (j + 1) <= Len(s)
               PROVE  CostOf(SubSeq(s, 1, k + (j + 1)))
                        = CostOf(SubSeq(s, 1, k)) + CostOf(SubSeq(s, k, k + (j + 1)))
    OBVIOUS
  <2>1. PICK m \in k..Len(s) : m = k + j /\ m # Len(s)
    <3>1. k + j \in k..Len(s) /\ k + j # Len(s)
      OBVIOUS
    <3> QED BY <3>1
  <2>2. m \in 1..Len(s) /\ m + 1 \in 1..Len(s) /\ k + (j + 1) = m + 1
    BY <2>1
  <2>3. CostOf(SubSeq(s, 1, m)) = CostOf(SubSeq(s, 1, k)) + CostOf(SubSeq(s, k, m))
    BY <1>3, <2>1, <2>2
  <2>4. CostOf(SubSeq(s, k, m + 1)) = CostOf(SubSeq(s, k, m)) + LocalCost(s[m], s[m + 1])
    <3>1. /\ SubSeq(s, k, m) \in Seq(NodeRecords) /\ SubSeq(s, k, m) # <<>>
          /\ Last(SubSeq(s, k, m)) = s[m]
          /\ SubSeq(s, k, m + 1) = Append(SubSeq(s, k, m), s[m + 1])
      BY <2>1, SubSeqLonger
    <3>2. s[m + 1] \in NodeRecords
      BY <2>2
    <3> QED BY <3>1, <3>2, CostOfLonger
  <2>5. CostOf(SubSeq(s, 1, m + 1)) = CostOf(SubSeq(s, 1, m)) + LocalCost(s[m], s[m + 1])
    <3>0. m \in 1..Len(s) /\ m # Len(s)
      BY <2>1, <2>2
    <3>1. /\ SubSeq(s, 1, m) \in Seq(NodeRecords) /\ SubSeq(s, 1, m) # <<>>
          /\ Last(SubSeq(s, 1, m)) = s[m]
          /\ SubSeq(s, 1, m + 1) = Append(SubSeq(s, 1, m), s[m + 1])
      BY <1>0, <3>0, SubSeqLonger
    <3>2. s[m + 1] \in NodeRecords
      BY <2>2
    <3> QED BY <3>1, <3>2, CostOfLonger
  <2>6. LocalCost(s[m], s[m + 1]) \in Int
    <3>0. \A n \in NodeRecords : n.token \in NodeTokens
      BY DEF NodeRecords
    <3>1. s[m].token \in NodeTokens /\ s[m + 1].token \in NodeTokens
      BY <2>2, <3>0
    <3> QED BY <3>1, LocalCostType
  <2>7. CostOf(SubSeq(s, 1, k)) \in Int /\ CostOf(SubSeq(s, k, m)) \in Int
    BY <1>0, <1>1, <2>1
  <2> QED BY <2>2, <2>3, <2>4, <2>5, <2>6, <2>7
<1> HIDE DEF Good
<1>4. Len(s) - k \in Good
  BY <1>0, <1>2, <1>3, NatSetInduction
<1>5. CostOf(SubSeq(s, 1, Len(s))) = CostOf(SubSeq(s, 1, k)) + CostOf(SubSeq(s, k, Len(s)))
  <2>1. k + (Len(s) - k) = Len(s)
    BY <1>0
  <2> QED BY <1>4, <2>1 DEF Good
<1>6. SubSeq(s, 1, Len(s)) = s
  BY SubSeqFull
<1>7. k \in 1..Len(s) /\ Len(s) \in k..Len(s)
  BY <1>0
<1> QED BY <1>0, <1>1, <1>5, <1>6, <1>7

\* a chain along the links of the lattice that ends with EOS
IsEnding(c) ==
  /\ c \in Seq(Nodes) /\ c # <<>> /\ c[Len(c)] = EOS
  /\ \A i \in 2..Len(c) : c[i - 1] \in LeftOf(c[i]) /\ c[i] # BOSNode

\* c is what s ends with
IsTail(c, s) == \E k \in 1..Len(s) : c = SubSeq(s, k, Len(s))

\* A node of an ending begins where the one in front of it ends.
LEMMA EndingLinks ==
  ASSUME TextInv, LatticeInv, Built, NEW c, IsEnding(c), NEW i \in 2..Len(c)
  PROVE  /\ c[i - 1] \in Nodes /\ c[i - 1].stat # "eos" /\ EndOf(c[i - 1]) \in 0..size
         /\ i = Len(c) => EndOf(c[i - 1]) = LastEnd
         /\ i # Len(c) => /\ BeginOf(c[i]) \in 0..size-1 /\ EndOf(c[i - 1]) = BeginOf(c[i])
                          /\ c[i] \in ToSet(begin_nodes[BeginOf(c[i])])
<1>0. /\ size \in Nat /\ ListsInv /\ NodesInv /\ LastEnd \in 0..size
      /\ EOS.stat = "eos" /\ LeftOf(EOS) = EndsAt(LastEnd)
      /\ \A n \in Nodes : n.stat = "eos" <=> n = EOS
  BY LatticeReady, LastEndIs, EOSIs DEF Built
<1>1. /\ i \in 1..Len(c) /\ i - 1 \in 1..Len(c) /\ c \in Seq(Nodes) /\ c[Len(c)] = EOS
      /\ c[i - 1] \in LeftOf(c[i]) /\ c[i] # BOSNode
  BY DEF IsEnding
<1>2. PICK l \in Nodes, n \in Nodes : l = c[i - 1] /\ n = c[i]
  BY <1>1
<1>3. l \in LeftOf(n) /\ n # BOSNode
  BY <1>1, <1>2
<1>4. \A p \in 0..size : l \in EndsAt(p) => l.stat # "eos" /\ EndOf(l) = p
  <2> TAKE p \in 0..size
  <2>1. p \in 0..size+3
    BY <1>0
  <2> QED BY <1>0, <2>1 DEF NodesInv
<1>5. CASE n = EOS
  <2>1. l \in EndsAt(LastEnd)
    BY <1>0, <1>3, <1>5
  <2>2. l.stat # "eos" /\ EndOf(l) = LastEnd
    BY <1>0, <1>4, <2>1
  <2>3. i = Len(c)
    <3>1. CASE i # Len(c)
      <4>1. PICK j \in 2..Len(c) : j = i + 1
        <5>1. i + 1 \in 2..Len(c)
          BY <1>1, <3>1
        <5> QED BY <5>1
      <4>2. c[j - 1] \in LeftOf(c[j]) /\ c[j - 1] = n
        <5>1. j - 1 = i
          BY <4>1
        <5> QED BY <1>2, <5>1 DEF IsEnding
      <4>3. n.stat # "eos"
        BY <4>2 DEF LeftOf, EndsAt
      <4> QED BY <1>0, <1>5, <4>3
    <3> QED BY <3>1
  <2> QED BY <1>0, <1>2, <2>2, <2>3
<1>6. CASE n # EOS
  <2>1. n.stat # "eos"
    BY <1>0, <1>6
  <2>2. n \notin {BOSNode, EOSNode(size)}
    BY <1>3, <1>6, EOSIs
  <2>3. BeginOf(n) \in 0..size-1 /\ n \in ToSet(begin_nodes[BeginOf(n)])
    BY <1>0, <2>2, NodesAre
  <2>4. PICK b \in 0..size-1 : b = BeginOf(n)
    BY <2>3
  <2>5. b \in 0..size
    BY <1>0
  <2>6. l \in EndsAt(b)
    BY <1>3, <2>1, <2>4 DEF LeftOf
  <2>7. l.stat # "eos" /\ EndOf(l) = b
    BY <1>4, <2>5, <2>6
  <2>8. i # Len(c)
    BY <1>1, <1>2, <1>6
  <2> QED BY <1>2, <2>3, <2>4, <2>5, <2>7, <2>8
<1> QED BY <1>5, <1>6

\* An ending that begins at BOS is a chain as far as any of its nodes.
LEMMA EndingChains ==
  ASSUME TextInv, LatticeInv, Built, NEW c, IsEnding(c), c[1] = BOSNode,
         NEW k \in 1..Len(c), k # Len(c)
  PROVE  /\ SubSeq(c, 1, k) \in Chains(EndOf(c[k])) /\ Last(SubSeq(c, 1, k)) = c[k]
         /\ c[k] \in Nodes /\ EndOf(c[k]) \in 0..size
         /\ k = Len(c) - 1 => EndOf(c[k]) = LastEnd
<1>0. /\ Len(c) \in Nat /\ c \in Seq(Nodes) /\ c # <<>> /\ Nodes \subseteq NodeRecords
      /\ k \in Nat /\ k + 1 \in 2..Len(c) /\ k + 1 - 1 = k /\ 1 \in 1..Len(c)
  <2>1. Nodes \subseteq NodeRecords
    BY LatticeReady, NodesAre DEF Built
  <2>2. c \in Seq(Nodes) /\ c # <<>>
    BY DEF IsEnding
  <2> QED BY <2>1, <2>2
<1>1. /\ c[k] \in Nodes /\ EndOf(c[k]) \in 0..size
      /\ k + 1 = Len(c) => EndOf(c[k]) = LastEnd
  <2>1. /\ c[k + 1 - 1] \in Nodes /\ EndOf(c[k + 1 - 1]) \in 0..size
        /\ k + 1 = Len(c) => EndOf(c[k + 1 - 1]) = LastEnd
    BY <1>0, EndingLinks
  <2> QED BY <1>0, <2>1
<1> DEFINE u == SubSeq(c, 1, k)
<1>2. u \in Seq(NodeRecords) /\ Len(u) = k /\ \A i \in 1..k : u[i] = c[i]
  <2>1. \A i \in 1..k : c[i] \in NodeRecords
    BY <1>0
  <2>2. /\ u \in Seq(NodeRecords) /\ Len(u) = IF 1 <= k THEN k - 1 + 1 ELSE 0
        /\ \A i \in 1..k - 1 + 1 : u[i] = c[1 + i - 1]
    BY <1>0, <2>1, SubSeqProperties
  <2>3. k - 1 + 1 = k /\ 1 <= k /\ \A i \in 1..k : 1 + i - 1 = i
    BY <1>0
  <2> QED BY <2>2, <2>3
<1> HIDE DEF u
<1>3. u # <<>> /\ u[1] = BOSNode /\ u[Len(u)] = c[k]
  BY <1>0, <1>2
<1>4. ASSUME NEW i \in 2..Len(u)
      PROVE  /\ BeginOf(u[i]) \in 0..size-1 /\ EndOf(u[i - 1]) = BeginOf(u[i])
             /\ u[i] \in ToSet(begin_nodes[BeginOf(u[i])])
  <2>1. i \in 2..Len(c) /\ i # Len(c) /\ i \in 1..k /\ i - 1 \in 1..k
    BY <1>0, <1>2
  <2>2. /\ BeginOf(c[i]) \in 0..size-1 /\ EndOf(c[i - 1]) = BeginOf(c[i])
        /\ c[i] \in ToSet(begin_nodes[BeginOf(c[i])])
    BY <2>1, EndingLinks
  <2>3. u[i] = c[i] /\ u[i - 1] = c[i - 1]
    BY <1>2, <2>1
  <2> QED BY <2>2, <2>3
<1>5. u \in Chains(EndOf(c[k]))
  BY <1>2, <1>3, <1>4 DEF IsChain, Chains
<1>6. Last(u) = c[k]
  BY <1>3 DEF Last
<1>7. k = Len(c) - 1 => k + 1 = Len(c)
  <2>1. \A a, b \in Nat : a = b - 1 => a + 1 = b
    OBVIOUS
  <2> QED BY <1>0, <2>1, Zenon
<1> QED BY <1>1, <1>5, <1>6, <1>7 DEF u

\* The segmentations are the endings that begin at BOS.
LEMMA SegmentationsEnd ==
  ASSUME TextInv, LatticeInv, Built, NEW s
  PROVE  s \in Segmentations <=> IsEnding(s) /\ s[1] = BOSNode
<1>0. /\ size \in Nat /\ ListsInv /\ NodesInv /\ LastEnd \in 0..size
      /\ Segmentations = { Append(t, EOS) : t \in Chains(LastEnd) }
  <2>1. \A q \in 0..size-1 : Whole(q)
    BY DEF Built, Whole, GaveUp
  <2>2. place # "initPartial"
    BY DEF Built
  <2> QED BY <2>1, <2>2, LatticeReady, SegmentationsIs
<1>1. /\ EOS.stat = "eos" /\ LeftOf(EOS) = EndsAt(LastEnd) /\ EOS \in Nodes /\ EOS # BOSNode
      /\ \A n \in Nodes : n.stat = "eos" <=> n = EOS
  BY EOSIs
<1>2. ASSUME NEW t \in Chains(LastEnd), s = Append(t, EOS) PROVE IsEnding(s) /\ s[1] = BOSNode
  <2>1. /\ t \in Seq(NodeRecords) /\ t # <<>> /\ t[1] = BOSNode /\ EndOf(t[Len(t)]) = LastEnd
        /\ \A i \in 2..Len(t) : /\ BeginOf(t[i]) \in 0..size-1 /\ EndOf(t[i - 1]) = BeginOf(t[i])
                                /\ t[i] \in ToSet(begin_nodes[BeginOf(t[i])])
    BY DEF Chains, IsChain
  <2>2. Len(t) \in Nat /\ Len(t) # 0 /\ Len(t) \in 1..Len(t) /\ Len(t) + 1 - 1 = Len(t)
    BY <2>1
  <2>3. ASSUME NEW i \in 1..Len(t) PROVE t[i] \in Nodes /\ t[i].stat # "eos"
    <3>1. CASE i = 1
      BY <1>0, <2>1, <3>1, EndNodes DEF NodesInv
    <3>2. CASE i # 1
      <4>0. i \in 2..Len(t)
        BY <3>2
      <4>1. PICK q \in 0..size-1 : q = BeginOf(t[i]) /\ t[i] \in ToSet(begin_nodes[q])
        BY <2>1, <4>0
      <4>2. PICK n : n = t[i] /\ n \in ToSet(begin_nodes[q])
        BY <4>1
      <4>3. n.stat # "eos"
        BY <1>0, <4>2, FoundAre
      <4>4. n \in Nodes
        BY <1>0, <4>2 DEF NodesInv, Whole, Built, GaveUp
      <4> QED BY <4>2, <4>3, <4>4
    <3> QED BY <3>1, <3>2
  <2>4. ASSUME NEW l \in Nodes, l.stat # "eos", EndOf(l) \in 0..size PROVE l \in EndsAt(EndOf(l))
    <3>1. PICK p \in 0..size : p = EndOf(l)
      BY <2>4
    <3>2. p \in 0..size+3
      BY <1>0
    <3> QED BY <1>0, <2>4, <3>1, <3>2 DEF NodesInv
  <2>5. /\ Len(s) = Len(t) + 1 /\ s[Len(s)] = EOS /\ \A i \in 1..Len(t) : s[i] = t[i]
        /\ s # <<>>
    BY <1>2, <2>1
  <2>6. s \in Seq(Nodes)
    <3>1. \A i \in 1..Len(t) : t[i] \in Nodes
      BY <2>3
    <3>2. t \in Seq(Nodes)
      BY <2>1, <3>1
    <3> QED BY <1>1, <1>2, <3>2
  <2>7. ASSUME NEW i \in 2..Len(t)
        PROVE  t[i - 1] \in LeftOf(t[i]) /\ t[i] # BOSNode
    <3>1. i \in 1..Len(t) /\ i - 1 \in 1..Len(t)
      OBVIOUS
    <3>2. PICK l \in Nodes, n \in Nodes : l = t[i - 1] /\ n = t[i] /\ l.stat # "eos" /\ n.stat # "eos"
      BY <2>3, <3>1
    <3>3. PICK b \in 0..size-1 : b = BeginOf(n) /\ EndOf(l) = b /\ n \in ToSet(begin_nodes[b])
      BY <2>1, <3>2
    <3>4. l \in EndsAt(b)
      <4>1. b \in 0..size
        BY <1>0
      <4> QED BY <2>4, <3>2, <3>3, <4>1
    <3>5. LeftOf(n) = EndsAt(b)
      BY <3>2, <3>3 DEF LeftOf
    <3>6. n # BOSNode
      BY <1>0, <3>3, FoundAre
    <3> QED BY <3>2, <3>4, <3>5, <3>6
  <2>8. t[Len(t)] \in LeftOf(EOS)
    <3>1. t[Len(t)] \in Nodes /\ t[Len(t)].stat # "eos" /\ EndOf(t[Len(t)]) = LastEnd
      BY <2>1, <2>2, <2>3
    <3> QED BY <1>0, <1>1, <2>4, <3>1
  <2>9. ASSUME NEW i \in 2..Len(s) PROVE s[i - 1] \in LeftOf(s[i]) /\ s[i] # BOSNode
    <3>1. CASE i = Len(s)
      <4>1. i - 1 = Len(t) /\ s[i - 1] = t[Len(t)] /\ s[i] = EOS
        BY <2>2, <2>5, <3>1
      <4> QED BY <1>1, <2>8, <4>1
    <3>2. CASE i # Len(s)
      <4>1. i \in 2..Len(t) /\ s[i] = t[i] /\ s[i - 1] = t[i - 1]
        BY <2>2, <2>5, <3>2
      <4> QED BY <2>7, <4>1
    <3> QED BY <3>1, <3>2
  <2>10. s[1] = BOSNode
    BY <2>1, <2>2, <2>5
  <2> QED BY <2>5, <2>6, <2>9, <2>10 DEF IsEnding
<1>3. ASSUME IsEnding(s), s[1] = BOSNode PROVE s \in Segmentations
  <2>1. s \in Seq(Nodes) /\ s # <<>> /\ s[Len(s)] = EOS /\ Len(s) \in Nat /\ Len(s) # 0
    BY <1>3 DEF IsEnding
  <2>2. Len(s) # 1
    BY <1>1, <1>3, <2>1
  <2>3. PICK k \in 1..Len(s) : k = Len(s) - 1 /\ k # Len(s) /\ k + 1 = Len(s) /\ 1 \in 1..Len(s)
    <3>1. /\ Len(s) - 1 \in 1..Len(s) /\ Len(s) - 1 # Len(s) /\ Len(s) - 1 + 1 = Len(s)
          /\ 1 \in 1..Len(s)
      <4>1. \A m \in Nat : m # 0 /\ m # 1 =>
              m - 1 \in 1..m /\ m - 1 # m /\ m - 1 + 1 = m /\ 1 \in 1..m
        OBVIOUS
      <4> QED BY <2>1, <2>2, <4>1, Zenon
    <3> QED BY <3>1
  <2>4. SubSeq(s, 1, k) \in Chains(EndOf(s[k])) /\ EndOf(s[k]) = LastEnd
    BY <1>3, <2>3, EndingChains
  <2>5. s = Append(SubSeq(s, 1, k), EOS)
    <3>1. k \in 1..Len(s)
      OBVIOUS
    <3>2. SubSeq(s, 1, k + 1) = Append(SubSeq(s, 1, k), s[k + 1])
      BY <2>1, <2>3, SubSeqLonger
    <3>3. SubSeq(s, 1, Len(s)) = s
      BY <2>1, SubSeqFull
    <3> QED BY <2>1, <2>3, <3>2, <3>3
  <2> QED BY <1>0, <2>4, <2>5
<1> QED BY <1>0, <1>2, <1>3

\* No way to a node of a segmentation costs less than the node.
LEMMA NodesCostLeast ==
  ASSUME TextInv, LatticeInv, Built, NEW s \in Segmentations, NEW k \in 1..Len(s), k # Len(s)
  PROVE  /\ cost[s[k]] \in Int /\ CostOf(SubSeq(s, k, Len(s))) \in Int /\ CostOf(s) \in Int
         /\ cost[s[k]] + CostOf(SubSeq(s, k, Len(s))) <= CostOf(s)
<1>1. IsEnding(s) /\ s[1] = BOSNode
  BY SegmentationsEnd
<1>2. /\ SubSeq(s, 1, k) \in Chains(EndOf(s[k])) /\ Last(SubSeq(s, 1, k)) = s[k]
      /\ s[k] \in Nodes /\ EndOf(s[k]) \in 0..size
  BY <1>1, EndingChains
<1>3. PICK p \in 0..size : p = EndOf(s[k])
  BY <1>2
<1>4. place # "initPartial" /\ size \in Nat /\ NodesInv /\ CostsInv
  BY LatticeReady DEF Built
<1>5. \A q \in 0..p-1 : Whole(q)
  BY DEF Built, Whole, GaveUp
<1>6. cost[s[k]] <= CostOf(SubSeq(s, 1, k))
  <2>1. SubSeq(s, 1, k) \in Chains(p)
    BY <1>2, <1>3
  <2>2. cost[Last(SubSeq(s, 1, k))] <= CostOf(SubSeq(s, 1, k))
    BY <1>4, <1>5, <2>1, ChainsCostMore
  <2> QED BY <1>2, <2>2
<1>7. s \in Seq(NodeRecords)
  <2>1. Nodes \subseteq NodeRecords
    BY <1>4, LatticeReady, NodesAre
  <2> QED BY <1>1, <2>1 DEF IsEnding
<1>8. /\ CostOf(SubSeq(s, 1, k)) \in Int /\ CostOf(SubSeq(s, k, Len(s))) \in Int
      /\ CostOf(s) = CostOf(SubSeq(s, 1, k)) + CostOf(SubSeq(s, k, Len(s)))
  BY <1>7, CostSplits
<1>9. cost[s[k]] \in Int
  BY <1>2, <1>4 DEF CostsInv
<1> QED BY <1>6, <1>8, <1>9

\* The place in a sequence where what it ends with begins.
LEMMA TailPlace ==
  ASSUME NEW X, NEW s \in Seq(X), NEW c, IsTail(c, s)
  PROVE  \E k \in 1..Len(s) : /\ c = SubSeq(s, k, Len(s)) /\ c \in Seq(X) /\ c # <<>>
                              /\ Len(c) = Len(s) - k + 1 /\ c[1] = s[k]
<1>1. PICK k \in 1..Len(s) : c = SubSeq(s, k, Len(s))
  BY DEF IsTail
<1>2. k \in Int /\ Len(s) \in Nat /\ k <= Len(s) /\ \A i \in k..Len(s) : s[i] \in X
  OBVIOUS
<1>3. /\ c \in Seq(X) /\ Len(c) = Len(s) - k + 1
      /\ \A i \in 1..Len(s) - k + 1 : c[i] = s[k + i - 1]
  BY <1>1, <1>2, SubSeqProperties
<1>4. 1 \in 1..Len(s) - k + 1 /\ k + 1 - 1 = k
  BY <1>2
<1>5. c # <<>> /\ c[1] = s[k]
  BY <1>3, <1>4
<1> QED BY <1>1, <1>3, <1>5

\* With one node more in front it is still what s ends with if s goes on so.
LEMMA TailGrows ==
  ASSUME NEW X, NEW s \in Seq(X), NEW k \in 1..Len(s), NEW l \in X
  PROVE  LET c == SubSeq(s, k, Len(s))
         IN  IsTail(<<l>> \o c, s) <=> k # 1 /\ l = s[k - 1]
<1> DEFINE n == Len(s)
           c == SubSeq(s, k, n)
           d == <<l>> \o c
<1>0. n \in Nat /\ k \in Nat /\ 1 <= k /\ k <= n /\ n \in k..n /\ n \in 1..n
  OBVIOUS
<1>1. c \in Seq(X) /\ Len(c) = n - k + 1
  <2>1. \A i \in k..n : s[i] \in X
    OBVIOUS
  <2> QED BY <1>0, <2>1, SubSeqProperties
<1>2. d \in Seq(X) /\ Len(d) = n - k + 2 /\ d[1] = l
  BY <1>0, <1>1
<1>3. ASSUME IsTail(d, s) PROVE k # 1 /\ l = s[k - 1]
  <2> HIDE DEF d
  <2>1. PICK j \in 1..n : Len(d) = n - j + 1 /\ d[1] = s[j]
    BY <1>3, TailPlace
  <2>2. j = k - 1
    BY <1>0, <1>2, <2>1
  <2> QED BY <1>2, <2>1, <2>2
<1>4. ASSUME k # 1, l = s[k - 1] PROVE IsTail(d, s)
  <2>1. PICK j \in 1..n : j = k - 1 /\ n \in j..n /\ j + 1 = k
    <3>1. k - 1 \in 1..n /\ n \in k - 1..n /\ k - 1 + 1 = k
      BY <1>0, <1>4
    <3> QED BY <3>1
  <2>2. SubSeq(s, j, n) = <<s[j]>> \o SubSeq(s, j + 1, n)
    BY <2>1, SubSeqRecursiveFirst
  <2>3. SubSeq(s, j, n) = d
    BY <1>4, <2>1, <2>2
  <2> QED BY <2>1, <2>3 DEF IsTail
<1> QED BY <1>3, <1>4

\* What a longer tail ends with is a tail.
LEMMA TailShrinks ==
  ASSUME NEW X, NEW s \in Seq(X), NEW c \in Seq(X), c # <<>>, NEW l \in X, IsTail(<<l>> \o c, s)
  PROVE  IsTail(c, s)
<1> DEFINE d == <<l>> \o c
           n == Len(s)
<1>0. Len(c) \in Nat /\ Len(c) # 0 /\ Len(d) = Len(c) + 1 /\ d \in Seq(X) /\ n \in Nat
  OBVIOUS
<1>2. d[1] = l /\ IsTail(d, s)
  OBVIOUS
<1> HIDE DEF d
<1>10. \E k \in 1..Len(s) : /\ d = SubSeq(s, k, Len(s)) /\ d \in Seq(X) /\ d # <<>>
                            /\ Len(d) = Len(s) - k + 1 /\ d[1] = s[k]
  BY <1>2, TailPlace, Zenon
<1>1. PICK k \in 1..n : d = SubSeq(s, k, n) /\ Len(d) = n - k + 1 /\ d[1] = s[k]
  BY <1>10
<1>3. k + 1 \in 1..n /\ n \in k..n
  BY <1>0, <1>1
<1>4. d = <<l>> \o SubSeq(s, k + 1, n)
  <2>1. SubSeq(s, k, n) = <<s[k]>> \o SubSeq(s, k + 1, n)
    BY <1>3, SubSeqRecursiveFirst
  <2> QED BY <1>1, <1>2, <2>1
<1>5. SubSeq(s, k + 1, n) \in Seq(X) /\ <<l>> \in Seq(X)
  <2>1. \A i \in k + 1..n : s[i] \in X
    OBVIOUS
  <2> QED BY <1>0, <1>3, <2>1, SubSeqProperties
<1>6. c = SubSeq(s, k + 1, n)
  <2>1. \A a, b \in Seq(X) : <<l>> \o a = <<l>> \o b => a = b
    BY <1>5, ConcatSimplifications
  <2> QED BY <1>4, <1>5, <2>1 DEF d
<1> QED BY <1>3, <1>6 DEF IsTail

-----------------------------------------------------------------------------
(* The search *)

\* an element is an ending with its cost, and its estimate is that of its node
AgendaInv ==
  \A e \in agenda :
    /\ IsEnding(e.chain) /\ e.gx = CostOf(e.chain)
    /\ IF e.chain = <<EOS>> THEN agenda = {e} ELSE e.fx = cost[Head(e.chain)] + e.gx

\* a segmentation is a result, or just one element is what it ends with
Pending(s) ==
  IF s \in ToSet(results) THEN \A e \in agenda : ~ IsTail(e.chain, s)
  ELSE \E e \in agenda : IsTail(e.chain, s) /\ \A f \in agenda : IsTail(f.chain, s) => f = e

ResultsInv ==
  /\ place \in {"searching", "result", "exhausted"} => "NBEST" \in request
  /\ Read => ToSet(results) \subseteq Segmentations
  /\ place = "exhausted" => agenda = {}
PendingInv == Read /\ "NBEST" \in request => \A s \in Segmentations : Pending(s)

SInv == IInv /\ FullPaths /\ AgendaInv /\ ResultsInv /\ PendingInv

\* The lattice of a text is the same as long as its lists and its costs are.
LEMMA StructureStays ==
  ASSUME UNCHANGED <<sentence, begin_nodes, end_nodes, cost>>
  PROVE  /\ size' = size /\ Nodes' = Nodes /\ EOS' = EOS /\ Segmentations' = Segmentations
         /\ AllPaths' = AllPaths
         /\ \A n : LeftOf(n)' = LeftOf(n)
         /\ \A c : IsEnding(c) => IsEnding(c)'
<1>1. size' = size /\ Nodes' = Nodes
  BY DEF size, Nodes
<1>2. EOS' = EOS /\ BOS' = BOS
  BY <1>1 DEF EOS, BOS
<1>3. SegmentationsTo' = SegmentationsTo
  BY <1>1, <1>2 DEF SegmentationsTo
<1>4. Segmentations' = Segmentations
  BY <1>1, <1>2, <1>3 DEF Segmentations
<1>5. \A p : EndsAt(p)' = EndsAt(p)
  BY DEF EndsAt
<1>6. LastEnd' = LastEnd
  BY <1>1, <1>5 DEF LastEnd
<1>7. \A n : LeftOf(n)' = LeftOf(n)
  BY <1>5, <1>6 DEF LeftOf
<1>8. AllPaths' = AllPaths
  BY <1>1, <1>7 DEF AllPaths
<1>9. \A c : IsEnding(c) => IsEnding(c)'
  BY <1>1, <1>2, <1>7 DEF IsEnding
<1> QED BY <1>1, <1>2, <1>4, <1>7, <1>8, <1>9

\* The paths stay all there are.
LEMMA PathsStay ==
  ASSUME FullPaths, UNCHANGED <<sentence, request, begin_nodes, end_nodes, cost, paths>>,
         Scanning' \/ Built' => Scanning \/ Built
  PROVE  FullPaths'
<1>1. AllPaths' = AllPaths
  BY StructureStays
<1> QED BY <1>1 DEF FullPaths, IsAllPath

\* Nothing is searched before the lattice is read.
LEMMA NothingPending ==
  ASSUME ~ Read, SearchInv
  PROVE  AgendaInv /\ ResultsInv /\ PendingInv
BY DEF Read, SearchInv, AgendaInv, ResultsInv, PendingInv

\* The paths to a node that is not BOS come from its left neighbours.
LEMMA PathsTo ==
  ASSUME FullPaths, Built, "NBEST" \in request, NEW n \in Nodes, n # BOSNode
  PROVE  { q \in paths : q.rnode = n }
           = { [lnode |-> l, rnode |-> n, cost |-> LocalCost(l, n)] : l \in LeftOf(n) }
<1>1. paths = AllPaths
  BY DEF FullPaths, IsAllPath
<1>2. ASSUME NEW q \in paths, q.rnode = n
      PROVE  q \in { [lnode |-> l, rnode |-> n, cost |-> LocalCost(l, n)] : l \in LeftOf(n) }
  <2>1. PICK m \in Nodes \ {BOSNode} : q \in PathsBetween(LeftOf(m), {m})
    BY <1>1, <1>2 DEF AllPaths
  <2>2. PICK l \in LeftOf(m) : q = [lnode |-> l, rnode |-> m, cost |-> LocalCost(l, m)]
    BY <2>1 DEF PathsBetween
  <2>3. m = n
    BY <1>2, <2>2
  <2> QED BY <2>2, <2>3
<1>3. ASSUME NEW l \in LeftOf(n)
      PROVE  [lnode |-> l, rnode |-> n, cost |-> LocalCost(l, n)] \in paths
  <2>1. [lnode |-> l, rnode |-> n, cost |-> LocalCost(l, n)] \in PathsBetween(LeftOf(n), {n})
    BY DEF PathsBetween
  <2> QED BY <1>1, <2>1 DEF AllPaths
<1> QED BY <1>2, <1>3

\* What one node more in front of a chain costs.
LEMMA CostInFront ==
  ASSUME NEW c \in Seq(NodeRecords), c # <<>>, NEW l \in NodeRecords
  PROVE  /\ CostOf(<<l>> \o c) = LocalCost(l, c[1]) + CostOf(c)
         /\ CostOf(c) \in Int /\ LocalCost(l, c[1]) \in Int
<1> DEFINE d == <<l>> \o c
<1>1. /\ d \in Seq(NodeRecords) /\ Len(c) \in Nat /\ Len(c) # 0 /\ Len(d) = Len(c) + 1
      /\ d[1] = l /\ d[2] = c[1] /\ 1 \in 1..Len(d) /\ 1 \in 1..Len(d) /\ 2 \in 1..Len(d) /\ 1 # Len(d)
      /\ c[1] \in NodeRecords
  OBVIOUS
<1>2. SubSeq(d, 2, Len(d)) = c
  <2>1. c = Tail(d)
    BY <1>1
  <2>2. \A i \in 1..Len(c) : i + 1 \in 1..Len(d) /\ d[i + 1] = c[i]
    BY <1>1
  <2>3. \A i \in 2..Len(d) : d[i] \in NodeRecords
    BY <1>1
  <2>4. /\ SubSeq(d, 2, Len(d)) \in Seq(NodeRecords) /\ Len(SubSeq(d, 2, Len(d))) = Len(d) - 2 + 1
        /\ \A i \in 1..Len(d) - 2 + 1 : SubSeq(d, 2, Len(d))[i] = d[2 + i - 1]
    BY <1>1, <2>3, SubSeqProperties
  <2>5. Len(d) - 2 + 1 = Len(c) /\ \A i \in 1..Len(c) : 2 + i - 1 = i + 1
    BY <1>1
  <2>6. Len(SubSeq(d, 2, Len(d))) = Len(c) /\ \A i \in 1..Len(c) : SubSeq(d, 2, Len(d))[i] = c[i]
    BY <2>2, <2>4, <2>5
  <2>7. \A a, b \in Seq(NodeRecords) : Len(a) = Len(b) /\ (\A i \in 1..Len(b) : a[i] = b[i]) => a = b
    BY SeqEqual
  <2> QED BY <2>4, <2>6, <2>7
<1> HIDE DEF d
<1>3. CostOf(d) = CostOf(SubSeq(d, 1, 2)) + CostOf(SubSeq(d, 2, Len(d)))
      /\ CostOf(SubSeq(d, 2, Len(d))) \in Int
  BY <1>1, CostSplits
<1>4. SubSeq(d, 1, 1) = <<l>>
  <2>1. \A i \in 1..1 : d[i] \in NodeRecords
    BY <1>1
  <2>2. /\ SubSeq(d, 1, 1) \in Seq(NodeRecords) /\ Len(SubSeq(d, 1, 1)) = 1
        /\ SubSeq(d, 1, 1)[1] = d[1]
    BY <2>1, SubSeqProperties
  <2>3. \A w \in Seq(NodeRecords) : Len(w) = 1 => w = <<w[1]>>
    OBVIOUS
  <2> QED BY <1>1, <2>2, <2>3
<1>5. SubSeq(d, 1, 2) = Append(<<l>>, c[1])
  <2>1. 1 \in 1..Len(d)
    BY <1>1
  <2>2. SubSeq(d, 1, 1 + 1) = Append(SubSeq(d, 1, 1), d[1 + 1])
    BY <1>1, <2>1, SubSeqLonger
  <2> QED BY <1>1, <1>4, <2>2
<1>6. CostOf(SubSeq(d, 1, 2)) = LocalCost(l, c[1])
  <2>1. <<l>> \in Seq(NodeRecords) /\ <<l>> # <<>> /\ Last(<<l>>) = l
    BY DEF Last
  <2>2. CostOf(Append(<<l>>, c[1])) = CostOf(<<l>>) + LocalCost(l, c[1])
    BY <1>1, <2>1, CostOfLonger
  <2>3. CostOf(<<l>>) = 0
    BY CostOfOne
  <2>4. LocalCost(l, c[1]) \in Int
    <3>1. \A n \in NodeRecords : n.token \in NodeTokens
      BY DEF NodeRecords
    <3> QED BY <1>1, <3>1, LocalCostType
  <2>5. \A a \in Int : 0 + a = a
    OBVIOUS
  <2> QED BY <1>5, <2>2, <2>3, <2>4, <2>5, Zenon
<1>7. LocalCost(l, c[1]) \in Int
  <2>1. \A n \in NodeRecords : n.token \in NodeTokens
    BY DEF NodeRecords
  <2> QED BY <1>1, <2>1, LocalCostType
<1> QED BY <1>2, <1>3, <1>6, <1>7 DEF d

\* What the search knows of the lattice it reads.
LEMMA SearchReady ==
  ASSUME IInv, Built
  PROVE  /\ TextInv /\ LatticeInv /\ place # "initPartial" /\ Nodes \subseteq NodeRecords
         /\ BOSNode \in Nodes /\ BOSNode.stat = "bos" /\ EOS \in Nodes /\ EOS.stat = "eos"
         /\ \A n \in Nodes : /\ n.stat = "bos" <=> n = BOSNode
                             /\ cost[n] \in Int /\ LeftOf(n) \subseteq Nodes
         /\ cost[BOSNode] = 0
<1>1. TextInv /\ LatticeInv /\ place # "initPartial"
  BY DEF IInv, Built
<1>2. size \in Nat /\ ListsInv /\ NodesInv /\ CostsInv
  BY <1>1, LatticeReady
<1>3. Nodes \subseteq NodeRecords /\ \A n \in Nodes : n.stat = "bos" => n = BOSNode
  BY <1>2, NodesAre
<1>4. BOSNode \in Nodes /\ BOSNode.stat = "bos"
  BY <1>2, EndNodes DEF NodesInv
<1>5. EOS \in Nodes /\ EOS.stat = "eos"
  BY <1>1, EOSIs
<1>6. \A n \in Nodes : LeftOf(n) \subseteq Nodes
  BY <1>1, LeftsAreNodes
<1>7. cost[BOSNode] = 0 /\ \A n \in Nodes : cost[n] \in Int
  BY <1>2 DEF CostsInv
<1> QED BY <1>1, <1>3, <1>4, <1>5, <1>6, <1>7

\* The lattice the search reads has a segmentation.
LEMMA SegmentationsSome ==
  ASSUME IInv, Built, Marked
  PROVE  Segmentations # {}
<1>1. TextInv /\ LatticeInv /\ place # "initPartial"
  BY SearchReady
<1>2. \A q \in 0..size-1 : Whole(q)
  BY DEF Built, Whole, GaveUp
<1>3. Segmentations = { Append(s, EOS) : s \in Chains(LastEnd) }
  BY <1>1, <1>2, SegmentationsIs
<1>4. PICK s \in Chains(LastEnd) : TRUE
  BY DEF IInv, BestInv
<1> QED BY <1>3, <1>4

\* The element of a path in front of the one looked at.
LEMMA ElementIs ==
  ASSUME IInv, FullPaths, AgendaInv, Built, "NBEST" \in request, NEW top \in agenda,
         Head(top.chain).stat # "bos", NEW q \in paths, q.rnode = Head(top.chain)
  PROVE  /\ q.lnode \in LeftOf(Head(top.chain)) /\ q.lnode \in Nodes
         /\ q = [lnode |-> q.lnode, rnode |-> Head(top.chain),
                 cost |-> LocalCost(q.lnode, Head(top.chain))]
         /\ Element(q, top).chain = <<q.lnode>> \o top.chain
         /\ IsEnding(Element(q, top).chain) /\ Element(q, top).chain # <<EOS>>
         /\ Element(q, top).gx = CostOf(Element(q, top).chain)
         /\ Element(q, top).fx = cost[Head(Element(q, top).chain)] + Element(q, top).gx
<1>1. PICK c : c = top.chain
  OBVIOUS
<1>2. IsEnding(c) /\ top.gx = CostOf(c)
  BY <1>1 DEF AgendaInv
<1>3. /\ c \in Seq(Nodes) /\ c # <<>> /\ Head(c) = c[1] /\ c[Len(c)] = EOS
      /\ Len(c) \in Nat /\ Len(c) # 0 /\ c[1] \in Nodes
  BY <1>2 DEF IsEnding
<1>4. PICK n \in Nodes : n = c[1] /\ n = Head(top.chain) /\ n = Head(c)
  BY <1>1, <1>3
<1>5. n # BOSNode
  BY <1>4, SearchReady
<1>6. PICK l \in LeftOf(n) : q = [lnode |-> l, rnode |-> n, cost |-> LocalCost(l, n)]
  BY <1>4, <1>5, PathsTo
<1>7. l \in Nodes /\ l \in NodeRecords /\ c \in Seq(NodeRecords) /\ cost[l] \in Int
  <2>1. Nodes \subseteq NodeRecords /\ LeftOf(n) \subseteq Nodes
    BY SearchReady
  <2>2. l \in Nodes
    BY <2>1
  <2> QED BY <1>3, <2>1, <2>2, SearchReady
<1> DEFINE d == <<l>> \o c
<1>8. /\ d \in Seq(Nodes) /\ d # <<>> /\ Len(d) = Len(c) + 1 /\ Head(d) = l /\ d[1] = l
      /\ \A j \in 1..Len(c) : d[j + 1] = c[j]
  BY <1>3, <1>7
<1>9. IsEnding(d)
  <2>1. Len(c) \in 1..Len(c)
    BY <1>3
  <2>2. d[Len(d)] = EOS
    BY <1>3, <1>8, <2>1
  <2>3. ASSUME NEW i \in 2..Len(d) PROVE d[i - 1] \in LeftOf(d[i]) /\ d[i] # BOSNode
    <3>1. CASE i = 2
      <4>1. d[2] = c[1] /\ d[i - 1] = l
        <5>1. 1 \in 1..Len(c) /\ 1 + 1 = 2 /\ 2 - 1 = 1
          BY <1>3
        <5> QED BY <1>8, <3>1, <5>1
      <4> QED BY <1>4, <1>5, <3>1, <4>1
    <3>2. CASE i # 2
      <4>1. PICK j \in 2..Len(c) : i = j + 1
        <5>1. i - 1 \in 2..Len(c) /\ i - 1 + 1 = i
          BY <1>3, <1>8, <3>2
        <5> QED BY <5>1
      <4>2. c[j - 1] \in LeftOf(c[j]) /\ c[j] # BOSNode
        BY <1>2 DEF IsEnding
      <4>3. d[j + 1] = c[j]
        BY <1>8
      <4>4. d[j] = c[j - 1]
        <5>1. j - 1 \in 1..Len(c) /\ j - 1 + 1 = j
          BY <1>3
        <5> QED BY <1>8, <5>1
      <4>5. i - 1 = j
        BY <4>1
      <4> QED BY <4>1, <4>2, <4>3, <4>4, <4>5
    <3> QED BY <3>1, <3>2
  <2> HIDE DEF d
  <2> QED BY <1>8, <2>2, <2>3 DEF IsEnding
<1>10. d # <<EOS>>
  <2>1. Len(d) # 1
    BY <1>3, <1>8
  <2> QED BY <2>1
<1>11. CostOf(d) = LocalCost(l, n) + CostOf(c) /\ CostOf(c) \in Int /\ LocalCost(l, n) \in Int
  BY <1>3, <1>4, <1>7, CostInFront
<1> HIDE DEF d
<1>12. /\ Element(q, top).chain = d /\ Element(q, top).gx = LocalCost(l, n) + CostOf(c)
       /\ Element(q, top).fx = cost[l] + LocalCost(l, n) + CostOf(c)
  BY <1>1, <1>2, <1>6 DEF Element, d
<1>13. Element(q, top).fx = cost[l] + CostOf(d)
  BY <1>7, <1>11, <1>12
<1>14. q.lnode = l /\ q = [lnode |-> q.lnode, rnode |-> n, cost |-> LocalCost(q.lnode, n)]
  BY <1>6
<1>15. <<q.lnode>> \o top.chain = d
  BY <1>1, <1>14 DEF d
<1>16. l \in LeftOf(Head(top.chain)) /\ Head(top.chain) = n
  BY <1>4
<1>17. Element(q, top).gx = CostOf(d) /\ Head(d) = l
  BY <1>8, <1>11, <1>12
<1> QED BY <1>7, <1>9, <1>10, <1>12, <1>13, <1>14, <1>15, <1>16, <1>17

\* A segmentation is a sequence of nodes from BOS to EOS, and no node behind the
\* first is BOS.
LEMMA SegmentationIs ==
  ASSUME IInv, Built, NEW s \in Segmentations
  PROVE  /\ s \in Seq(Nodes) /\ s # <<>> /\ IsEnding(s) /\ s[1] = BOSNode /\ s[Len(s)] = EOS
         /\ Len(s) \in Nat /\ Len(s) # 0
         /\ \A i \in 2..Len(s) : s[i - 1] \in LeftOf(s[i]) /\ s[i] # BOSNode
<1>1. IsEnding(s) /\ s[1] = BOSNode
  BY SearchReady, SegmentationsEnd
<1>2. s \in Seq(Nodes) /\ s # <<>>
  BY <1>1 DEF IsEnding
<1> QED BY <1>1, <1>2 DEF IsEnding

\* What a segmentation ends with is the whole of it if it begins with BOS.
LEMMA TailFromBOS ==
  ASSUME IInv, Built, NEW s \in Segmentations, NEW c, IsTail(c, s), c[1] = BOSNode
  PROVE  c = s
<1>1. /\ s \in Seq(Nodes) /\ s # <<>> /\ Len(s) \in Nat /\ Len(s) # 0
      /\ \A i \in 2..Len(s) : s[i] # BOSNode
  BY SegmentationIs
<1>2. \E k \in 1..Len(s) : /\ c = SubSeq(s, k, Len(s)) /\ c \in Seq(Nodes) /\ c # <<>>
                           /\ Len(c) = Len(s) - k + 1 /\ c[1] = s[k]
  <2>1. s \in Seq(Nodes) /\ IsTail(c, s)
    BY <1>1
  <2> QED BY <2>1, TailPlace, Zenon
<1>3. PICK k \in 1..Len(s) : c = SubSeq(s, k, Len(s)) /\ c[1] = s[k]
  BY <1>2
<1>4. k = 1
  BY <1>1, <1>3
<1> QED BY <1>1, <1>3, <1>4, SubSeqFull

\* A segmentation ends with itself.
LEMMA TailOfItself ==
  ASSUME NEW X, NEW s \in Seq(X), s # <<>>
  PROVE  IsTail(s, s)
<1>1. 1 \in 1..Len(s) /\ s = SubSeq(s, 1, Len(s))
  BY SubSeqFull
<1> QED BY <1>1 DEF IsTail

\* Taking an element apart leaves the agenda in order.
LEMMA ExpandAgenda ==
  ASSUME IInv, FullPaths, AgendaInv, ResultsInv, Expand
  PROVE  AgendaInv'
<1>1. /\ place = "searching" /\ Built /\ "NBEST" \in request
      /\ UNCHANGED <<sentence, begin_nodes, end_nodes, cost>>
  BY DEF Expand, searchVars, inputVars, listVars, Built, ResultsInv
<1>2. PICK top \in agenda :
        /\ Head(top.chain).stat # "bos"
        /\ agenda' = (agenda \ {top}) \union
             { Element(q, top) : q \in { p \in paths : p.rnode = Head(top.chain) } }
  BY DEF Expand
<1>3. EOS' = EOS /\ \A c : IsEnding(c) => IsEnding(c)'
  BY <1>1, StructureStays
<1>4. ASSUME NEW e \in agenda'
      PROVE  /\ IsEnding(e.chain) /\ e.gx = CostOf(e.chain)
             /\ e.chain # <<EOS>> /\ e.fx = cost[Head(e.chain)] + e.gx
  <2>1. CASE e \in agenda /\ e # top
    BY <1>2, <2>1 DEF AgendaInv
  <2>2. CASE \E q \in paths : q.rnode = Head(top.chain) /\ e = Element(q, top)
    BY <1>1, <1>2, <2>2, ElementIs
  <2> QED BY <1>2, <2>1, <2>2
<1>5. ASSUME NEW e \in agenda'
      PROVE  /\ IsEnding(e.chain)' /\ e.gx = CostOf(e.chain)
             /\ e.chain # <<EOS'>> /\ e.fx = cost'[Head(e.chain)] + e.gx
  <2>1. PICK c : c = e.chain
    OBVIOUS
  <2>2. IsEnding(c)'
    BY <1>3, <1>4, <2>1
  <2> QED BY <1>1, <1>3, <1>4, <2>1, <2>2
<1> QED BY <1>5 DEF AgendaInv

\* Taking an element apart, each segmentation that ends with it ends with just
\* one of its parts.
LEMMA ExpandPending ==
  ASSUME IInv, FullPaths, AgendaInv, ResultsInv, PendingInv, Expand
  PROVE  PendingInv'
<1>1. /\ place = "searching" /\ Built /\ "NBEST" \in request /\ Read
      /\ UNCHANGED <<sentence, begin_nodes, end_nodes, cost, results>>
  BY DEF Expand, searchVars, inputVars, listVars, Built, ResultsInv, Read
<1>2. PICK top \in agenda :
        /\ Head(top.chain).stat # "bos"
        /\ agenda' = (agenda \ {top}) \union
             { Element(q, top) : q \in { p \in paths : p.rnode = Head(top.chain) } }
  BY DEF Expand
<1>3. Segmentations' = Segmentations
  BY <1>1, StructureStays
<1> SUFFICES ASSUME NEW s \in Segmentations PROVE Pending(s)'
  BY <1>3 DEF PendingInv
<1>4. Pending(s)
  BY <1>1 DEF PendingInv
<1>5. PICK c : c = top.chain
  OBVIOUS
<1>6. c \in Seq(Nodes) /\ c # <<>> /\ Head(c) = c[1] /\ c[1].stat # "bos"
  <2>1. c \in Seq(Nodes) /\ c # <<>>
    BY <1>5 DEF AgendaInv, IsEnding
  <2> QED BY <1>2, <1>5, <2>1
<1>7. /\ s \in Seq(Nodes) /\ s[1] = BOSNode /\ BOSNode.stat = "bos"
      /\ \A i \in 2..Len(s) : s[i - 1] \in LeftOf(s[i]) /\ s[i] # BOSNode
  BY <1>1, SegmentationIs, SearchReady
<1>8. ASSUME NEW f \in agenda', f \notin agenda \/ f = top
      PROVE  \E q \in paths : /\ q.rnode = Head(c) /\ f = Element(q, top) /\ q.lnode \in Nodes
                              /\ f.chain = <<q.lnode>> \o c
                              /\ q = [lnode |-> q.lnode, rnode |-> Head(c),
                                      cost |-> LocalCost(q.lnode, Head(c))]
  <2>1. PICK q \in paths : q.rnode = Head(top.chain) /\ f = Element(q, top)
    BY <1>2, <1>8
  <2>2. /\ q.lnode \in Nodes /\ Element(q, top).chain = <<q.lnode>> \o top.chain
        /\ q = [lnode |-> q.lnode, rnode |-> Head(top.chain),
                cost |-> LocalCost(q.lnode, Head(top.chain))]
    BY <1>1, <1>2, <2>1, ElementIs
  <2> QED BY <1>5, <2>1, <2>2
<1>9. ASSUME NEW f \in agenda', f \notin agenda \/ f = top, IsTail(f.chain, s)
      PROVE  IsTail(c, s)
  <2>1. PICK l \in Nodes : f.chain = <<l>> \o c
    BY <1>8, <1>9
  <2>2. IsTail(<<l>> \o c, s)
    BY <1>9, <2>1
  <2> QED BY <1>6, <1>7, <2>2, TailShrinks
<1>10. CASE s \in ToSet(results)
  <2>1. \A e \in agenda : ~ IsTail(e.chain, s)
    BY <1>4, <1>10 DEF Pending
  <2>2. \A f \in agenda' : ~ IsTail(f.chain, s)
    BY <1>5, <1>9, <2>1
  <2> QED BY <1>1, <1>10, <2>2 DEF Pending
<1>11. CASE s \notin ToSet(results)
  <2>1. PICK e \in agenda : IsTail(e.chain, s) /\ \A f \in agenda : IsTail(f.chain, s) => f = e
    BY <1>4, <1>11 DEF Pending
  <2>2. CASE e # top
    <3>1. ~ IsTail(c, s)
      BY <1>5, <2>1, <2>2
    <3>2. \A f \in agenda' : IsTail(f.chain, s) => f = e
      BY <1>9, <2>1, <3>1
    <3>3. e \in agenda'
      BY <1>2, <2>2
    <3> QED BY <1>1, <1>11, <2>1, <3>2, <3>3 DEF Pending
  <2>3. CASE e = top
    <3>1. IsTail(c, s)
      BY <1>5, <2>1, <2>3
    <3>2. \E k \in 1..Len(s) : /\ c = SubSeq(s, k, Len(s)) /\ c \in Seq(Nodes) /\ c # <<>>
                               /\ Len(c) = Len(s) - k + 1 /\ c[1] = s[k]
      <4>1. s \in Seq(Nodes) /\ IsTail(c, s)
        BY <1>7, <3>1
      <4> QED BY <4>1, TailPlace, Zenon
    <3>3. PICK k \in 1..Len(s) : c = SubSeq(s, k, Len(s)) /\ c[1] = s[k]
      BY <3>2
    <3>4. k # 1 /\ k \in 2..Len(s) /\ k - 1 \in 1..Len(s)
      <4>1. k # 1
        BY <1>6, <1>7, <3>3, Zenon
      <4> QED BY <4>1
    <3>5. PICK l \in Nodes, n \in Nodes : l = s[k - 1] /\ n = s[k]
      BY <1>7, <3>4
    <3>6. l \in LeftOf(n) /\ n # BOSNode /\ n = Head(c)
      BY <1>6, <1>7, <3>3, <3>4, <3>5
    <3> DEFINE q == [lnode |-> l, rnode |-> n, cost |-> LocalCost(l, n)]
    <3>7. q \in paths /\ q.rnode = Head(top.chain) /\ q.lnode = l
      <4>1. q \in { p \in paths : p.rnode = n }
        BY <1>1, <3>6, PathsTo
      <4> QED BY <1>5, <3>6, <4>1
    <3>8. Element(q, top) \in agenda'
      BY <1>2, <3>7
    <3>9. Element(q, top).chain = <<l>> \o c
      BY <1>5 DEF Element
    <3>10. \A m \in Nodes : IsTail(<<m>> \o c, s) <=> m = l
      <4>1. ASSUME NEW m \in Nodes
            PROVE  IsTail(<<m>> \o SubSeq(s, k, Len(s)), s) <=> k # 1 /\ m = s[k - 1]
        BY <1>7, TailGrows
      <4> QED BY <3>3, <3>4, <3>5, <4>1
    <3>11. ASSUME NEW f \in agenda', IsTail(f.chain, s) PROVE f = Element(q, top)
      <4>1. f \notin agenda \/ f = top
        BY <2>1, <2>3, <3>11
      <4>2. PICK p \in paths :
              /\ f = Element(p, top) /\ p.lnode \in Nodes /\ f.chain = <<p.lnode>> \o c
              /\ p = [lnode |-> p.lnode, rnode |-> Head(c), cost |-> LocalCost(p.lnode, Head(c))]
        BY <1>8, <4>1
      <4>3. PICK m \in Nodes : m = p.lnode
        BY <4>2
      <4>4. IsTail(<<m>> \o c, s)
        BY <3>11, <4>2, <4>3
      <4>5. m = l
        BY <3>10, <4>4
      <4>6. p = q
        BY <3>6, <4>2, <4>3, <4>5
      <4> QED BY <4>2, <4>6
    <3>12. IsTail(Element(q, top).chain, s)
      BY <3>9, <3>10
    <3> HIDE DEF q
    <3> QED BY <1>1, <1>11, <3>8, <3>11, <3>12 DEF Pending
  <2> QED BY <2>2, <2>3
<1> QED BY <1>10, <1>11

\* An element whose estimate is reached costs no more than the segmentations that
\* end with another one.
LEMMA EstimatesAreLow ==
  ASSUME IInv, AgendaInv, Built, NEW e \in agenda, e.chain # <<EOS>>,
         NEW s \in Segmentations, IsTail(e.chain, s)
  PROVE  e.fx \in Int /\ e.fx <= CostOf(s) /\ CostOf(s) \in Int
<1>1. PICK c : c = e.chain
  OBVIOUS
<1>2. e.gx = CostOf(c) /\ e.fx = cost[Head(c)] + e.gx /\ c \in Seq(Nodes) /\ c # <<>> /\ c # <<EOS>>
      /\ Head(c) = c[1]
  BY <1>1 DEF AgendaInv, IsEnding
<1>3. s \in Seq(Nodes) /\ s[Len(s)] = EOS /\ Len(s) \in Nat
  BY SegmentationIs
<1>4. \E k \in 1..Len(s) : /\ c = SubSeq(s, k, Len(s)) /\ c \in Seq(Nodes) /\ c # <<>>
                           /\ Len(c) = Len(s) - k + 1 /\ c[1] = s[k]
  <2>1. s \in Seq(Nodes) /\ IsTail(c, s)
    BY <1>1, <1>3
  <2> QED BY <2>1, TailPlace, Zenon
<1>5. PICK k \in 1..Len(s) : c = SubSeq(s, k, Len(s)) /\ c[1] = s[k] /\ Len(c) = Len(s) - k + 1
  BY <1>4
<1>6. k # Len(s)
  <2>1. CASE k = Len(s)
    <3>1. c[1] = EOS
      BY <1>3, <1>5, <2>1, Zenon
    <3>2. Len(c) = 1
      BY <1>3, <1>5, <2>1
    <3>3. \A w \in Seq(Nodes) : Len(w) = 1 => w = <<w[1]>>
      OBVIOUS
    <3>4. c = <<c[1]>>
      BY <1>2, <3>2, <3>3, Zenon
    <3> QED BY <1>2, <3>1, <3>4, Zenon
  <2> QED BY <2>1
<1>7. /\ cost[s[k]] \in Int /\ CostOf(SubSeq(s, k, Len(s))) \in Int /\ CostOf(s) \in Int
      /\ cost[s[k]] + CostOf(SubSeq(s, k, Len(s))) <= CostOf(s)
  BY <1>6, SearchReady, NodesCostLeast
<1>8. e.fx = cost[s[k]] + CostOf(SubSeq(s, k, Len(s)))
  BY <1>2, <1>5
<1> QED BY <1>7, <1>8

\* What next() answers with is a cheapest of the segmentations not yet given.
LEMMA FindRanks ==
  ASSUME IInv, FullPaths, AgendaInv, ResultsInv, PendingInv, Find
  PROVE  \E top \in agenda :
           /\ agenda' = agenda \ {top} /\ results' = Append(results, top.chain)
           /\ top.chain \in Segmentations \ ToSet(results) /\ top.chain[1] = BOSNode
           /\ \A s \in Segmentations \ ToSet(results) : CostOf(top.chain) <= CostOf(s)
<1>1. place = "searching" /\ Built /\ "NBEST" \in request /\ Read
  BY DEF Find, Built, ResultsInv, Read
<1>2. PICK top \in agenda : /\ Top(top) /\ Head(top.chain).stat = "bos"
                            /\ agenda' = agenda \ {top} /\ results' = Append(results, top.chain)
  BY DEF Find
<1>3. PICK c : c = top.chain
  OBVIOUS
<1>4. IsEnding(c) /\ c \in Seq(Nodes) /\ c # <<>> /\ Head(c) = c[1] /\ c[1] \in Nodes
  <2>1. IsEnding(c)
    BY <1>3 DEF AgendaInv
  <2>2. c \in Seq(Nodes) /\ c # <<>>
    BY <2>1 DEF IsEnding
  <2> QED BY <2>1, <2>2
<1>5. c[1] = BOSNode
  <2>1. PICK n \in Nodes : n = c[1] /\ n.stat = "bos"
    BY <1>2, <1>3, <1>4
  <2>2. n = BOSNode
    BY <1>1, <2>1, SearchReady
  <2> QED BY <2>1, <2>2
<1>6. c \in Segmentations
  BY <1>1, <1>4, <1>5, SearchReady, SegmentationsEnd
<1>7. IsTail(c, c)
  BY <1>4, TailOfItself
<1>8. c \notin ToSet(results)
  <2>1. Pending(c)
    BY <1>1, <1>6 DEF PendingInv
  <2> QED BY <1>3, <1>7, <2>1 DEF Pending
<1>9. c # <<EOS>>
  <2>1. BOSNode.stat = "bos" /\ EOS.stat = "eos"
    BY <1>1, SearchReady
  <2>2. BOSNode # EOS
    BY <2>1
  <2>3. <<EOS>>[1] = EOS
    OBVIOUS
  <2> QED BY <1>5, <2>2, <2>3, Zenon
<1>10. \A f \in agenda : f.chain # <<EOS>>
  <2>1. ASSUME NEW f \in agenda, f.chain = <<EOS>> PROVE FALSE
    <3>1. agenda = {f}
      BY <2>1 DEF AgendaInv
    <3>2. f = top
      BY <3>1
    <3> QED BY <1>3, <1>9, <2>1, <3>2
  <2> QED BY <2>1
<1>11. top.fx = CostOf(c)
  <2>1. top.fx = cost[c[1]] + top.gx /\ top.gx = CostOf(c)
    BY <1>3, <1>4, <1>9 DEF AgendaInv
  <2>2. cost[c[1]] = 0 /\ Nodes \subseteq NodeRecords
    BY <1>1, <1>5, SearchReady
  <2>3. CostOf(c) \in Int
    <3>1. c \in Seq(NodeRecords)
      BY <1>4, <2>2
    <3> QED BY <1>4, <3>1, CostIsInt
  <2> QED BY <2>1, <2>2, <2>3
<1>12. ASSUME NEW s \in Segmentations, s \notin ToSet(results) PROVE CostOf(c) <= CostOf(s)
  <2>1. Pending(s)
    BY <1>1 DEF PendingInv
  <2>2. PICK f \in agenda : IsTail(f.chain, s)
    BY <1>12, <2>1 DEF Pending
  <2>3. f.fx \in Int /\ f.fx <= CostOf(s) /\ CostOf(s) \in Int
    BY <1>1, <1>10, <2>2, EstimatesAreLow
  <2>4. top.fx <= f.fx
    BY <1>2 DEF Top
  <2>5. top.fx \in Int
    <3>1. c \in Segmentations /\ IsTail(c, c)
      BY <1>6, <1>7
    <3> QED BY <1>1, <1>3, <1>10, <3>1, EstimatesAreLow
  <2>6. \A x, y, z \in Int : x <= y /\ y <= z => x <= z
    OBVIOUS
  <2> QED BY <1>11, <2>3, <2>4, <2>5, <2>6
<1> QED BY <1>2, <1>3, <1>5, <1>6, <1>8, <1>12

\* The rest of the search after an answer.
LEMMA FindPending ==
  ASSUME IInv, FullPaths, AgendaInv, ResultsInv, PendingInv, Find
  PROVE  AgendaInv' /\ ResultsInv' /\ PendingInv'
<1>1. /\ place = "searching" /\ Built /\ "NBEST" \in request /\ Read
      /\ place' = "result" /\ request' = request
      /\ UNCHANGED <<sentence, begin_nodes, end_nodes, cost>>
  BY DEF Find, searchVars, inputVars, listVars, Built, ResultsInv, Read
<1>2. PICK top \in agenda :
           /\ agenda' = agenda \ {top} /\ results' = Append(results, top.chain)
           /\ top.chain \in Segmentations \ ToSet(results) /\ top.chain[1] = BOSNode
  BY FindRanks
<1>3. PICK c : c = top.chain
  OBVIOUS
<1>4. /\ Segmentations' = Segmentations /\ EOS' = EOS
      /\ \A d : IsEnding(d) => IsEnding(d)'
  BY <1>1, StructureStays
<1>5. c \in Seq(Nodes) /\ c # <<>> /\ c \in Segmentations /\ c \notin ToSet(results) /\ IsTail(c, c)
  <2>1. c \in Segmentations /\ c \notin ToSet(results)
    BY <1>2, <1>3
  <2>2. c \in Seq(Nodes) /\ c # <<>>
    BY <1>1, <2>1, SegmentationIs
  <2>3. IsTail(c, c)
    BY <2>2, TailOfItself
  <2> QED BY <2>1, <2>2, <2>3
<1>6. ToSet(results') = ToSet(results) \union {c}
  <2>1. results \in Seq(Seq(Nodes))
    BY DEF IInv, SearchInv
  <2>2. ToSet(Append(results, c)) = ToSet(results) \union {c}
    BY <1>5, <2>1, AppendElements
  <2> QED BY <1>2, <1>3, <2>2
<1>7. AgendaInv'
  <2>1. ASSUME NEW e \in agenda'
        PROVE  /\ IsEnding(e.chain)' /\ e.gx = CostOf(e.chain)
               /\ IF e.chain = <<EOS'>> THEN agenda' = {e} ELSE e.fx = cost'[Head(e.chain)] + e.gx
    <3>1. /\ IsEnding(e.chain) /\ e.gx = CostOf(e.chain)
          /\ IF e.chain = <<EOS>> THEN agenda = {e} ELSE e.fx = cost[Head(e.chain)] + e.gx
      BY <1>2 DEF AgendaInv
    <3>2. PICK d : d = e.chain
      OBVIOUS
    <3>3. IsEnding(d)'
      BY <1>4, <3>1, <3>2
    <3>4. e.chain = <<EOS>> => e = top
      BY <1>2, <3>1
    <3>5. e # top
      BY <1>2
    <3> QED BY <1>1, <1>4, <3>1, <3>2, <3>3, <3>4, <3>5
  <2> QED BY <2>1 DEF AgendaInv
<1>8. ResultsInv'
  <2>1. ToSet(results) \subseteq Segmentations
    BY <1>1 DEF ResultsInv
  <2> QED BY <1>1, <1>4, <1>5, <1>6, <2>1 DEF ResultsInv
<1>9. ASSUME NEW s \in Segmentations PROVE Pending(s)'
  <2>1. Pending(s)
    BY <1>1 DEF PendingInv
  <2>2. CASE s = c
    <3>1. PICK e \in agenda : \A f \in agenda : IsTail(f.chain, s) => f = e
      BY <1>5, <2>1, <2>2 DEF Pending
    <3>2. e = top
      BY <1>3, <1>5, <2>2, <3>1
    <3>3. \A f \in agenda' : ~ IsTail(f.chain, s)
      BY <1>2, <3>1, <3>2
    <3>4. s \in ToSet(results')
      BY <1>6, <2>2
    <3> QED BY <3>3, <3>4 DEF Pending
  <2>3. CASE s # c
    <3>1. s \in ToSet(results') <=> s \in ToSet(results)
      BY <1>6, <2>3
    <3>2. CASE s \in ToSet(results)
      <4>1. \A f \in agenda' : ~ IsTail(f.chain, s)
        BY <1>2, <2>1, <3>2 DEF Pending
      <4> QED BY <3>1, <3>2, <4>1 DEF Pending
    <3>3. CASE s \notin ToSet(results)
      <4>1. PICK e \in agenda : IsTail(e.chain, s) /\ \A f \in agenda : IsTail(f.chain, s) => f = e
        BY <2>1, <3>3 DEF Pending
      <4>2. ~ IsTail(c, s)
        <5>1. c[1] = BOSNode
          BY <1>2, <1>3
        <5> QED BY <1>1, <2>3, <5>1, TailFromBOS
      <4>3. e # top
        BY <1>3, <4>1, <4>2
      <4>4. e \in agenda' /\ \A f \in agenda' : IsTail(f.chain, s) => f = e
        BY <1>2, <4>1, <4>3
      <4> QED BY <3>1, <3>3, <4>1, <4>4 DEF Pending
    <3> QED BY <3>2, <3>3
  <2> QED BY <2>2, <2>3
<1>10. PendingInv'
  BY <1>4, <1>9 DEF PendingInv
<1> QED BY <1>7, <1>8, <1>10

\* The search begins at EOS, which every segmentation ends with.
LEMMA InitNBestPending ==
  ASSUME IInv, InitNBest
  PROVE  AgendaInv' /\ ResultsInv' /\ PendingInv'
<1>1. /\ place = "initNBest" /\ place' = "parsed" /\ Built /\ ~ Read /\ request' = request
      /\ UNCHANGED <<sentence, begin_nodes, end_nodes, cost, results>>
      /\ agenda' = IF "NBEST" \in request THEN {[chain |-> <<EOS>>, fx |-> 0, gx |-> 0]} ELSE {}
  BY DEF InitNBest, searchVars, inputVars, listVars, Built, Read
<1>2. /\ Segmentations' = Segmentations /\ EOS' = EOS
      /\ \A d : IsEnding(d) => IsEnding(d)'
  BY <1>1, StructureStays
<1>3. results = <<>> /\ ToSet(results') = {}
  <2>1. results = <<>>
    BY <1>1 DEF IInv, SearchInv
  <2> QED BY <1>1, <2>1 DEF ToSet
<1>4. PICK c : c = <<EOS>>
  OBVIOUS
<1>5. c # <<>> /\ Len(c) = 1 /\ c[1] = EOS
  BY <1>4
<1>6. IsEnding(c)
  <2>1. EOS \in Nodes
    BY <1>1, SearchReady
  <2>2. c \in Seq(Nodes)
    BY <1>4, <2>1
  <2> QED BY <1>5, <2>2 DEF IsEnding
<1>7. CostOf(c) = 0
  BY <1>4, CostOfOne
<1>8. AgendaInv'
  <2>1. ASSUME NEW e \in agenda'
        PROVE  /\ IsEnding(e.chain)' /\ e.gx = CostOf(e.chain)
               /\ IF e.chain = <<EOS'>> THEN agenda' = {e} ELSE e.fx = cost'[Head(e.chain)] + e.gx
    <3>1. agenda' = {e} /\ e.chain = c /\ e.gx = 0
      BY <1>1, <1>4
    <3>2. IsEnding(c)'
      BY <1>2, <1>6
    <3>3. e.chain = <<EOS'>>
      BY <1>2, <1>4, <3>1
    <3> QED BY <1>7, <3>1, <3>2, <3>3
  <2> QED BY <2>1 DEF AgendaInv
<1>9. ResultsInv'
  BY <1>1, <1>3 DEF ResultsInv
<1>10. PendingInv'
  <2> SUFFICES ASSUME "NBEST" \in request, NEW s \in Segmentations PROVE Pending(s)'
    BY <1>1, <1>2 DEF PendingInv
  <2>1. PICK e : agenda' = {e} /\ e.chain = c
    <3>1. PICK e : e = [chain |-> c, fx |-> 0, gx |-> 0]
      OBVIOUS
    <3>2. agenda' = {e}
      BY <1>1, <1>4, <3>1
    <3>3. e.chain = c
      BY <3>1
    <3> QED BY <3>2, <3>3
  <2>2. IsTail(c, s)
    <3>1. s \in Seq(Nodes) /\ s[Len(s)] = EOS /\ Len(s) \in Nat /\ Len(s) # 0
      BY <1>1, SegmentationIs
    <3>2. PICK k \in 1..Len(s) : k = Len(s)
      <4>1. Len(s) \in 1..Len(s)
        BY <3>1
      <4> QED BY <4>1
    <3>3. k \in Int /\ \A i \in k..k : s[i] \in Nodes
      BY <3>1, <3>2
    <3>4. SubSeq(s, k, k) \in Seq(Nodes) /\ Len(SubSeq(s, k, k)) = 1 /\ SubSeq(s, k, k)[1] = s[k]
      BY <3>3, SubSeqProperties
    <3>5. \A w \in Seq(Nodes) : Len(w) = 1 => w = <<w[1]>>
      OBVIOUS
    <3>6. SubSeq(s, k, k) = <<s[k]>>
      BY <3>4, <3>5, Zenon
    <3>7. c = SubSeq(s, k, Len(s))
      BY <1>4, <3>1, <3>2, <3>6, Zenon
    <3> QED BY <3>7 DEF IsTail
  <2> QED BY <1>3, <2>1, <2>2 DEF Pending
<1> QED BY <1>8, <1>9, <1>10

\* Nothing is read while parse goes on.
LEMMA AnalyzeUnread ==
  ASSUME Analyze
  PROVE  ~ Read /\ ~ Read' /\ UNCHANGED results
BY DEF Analyze, AnalyzeStep, InitPartial, SkipPosition, ScanPosition, LookupStep, ConnectFound,
       Connect, ConnectEOS, ForwardBackward, BuildBestLattice, BuildAllLattice, Read, Lookup, Stage,
       SkipSpace, SearchDictionaries, AddBlank, AddGroup, AddCounted, EndCounting, AddSingle,
       AddStretched, AddForced

\* A phase of parse keeps the paths, and nothing is searched meanwhile.
LEMMA AnalyzeSearches ==
  ASSUME IInv, IInv', FullPaths, Analyze
  PROVE  /\ FullPaths' /\ AgendaInv' /\ ResultsInv' /\ PendingInv'
         /\ ~ Read /\ ~ Read' /\ UNCHANGED results
<1>1. ~ Read /\ ~ Read' /\ UNCHANGED results
  BY AnalyzeUnread
<1>2. FullPaths'
  <2>1. CASE InitPartial
    <3>1. place = "initPartial" /\ cost' = cost /\ paths' = paths
      BY <2>1 DEF InitPartial
    <3>2. paths = {} /\ cost = [n \in {BOSNode} |-> 0]
      BY <3>1 DEF IInv, StartInv
    <3>3. Nodes' = {BOSNode}
      BY <3>1, <3>2 DEF Nodes
    <3>4. AllPaths' = {}
      BY <3>3 DEF AllPaths
    <3> QED BY <3>1, <3>2, <3>4 DEF FullPaths
  <2>2. CASE ConnectFound
    BY <2>2, ConnectFoundLattice DEF IInv
  <2>3. CASE ConnectEOS
    BY <2>3, ConnectEOSLattice DEF IInv
  <2>4. CASE SkipPosition \/ ScanPosition \/ ForwardBackward \/ BuildBestLattice \/ BuildAllLattice
    <3>1. /\ UNCHANGED <<sentence, request, begin_nodes, end_nodes, cost, paths>>
          /\ place \in {"scan", "forwardbackward", "buildBestLattice", "buildAllLattice"}
      BY <2>4 DEF SkipPosition, ScanPosition, Stage, ForwardBackward, BuildBestLattice,
                  BuildAllLattice, inputVars, listVars
    <3>2. Scanning \/ Built
      BY <3>1 DEF Scanning, Built
    <3> QED BY <3>1, <3>2, PathsStay
  <2>5. CASE LookupStep
    <3>1. Lookup /\ UNCHANGED <<request, listVars>>
      BY <2>5 DEF LookupStep
    <3>2. sentence' = sentence /\ (LookingUp \/ place = "lookup")
      BY <3>1, LookupPlaces
    <3>3. UNCHANGED <<sentence, request, begin_nodes, end_nodes, cost, paths>> /\ Scanning
      BY <3>1, <3>2 DEF listVars, Scanning
    <3> QED BY <3>3, PathsStay
  <2> QED BY <2>1, <2>2, <2>3, <2>4, <2>5 DEF Analyze, AnalyzeStep
<1>3. AgendaInv' /\ ResultsInv' /\ PendingInv'
  <2>1. agenda' = {} /\ results' = <<>>
    BY <1>1 DEF IInv, SearchInv
  <2>2. place' \notin {"searching", "result", "exhausted"}
    BY <1>1 DEF Read
  <2> QED BY <1>1, <2>1, <2>2 DEF AgendaInv, ResultsInv, PendingInv
<1> QED BY <1>1, <1>2, <1>3

\* A step of the search leaves the lattice as it is.
LEMMA SearchLeaves ==
  ASSUME IInv, FullPaths, InitNBest \/ CallNext \/ Search
  PROVE  /\ FullPaths' /\ Built /\ Segmentations' = Segmentations /\ EOS' = EOS
         /\ UNCHANGED <<sentence, request, begin_nodes, end_nodes, cost>>
         /\ \A c : IsEnding(c) => IsEnding(c)'
<1>1. /\ UNCHANGED <<sentence, request, begin_nodes, end_nodes, cost, paths>>
      /\ place \in {"initNBest", "parsed", "searching", "result"}
  BY DEF InitNBest, CallNext, Search, Expand, Find, Exhaust, searchVars, inputVars, listVars
<1>2. Built
  BY <1>1 DEF Built
<1> QED BY <1>1, <1>2, PathsStay, StructureStays

\* Where only place changes, the agenda and what is pending stay.
LEMMA PendingStays ==
  ASSUME AgendaInv, PendingInv, UNCHANGED <<request, agenda, results, cost>>, Read' => Read,
         Segmentations' = Segmentations, EOS' = EOS, \A c : IsEnding(c) => IsEnding(c)'
  PROVE  AgendaInv' /\ PendingInv'
<1>1. AgendaInv'
  <2>1. ASSUME NEW e \in agenda' PROVE IsEnding(e.chain)'
    <3>1. PICK c : c = e.chain
      OBVIOUS
    <3>2. IsEnding(c)
      BY <3>1 DEF AgendaInv
    <3>3. IsEnding(c)'
      BY <3>2
    <3> QED BY <3>1, <3>3
  <2> QED BY <2>1 DEF AgendaInv
<1>2. \A s : Pending(s) => Pending(s)'
  BY DEF Pending
<1>3. PendingInv'
  BY <1>2 DEF PendingInv
<1> QED BY <1>1, <1>3

\* The search invariant holds to begin with.
LEMMA InitSearches == ASSUME Init PROVE SInv
<1>1. IInv /\ place = "initPartial" /\ ~ Read
  BY InitHolds DEF Init, InitLattice, Read
<1>2. FullPaths
  BY <1>1 DEF FullPaths, Scanning, Built, LookingUp
<1>3. AgendaInv /\ ResultsInv /\ PendingInv
  BY <1>1, NothingPending DEF IInv
<1> QED BY <1>1, <1>2, <1>3 DEF SInv

\* Every step keeps the search invariant.
LEMMA StepKeepsSearch ==
  ASSUME SInv, IInv', [Next]_vars
  PROVE  SInv'
<1>0. IInv /\ FullPaths /\ AgendaInv /\ ResultsInv /\ PendingInv
  BY DEF SInv
<1>1. CASE Analyze
  BY <1>0, <1>1, AnalyzeSearches DEF SInv
<1>2. CASE InitNBest
  BY <1>0, <1>2, SearchLeaves, InitNBestPending DEF SInv
<1>3. CASE CallNext \/ Exhaust
  <2>1. /\ FullPaths' /\ Segmentations' = Segmentations /\ EOS' = EOS /\ cost' = cost
        /\ request' = request /\ \A c : IsEnding(c) => IsEnding(c)'
    BY <1>0, <1>3, SearchLeaves DEF Search
  <2>2. /\ UNCHANGED <<agenda, results>> /\ Read /\ Read' /\ "NBEST" \in request
        /\ place' = "exhausted" => agenda' = {}
    BY <1>0, <1>3 DEF CallNext, Exhaust, Read, ResultsInv
  <2>3. AgendaInv' /\ PendingInv'
    BY <1>0, <2>1, <2>2, PendingStays
  <2>4. ResultsInv'
    BY <1>0, <2>1, <2>2 DEF ResultsInv
  <2> QED BY <2>1, <2>3, <2>4 DEF SInv
<1>4. CASE Expand
  <2>1. FullPaths' /\ Segmentations' = Segmentations /\ request' = request
    BY <1>0, <1>4, SearchLeaves DEF Search
  <2>2. AgendaInv' /\ PendingInv'
    BY <1>0, <1>4, ExpandAgenda, ExpandPending
  <2>3. place = "searching" /\ place' = "searching" /\ results' = results
    BY <1>4 DEF Expand
  <2>4. ResultsInv'
    BY <1>0, <2>1, <2>3 DEF ResultsInv, Read
  <2> QED BY <2>1, <2>2, <2>4 DEF SInv
<1>5. CASE Find
  <2>1. FullPaths'
    BY <1>0, <1>5, SearchLeaves DEF Search
  <2> QED BY <1>0, <1>5, <2>1, FindPending DEF SInv
<1>6. CASE UNCHANGED vars
  <2>1. UNCHANGED <<sentence, request, place, begin_nodes, end_nodes, cost, paths, agenda, results>>
    BY <1>6 DEF vars, latticeVars, inputVars, listVars
  <2>2. /\ Segmentations' = Segmentations /\ EOS' = EOS
        /\ \A c : IsEnding(c) => IsEnding(c)'
    BY <2>1, StructureStays
  <2>3. Read' = Read /\ Scanning' = Scanning /\ Built' = Built
    BY <2>1 DEF Read, Scanning, Built, LookingUp
  <2>4. FullPaths'
    BY <1>0, <2>1, <2>3, PathsStay
  <2>5. AgendaInv' /\ PendingInv'
    BY <1>0, <2>1, <2>2, <2>3, PendingStays
  <2>6. ResultsInv'
    BY <1>0, <2>1, <2>2, <2>3 DEF ResultsInv
  <2> QED BY <2>4, <2>5, <2>6 DEF SInv
<1> QED BY <1>1, <1>2, <1>3, <1>4, <1>5, <1>6 DEF Next, Search

\* The search invariant holds throughout.
LEMMA SearchInvariant == Spec => []SInv
<1>1. Init => SInv
  BY InitSearches
<1>2. SInv /\ IInv' /\ [Next]_vars => SInv'
  BY StepKeepsSearch
<1> QED BY <1>1, <1>2, InvariantHolds, PTL DEF Spec

-----------------------------------------------------------------------------
(* The ranking *)

\* Before the lattice is read there is nothing to rank.
LEMMA InitRanks == ASSUME Init PROVE Ranking!Init
<1>1. ~ Read /\ results = <<>> /\ place # "exhausted"
  BY DEF Init, InitLattice, Read
<1> QED BY <1>1 DEF Ranking!Init

\* InitNBest offers the segmentations, Find ranks one, Exhaust finds none left;
\* the other steps rank nothing.
LEMMA StepRanks ==
  ASSUME SInv, [Next]_vars
  PROVE  [Ranking!Offer \/ Ranking!Rank \/ Ranking!Exhaust]_(Ranking!rankingVars)
<1>0. IInv /\ FullPaths /\ AgendaInv /\ ResultsInv /\ PendingInv
  BY DEF SInv
<1>7. Ranking!Ranked = ToSet(results)
  BY DEF Ranking!Ranked, ToSet
<1>1. CASE Analyze
  <2>1. ~ Read /\ ~ Read' /\ results' = results
    BY <1>1, AnalyzeUnread
  <2>2. place # "exhausted" /\ place' # "exhausted"
    BY <2>1 DEF Read
  <2> QED BY <2>1, <2>2 DEF Ranking!rankingVars
<1>2. CASE InitNBest
  <2>1. /\ ~ Read /\ Read' /\ results' = results /\ place' = "parsed" /\ place = "initNBest"
        /\ request' = request /\ Built /\ Marked
    BY <1>2 DEF InitNBest, Read, searchVars, inputVars, Built, Marked
  <2>2. results = <<>>
    BY <1>0, <2>1 DEF IInv, SearchInv
  <2>3. Segmentations' = Segmentations /\ Segmentations # {}
    BY <1>0, <1>2, <2>1, SearchLeaves, SegmentationsSome
  <2>4. place # "exhausted" /\ place' # "exhausted"
    BY <2>1
  <2>5. CASE "NBEST" \in request
    <3>1. Ranking!Offer
      BY <2>1, <2>2, <2>3, <2>4, <2>5 DEF Ranking!Offer
    <3> QED BY <3>1
  <2>6. CASE "NBEST" \notin request
    BY <2>1, <2>4, <2>6 DEF Ranking!rankingVars
  <2> QED BY <2>5, <2>6
<1>3. CASE CallNext \/ Expand
  <2>1. /\ Read /\ Read' /\ results' = results /\ place # "exhausted" /\ place' # "exhausted"
    BY <1>3 DEF CallNext, Expand, Read
  <2>2. Segmentations' = Segmentations /\ request' = request
    BY <1>0, <1>3, SearchLeaves DEF Search
  <2> QED BY <2>1, <2>2 DEF Ranking!rankingVars
<1>4. CASE Find
  <2>1. /\ Read /\ Read' /\ "NBEST" \in request /\ place # "exhausted" /\ place' # "exhausted"
    BY <1>0, <1>4 DEF Find, Read, ResultsInv
  <2>2. Segmentations' = Segmentations /\ request' = request
    BY <1>0, <1>4, SearchLeaves DEF Search
  <2>3. PICK top \in agenda :
           /\ results' = Append(results, top.chain)
           /\ top.chain \in Segmentations \ ToSet(results)
           /\ \A s \in Segmentations \ ToSet(results) : CostOf(top.chain) <= CostOf(s)
    BY <1>0, <1>4, FindRanks
  <2>4. Ranking!Rank
    BY <1>7, <2>1, <2>2, <2>3 DEF Ranking!Rank
  <2> QED BY <2>4
<1>5. CASE Exhaust
  <2>1. /\ Read /\ Read' /\ "NBEST" \in request /\ agenda = {} /\ results' = results
        /\ place' = "exhausted" /\ Built /\ Marked
    BY <1>0, <1>5 DEF Exhaust, Read, ResultsInv, Built, Marked
  <2>2. Segmentations' = Segmentations /\ request' = request /\ Segmentations # {}
    BY <1>0, <1>5, <2>1, SearchLeaves, SegmentationsSome DEF Search
  <2>3. ToSet(results) = Segmentations
    <3>1. \A s \in Segmentations : s \in ToSet(results)
      BY <1>0, <2>1 DEF PendingInv, Pending
    <3> QED BY <1>0, <2>1, <3>1 DEF ResultsInv
  <2>4. Ranking!Exhaust
    BY <1>7, <2>1, <2>2, <2>3 DEF Ranking!Exhaust
  <2> QED BY <2>4
<1>6. CASE UNCHANGED vars
  <2>1. UNCHANGED <<sentence, request, place, begin_nodes, end_nodes, cost, results>>
    BY <1>6 DEF vars, latticeVars, inputVars, listVars
  <2>2. Segmentations' = Segmentations /\ Read' = Read
    BY <2>1, StructureStays DEF Read
  <2> QED BY <2>1, <2>2 DEF Ranking!rankingVars
<1> QED BY <1>1, <1>2, <1>3, <1>4, <1>5, <1>6 DEF Next, Search

(* NBestGenerator::set and next (nbest_generator.cpp 12-51) implement       *)
(* PathRanking: the answers of next() are segmentations of the lattice,    *)
(* none twice and none before a cheaper one, and it answers that there are *)
(* no more only when all have been given.                                  *)
THEOREM SearchRanks == Spec => ImplementsRanking
<1>1. Init => Ranking!Init
  BY InitRanks
<1>2. SInv /\ [Next]_vars => [Ranking!Offer \/ Ranking!Rank \/ Ranking!Exhaust]_(Ranking!rankingVars)
  BY StepRanks
<1> QED BY <1>1, <1>2, SearchInvariant, PTL DEF Spec, ImplementsRanking, Ranking!Spec

-----------------------------------------------------------------------------
(* The constraints *)

\* a node of a text without white space that keeps to its constraints
Honours(n) ==
  /\ n.surface = BeginOf(n) /\ EndOf(n) <= size
  /\ BoundaryAt(constraint, EndOf(n)) # "inside"
  /\ \A p \in BeginOf(n)+1..EndOf(n)-1 : BoundaryAt(constraint, p) # "token"
  /\ FeatureAt(constraint, BeginOf(n)) # None =>
       PartialMatch(FeatureAt(constraint, BeginOf(n)), n.token.feature)

\* a node from pos to p spans no token boundary
Within(p) == \A q \in pos+1..p-1 : BoundaryAt(constraint, q) # "token"

\* a constrained text begins and ends at a token boundary
TokensInv ==
  place # "initPartial" /\ HasConstraint(constraint) =>
    /\ BoundaryAt(constraint, 0) = "token" /\ BoundaryAt(constraint, size) = "token"
    /\ KeepsToTokens(constraint, size)

\* what lookup finds under constraints, and what it knows when it has found nothing
FoundInv ==
  HasConstraint(constraint) =>
    /\ LookingUp => /\ Within(end)
                    /\ BoundaryAt(constraint, end) = "token" \/ end = pos + MaxLookup
                    /\ \A n \in ToSet(found) : Honours(n)
    /\ place \in {"count", "single"} /\ found = <<>> /\ begin3 > end =>
         Unknown(end, cinfo) = <<>>
    /\ place = "force" => /\ Within(begin3) /\ begin3 <= size
                          /\ BoundaryAt(constraint, begin3) # "inside"

\* so do the nodes that the lists keep
HonouredInv ==
  place # "initPartial" /\ HasConstraint(constraint) =>
    \A q \in 0..size-1 : \A n \in ToSet(begin_nodes[q]) : Honours(n)

\* no way through the lattice ends before the positions are all looked up
ReachedInv ==
  /\ Scanning \/ Built => \A p \in 0..size-1 : p < pos /\ EndsAt(p) # {} => begin_nodes[p] # <<>>
  /\ Built => pos = size

CInv == IInv /\ TokensInv /\ FoundInv /\ HonouredInv /\ ReachedInv

\* the words a lookup may find under constraints
HonouringWords == { w \in WordsAt(pos, size) : Honours(w) }

\* An empty sequence is one without elements.
LEMMA EmptyIs ==
  ASSUME NEW X, NEW s \in Seq(X)
  PROVE  s = <<>> <=> ToSet(s) = {}
<1>1. Len(s) \in Nat /\ DOMAIN s = 1..Len(s)
  OBVIOUS
<1>2. CASE s # <<>>
  <2>1. 1 \in DOMAIN s
    BY <1>1, <1>2
  <2>2. s[1] \in ToSet(s)
    BY <2>1 DEF ToSet
  <2> QED BY <1>2, <2>2
<1>3. CASE s = <<>>
  <2>1. DOMAIN s = {}
    BY <1>3
  <2> QED BY <1>3, <2>1 DEF ToSet
<1> QED BY <1>2, <1>3

\* The nodes made of tokens are those that are valid.
LEMMA MadeAre ==
  ASSUME NEW stat, NEW X, NEW tokens \in Seq(X), NEW past
  PROVE  LET N(k) == Node(stat, begin2, past - begin2, past - pos, tokens[k])
         IN  /\ ToSet(Made(stat, tokens, past)) =
                  { N(k) : k \in { j \in DOMAIN tokens : IsValidNode(constraint, N(j)) } }
             /\ Made(stat, tokens, past) = <<>> <=>
                  \A k \in DOMAIN tokens : ~ IsValidNode(constraint, N(k))
<1> DEFINE N(k) == Node(stat, begin2, past - begin2, past - pos, tokens[k])
           nodes == [k \in DOMAIN tokens |-> N(k)]
           valid == { k \in DOMAIN nodes : IsValidNode(constraint, nodes[k]) }
           made == Made(stat, tokens, past)
<1>1. DOMAIN tokens = 1..Len(tokens) /\ Len(tokens) \in Nat
  OBVIOUS
<1>2. nodes \in Seq(Range(nodes)) /\ Len(nodes) = Len(tokens) /\ DOMAIN nodes = DOMAIN tokens
      /\ \A k \in DOMAIN tokens : nodes[k] = N(k)
  <2>1. nodes \in [1..Len(tokens) -> Range(nodes)]
    BY <1>1 DEF Range
  <2>2. \A k \in DOMAIN tokens : nodes[k] = N(k)
    OBVIOUS
  <2> HIDE DEF nodes
  <2> QED BY <1>1, <2>1, <2>2
<1>3. made = Reverse(Valid(nodes))
  BY DEF Made
<1> HIDE DEF N, nodes, made
<1>4. /\ Valid(nodes) \in Seq(Range(nodes))
      /\ ToSet(Valid(nodes)) = { nodes[i] : i \in (1..Len(nodes)) \intersect valid }
  BY <1>2, PickedElements DEF Valid
<1>5. made \in Seq(Range(nodes)) /\ ToSet(made) = { nodes[i] : i \in (1..Len(nodes)) \intersect valid }
  BY <1>3, <1>4, ReverseElements
<1>6. { nodes[i] : i \in (1..Len(nodes)) \intersect valid } =
      { N(k) : k \in { j \in DOMAIN tokens : IsValidNode(constraint, N(j)) } }
  BY <1>1, <1>2
<1>7. ToSet(made) = { N(k) : k \in { j \in DOMAIN tokens : IsValidNode(constraint, N(j)) } }
  BY <1>5, <1>6
<1>8. made = <<>> <=> \A k \in DOMAIN tokens : ~ IsValidNode(constraint, N(k))
  BY <1>5, <1>7, EmptyIs
<1> QED BY <1>7, <1>8 DEF N, made

\* Up to the next token boundary, what is made of tokens keeps to the constraints.
LEMMA MadeHonours ==
  ASSUME NEW stat \in {"nor", "unk"}, NEW tokens \in Seq(NodeTokens),
         size \in Nat, pos \in Nat, begin2 = pos, NEW past \in pos+1..size, Within(past)
  PROVE  Made(stat, tokens, past) \in Seq(HonouringWords)
<1> DEFINE N(k) == Node(stat, begin2, past - begin2, past - pos, tokens[k])
           made == Made(stat, tokens, past)
<1>1. ToSet(made) = { N(k) : k \in { j \in DOMAIN tokens : IsValidNode(constraint, N(j)) } }
  BY MadeAre
<1>2. made \in Seq(WordsAt(pos, size))
  <2>1. begin2 \in Int /\ past \in pos+1..size+1
    OBVIOUS
  <2> QED BY <2>1, MadeWords
<1> HIDE DEF made
<1>3. ASSUME NEW n \in ToSet(made) PROVE Honours(n)
  <2>1. PICK k \in DOMAIN tokens : n = N(k) /\ IsValidNode(constraint, N(k))
    BY <1>1
  <2>2. BeginOf(n) = pos /\ EndOf(n) = past /\ n.surface = pos
    BY <2>1 DEF Node, BeginOf, EndOf
  <2>3. IsValidNode(constraint, n)
    BY <2>1
  <2> HIDE DEF N
  <2>4. /\ BoundaryAt(constraint, past) # "inside"
        /\ FeatureAt(constraint, pos) # None =>
             PartialMatch(FeatureAt(constraint, pos), n.token.feature)
    BY <2>2, <2>3 DEF IsValidNode
  <2>5. past <= size
    OBVIOUS
  <2> QED BY <2>2, <2>4, <2>5 DEF Honours, Within
<1>4. \A i \in 1..Len(made) : made[i] \in HonouringWords
  <2> TAKE i \in 1..Len(made)
  <2>1. made[i] \in ToSet(made) /\ made[i] \in WordsAt(pos, size)
    BY <1>2 DEF ToSet
  <2> QED BY <1>3, <2>1 DEF HonouringWords
<1>5. made \in Seq(HonouringWords)
  BY <1>2, <1>4
<1> QED BY <1>5 DEF made

\* Where no token fits up to a token boundary, none fits behind it.
LEMMA MadeNone ==
  ASSUME NEW stat, NEW X, NEW tokens \in Seq(X), pos \in Nat, begin2 = pos,
         NEW p \in Int, NEW q \in Int, BoundaryAt(constraint, p) = "token",
         FeatureAt(constraint, pos) # None => BoundaryAt(constraint, pos) = "token",
         Made(stat, tokens, p) = <<>>
  PROVE  Made(stat, tokens, q) = <<>>
<1> DEFINE N(past, k) == Node(stat, begin2, past - begin2, past - pos, tokens[k])
<1>1. \A k \in DOMAIN tokens : ~ IsValidNode(constraint, N(p, k))
  BY MadeAre
<1>2. ASSUME NEW past \in Int, NEW k \in DOMAIN tokens
      PROVE  /\ BeginOf(N(past, k)) = pos /\ EndOf(N(past, k)) = past
             /\ N(past, k).token = tokens[k]
  BY DEF Node, BeginOf, EndOf
<1>3. ASSUME NEW k \in DOMAIN tokens, IsValidNode(constraint, N(q, k)) PROVE FALSE
  <2>1. ~ IsValidNode(constraint, N(p, k))
    BY <1>1
  <2>2. BeginOf(N(p, k)) = pos /\ EndOf(N(p, k)) = p /\ N(p, k).token = tokens[k]
    BY <1>2
  <2>3. BeginOf(N(q, k)) = pos /\ EndOf(N(q, k)) = q /\ N(q, k).token = tokens[k]
    BY <1>2
  <2> HIDE DEF N
  <2> QED BY <1>3, <2>1, <2>2, <2>3 DEF IsValidNode
<1>4. Made(stat, tokens, q) = <<>> <=> \A k \in DOMAIN tokens : ~ IsValidNode(constraint, N(q, k))
  BY MadeAre
<1> QED BY <1>3, <1>4

\* The unknown words of a category.
LEMMA UnknownHonours ==
  ASSUME NEW info \in Infos, size \in Nat, pos \in Nat, begin2 = pos
  PROVE  /\ \A past \in pos+1..size : Within(past) => Unknown(past, info) \in Seq(HonouringWords)
         /\ \A p, q \in Int :
              /\ BoundaryAt(constraint, p) = "token"
              /\ FeatureAt(constraint, pos) # None => BoundaryAt(constraint, pos) = "token"
              /\ Unknown(p, info) = <<>>
              => Unknown(q, info) = <<>>
<1>1. PICK c \in DOMAIN Property : info = Property[c]
  BY DEF Infos
<1> DEFINE tokens == UnkTokens[info.default_type]
<1>2. tokens \in Seq(Tokens)
  BY <1>1, TokenizerAssumption
<1>3. tokens \in Seq(NodeTokens)
  <2>1. Tokens \subseteq NodeTokens
    BY DEF NodeTokens
  <2> HIDE DEF tokens
  <2> QED BY <1>2, <2>1
<1> HIDE DEF tokens
<1>4. \A past : Unknown(past, info) = Made("unk", tokens, past)
  BY DEF Unknown, tokens
<1>5. \A past \in pos+1..size : Within(past) => Made("unk", tokens, past) \in Seq(HonouringWords)
  BY <1>3, MadeHonours
<1>6. \A p, q \in Int :
              /\ BoundaryAt(constraint, p) = "token"
              /\ FeatureAt(constraint, pos) # None => BoundaryAt(constraint, pos) = "token"
              /\ Made("unk", tokens, p) = <<>>
              => Made("unk", tokens, q) = <<>>
  BY <1>3, MadeNone
<1> QED BY <1>4, <1>5, <1>6

\* What lookup reads up to: no token boundary before it, and one at it unless
\* the stretch is clipped there.
LEMMA LookupEndIs ==
  ASSUME IsText(sentence), size \in Nat, pos \in Nat, pos < size,
         BoundaryAt(constraint, size) = "token"
  PROVE  LET e == LookupEnd(sentence, constraint, pos)
         IN  /\ Within(e)
             /\ BoundaryAt(constraint, e) = "token" \/ e = pos + MaxLookup
<1> DEFINE e == LookupEnd(sentence, constraint, pos)
           bounds == { n \in pos+1..size-1 : BoundaryAt(constraint, n) = "token" }
           clipped == IF size - pos >= MaxLookup THEN pos + MaxLookup ELSE size
<1>1. e = IF bounds = {} THEN clipped ELSE Min(bounds)
  BY DEF LookupEnd, size
<1>2. MaxLookup \in Nat
  BY TokenizerAssumption
<1>3. CASE bounds = {}
  <2>1. e = clipped
    BY <1>1, <1>3
  <2> HIDE DEF e
  <2>2. clipped \in Int /\ clipped <= size
    BY <1>2
  <2>3. ASSUME NEW q \in pos+1..clipped-1 PROVE BoundaryAt(constraint, q) # "token"
    <3>1. q \in pos+1..size-1
      BY <2>2
    <3> QED BY <1>3, <3>1
  <2>4. Within(e)
    BY <2>1, <2>3 DEF Within
  <2>5. BoundaryAt(constraint, e) = "token" \/ e = pos + MaxLookup
    BY <2>1
  <2> QED BY <2>4, <2>5 DEF e
<1>4. CASE bounds # {}
  <2>1. e = Min(bounds)
    BY <1>1, <1>4
  <2> HIDE DEF e
  <2>2. bounds \in SUBSET (pos+1..size-1) /\ pos + 1 \in Int /\ size - 1 \in Int
    OBVIOUS
  <2>3. Min(bounds) \in bounds /\ \A k \in bounds : Min(bounds) <= k
    <3> HIDE DEF bounds
    <3> QED BY <1>4, <2>2, MinIsLeast, Zenon
  <2>4. PICK m \in pos+1..size-1 : m = e /\ BoundaryAt(constraint, m) = "token"
                                   /\ \A k \in bounds : m <= k
    BY <2>1, <2>3
  <2>5. ASSUME NEW q \in pos+1..m-1 PROVE BoundaryAt(constraint, q) # "token"
    <3>1. q \in pos+1..size-1 /\ ~ (m <= q)
      OBVIOUS
    <3> QED BY <2>4, <3>1
  <2>6. Within(e) /\ BoundaryAt(constraint, e) = "token"
    BY <2>4, <2>5 DEF Within
  <2> QED BY <2>6 DEF e
<1> QED BY <1>3, <1>4

\* The words of one dictionary end before the next token boundary, or at it.
LEMMA DictionaryHonours ==
  ASSUME NEW d \in DOMAIN Dictionaries, IsText(sentence), size \in Nat, pos \in Nat,
         begin2 = pos, end \in pos+1..size, Within(end)
  PROVE  LET lengths == PrefixLengths(Dictionaries[d], sentence, begin2, end - begin2)
         IN  FlattenSeq(Reverse([i \in DOMAIN lengths |->
               Made("nor", Dictionaries[d][SubSeq(sentence, begin2 + 1, begin2 + lengths[i])],
                    begin2 + lengths[i])])) \in Seq(HonouringWords)
<1> DEFINE dic == Dictionaries[d]
           lengths == PrefixLengths(dic, sentence, begin2, end - begin2)
           reach == IF end - begin2 = 0 THEN Len(sentence) - begin2 ELSE end - begin2
           ks == [k \in 1..reach |-> k]
           known == { k \in 1..reach : SubSeq(sentence, begin2 + 1, begin2 + k) \in DOMAIN dic }
           M(i) == Made("nor", dic[SubSeq(sentence, begin2 + 1, begin2 + lengths[i])], begin2 + lengths[i])
           lists == [i \in DOMAIN lengths |-> M(i)]
<1>1. reach \in Nat /\ begin2 + reach = end
  OBVIOUS
<1>2. lengths = Picked(ks, known)
  BY DEF PrefixLengths
<1> HIDE DEF lengths
<1>3. ks \in Seq(1..reach) /\ Len(ks) = reach /\ \A k \in 1..reach : ks[k] = k
  <2> HIDE DEF reach
  <2>1. ks \in [1..reach -> 1..reach]
    OBVIOUS
  <2> QED BY <1>1, <2>1
<1> HIDE DEF reach, ks, known
<1>4. lengths \in Seq(1..reach) /\ ToSet(lengths) = { ks[i] : i \in (1..Len(ks)) \intersect known }
  BY <1>2, <1>3, PickedElements
<1>5. \A i \in DOMAIN lengths : lengths[i] \in 1..reach /\ lengths[i] \in known
  <2> TAKE i \in DOMAIN lengths
  <2>1. lengths[i] \in ToSet(lengths)
    BY DEF ToSet
  <2>2. PICK j \in (1..Len(ks)) \intersect known : lengths[i] = ks[j]
    BY <1>4, <2>1
  <2>3. lengths[i] = j
    BY <1>3, <2>2
  <2> QED BY <1>3, <2>2, <2>3
<1>6. ASSUME NEW i \in DOMAIN lengths PROVE M(i) \in Seq(HonouringWords)
  <2> DEFINE w == SubSeq(sentence, begin2 + 1, begin2 + lengths[i])
             past == begin2 + lengths[i]
  <2>1. w \in DOMAIN dic
    BY <1>5, <1>6 DEF known
  <2>2. dic[w] \in Seq(Tokens)
    <3> HIDE DEF w
    <3> QED BY <2>1, TokenizerAssumption
  <2>3. Tokens \subseteq NodeTokens
    BY DEF NodeTokens
  <2>4. dic[w] \in Seq(NodeTokens)
    <3> HIDE DEF w, dic
    <3> QED BY <2>2, <2>3
  <2>50. PICK l \in 1..reach : l = lengths[i]
    BY <1>5, <1>6
  <2>5. past \in pos+1..size /\ past <= end
    BY <1>1, <2>50
  <2>6. Within(past)
    <3>1. \A q \in pos+1..past-1 : q \in pos+1..end-1
      BY <2>5
    <3> QED BY <3>1 DEF Within
  <2>7. Made("nor", dic[w], past) \in Seq(HonouringWords)
    <3> HIDE DEF w, dic, past
    <3> QED BY <2>4, <2>5, <2>6, MadeHonours
  <2> QED BY <2>7
<1>7. lists \in Seq(Seq(HonouringWords))
  <2>1. DOMAIN lengths = 1..Len(lengths) /\ Len(lengths) \in Nat
    BY <1>4
  <2> HIDE DEF M
  <2>2. lists \in [1..Len(lengths) -> Seq(HonouringWords)]
    BY <1>6, <2>1
  <2> HIDE DEF lists
  <2> QED BY <2>1, <2>2
<1> HIDE DEF lists
<1>8. Reverse(lists) \in Seq(Seq(HonouringWords))
  BY <1>7, ReverseElements
<1>9. FlattenSeq(Reverse(lists)) \in Seq(HonouringWords)
  BY <1>8, FlattenElements
<1> QED BY <1>9 DEF lists, lengths

(* What the stages of a lookup under constraints start from. *)
LEMMA HonouringReady ==
  ASSUME TextInv, LookupInv, TokensInv, FoundInv, HasConstraint(constraint),
         LookingUp \/ place = "lookup"
  PROVE  /\ size \in Nat /\ pos \in Nat /\ pos < size /\ IsText(sentence)
         /\ BoundaryAt(constraint, size) = "token" /\ KeepsToTokens(constraint, size)
         /\ FeatureAt(constraint, pos) # None => BoundaryAt(constraint, pos) = "token"
         /\ LookingUp =>
              /\ begin2 = pos /\ end \in pos+1..size /\ end \in Nat /\ begin3 \in Nat
              /\ begin3 \in pos+1..end+1 /\ Within(end) /\ cinfo \in Infos
              /\ BoundaryAt(constraint, end) = "token" \/ end = pos + MaxLookup
              /\ found \in Seq(HonouringWords)
              /\ \A p \in pos+1..end : Within(p)
<1>0. place # "initPartial"
  BY DEF LookingUp
<1>1. /\ size \in Nat /\ pos \in Nat /\ pos < size /\ IsText(sentence)
      /\ LookingUp => /\ end \in Nat /\ begin2 \in Nat /\ begin3 \in Nat
                      /\ end \in pos+1 .. size /\ begin2 \in pos .. end
                      /\ begin3 \in begin2+1 .. end+1 /\ begin3 \in pos+1..size+1
  BY LookupReady
<1>2. BoundaryAt(constraint, size) = "token" /\ KeepsToTokens(constraint, size)
  BY <1>0 DEF TokensInv
<1>3. FeatureAt(constraint, pos) # None => BoundaryAt(constraint, pos) = "token"
  <2>1. pos \in 0..size-1
    BY <1>1
  <2> QED BY <1>2, <2>1 DEF KeepsToTokens
<1>4. ASSUME LookingUp
      PROVE  /\ begin2 = pos /\ end \in pos+1..size /\ begin3 \in pos+1..end+1 /\ Within(end)
             /\ BoundaryAt(constraint, end) = "token" \/ end = pos + MaxLookup
             /\ found \in Seq(HonouringWords) /\ cinfo \in Infos
             /\ \A p \in pos+1..end : Within(p)
  <2>1. begin2 = pos /\ found \in Seq(WordsAt(pos, size)) /\ cinfo \in Infos
    BY <1>4 DEF LookupInv
  <2>2. /\ Within(end) /\ \A n \in ToSet(found) : Honours(n)
        /\ BoundaryAt(constraint, end) = "token" \/ end = pos + MaxLookup
    BY <1>4 DEF FoundInv
  <2>3. \A i \in 1..Len(found) : found[i] \in HonouringWords
    <3> TAKE i \in 1..Len(found)
    <3>1. found[i] \in ToSet(found) /\ found[i] \in WordsAt(pos, size)
      BY <2>1 DEF ToSet
    <3> QED BY <2>2, <3>1 DEF HonouringWords
  <2>4. found \in Seq(HonouringWords)
    BY <2>1, <2>3
  <2>5. ASSUME NEW p \in pos+1..end PROVE Within(p)
    <3>1. \A q \in pos+1..p-1 : q \in pos+1..end-1
      BY <1>1, <1>4
    <3> QED BY <2>2, <3>1 DEF Within
  <2> QED BY <1>1, <1>4, <2>1, <2>2, <2>4, <2>5
<1> QED BY <1>1, <1>2, <1>3, <1>4

(* What a stage that follows has to show. *)
LEMMA HonouringGoesOn ==
  ASSUME HasConstraint(constraint), UNCHANGED sentenceVars,
         LookingUp' =>
            /\ end' \in Int /\ \A q \in pos+1..end'-1 : BoundaryAt(constraint, q) # "token"
            /\ BoundaryAt(constraint, end') = "token" \/ end' = pos + MaxLookup
            /\ found' \in Seq(HonouringWords),
         place' \in {"count", "single"} /\ found' = <<>> /\ begin3' > end' => Unknown(end, cinfo)' = <<>>,
         place' = "force" => /\ \A q \in pos+1..begin3'-1 : BoundaryAt(constraint, q) # "token"
                             /\ begin3' <= size /\ BoundaryAt(constraint, begin3') # "inside"
  PROVE  FoundInv'
<1>1. sentence' = sentence /\ constraint' = constraint /\ pos' = pos /\ size' = size
  BY DEF sentenceVars, size
<1>2. \A n : Honours(n)' = Honours(n)
  BY <1>1 DEF Honours
<1>3. ASSUME LookingUp', NEW n \in ToSet(found') PROVE Honours(n)'
  <2>1. found' \in Seq(HonouringWords)
    BY <1>3
  <2>2. n \in HonouringWords
    BY <1>3, <2>1 DEF ToSet
  <2> QED BY <1>2, <2>2 DEF HonouringWords
<1>4. LookingUp' => Within(end)'
  BY <1>1 DEF Within
<1>5. place' = "force" => Within(begin3)'
  BY <1>1 DEF Within
<1> QED BY <1>1, <1>3, <1>4, <1>5 DEF FoundInv

\* A lookup starts within its limits.
LEMMA SkipSpaceHonours ==
  ASSUME TextInv, LookupInv, TokensInv, FoundInv, HasConstraint(constraint), SkipSpace
  PROVE  FoundInv'
<1>1. /\ place = "lookup" /\ place' = "dictionary" /\ UNCHANGED sentenceVars
      /\ end' = LookupEnd(sentence, constraint, pos) /\ found' = <<>>
  BY DEF SkipSpace, Stage
<1>2. /\ size \in Nat /\ pos \in Nat /\ pos < size /\ IsText(sentence)
      /\ BoundaryAt(constraint, size) = "token"
  BY <1>1, HonouringReady
<1>3. end' \in pos+1..size
  BY <1>1, <1>2, LookupEndType DEF size
<1>4. /\ \A q \in pos+1..end'-1 : BoundaryAt(constraint, q) # "token"
      /\ BoundaryAt(constraint, end') = "token" \/ end' = pos + MaxLookup
  BY <1>1, <1>2, LookupEndIs DEF Within
<1>5. end' \in Int
  BY <1>2, <1>3
<1>6. found' \in Seq(HonouringWords)
  BY <1>1
<1> QED BY <1>1, <1>4, <1>5, <1>6, HonouringGoesOn

\* The words of the dictionaries keep to the constraints.
LEMMA SearchDictionariesHonours ==
  ASSUME TextInv, LookupInv, TokensInv, FoundInv, HasConstraint(constraint), SearchDictionaries
  PROVE  FoundInv'
<1>1. /\ place = "dictionary" /\ UNCHANGED <<sentenceVars, end, begin2, begin3, group_begin3, cinfo>>
      /\ place' \in {"connect", "blank", "group"}
  BY DEF SearchDictionaries
<1>2. LookingUp
  BY <1>1 DEF LookingUp
<1>3. /\ size \in Nat /\ pos \in Nat /\ IsText(sentence) /\ begin2 = pos /\ end \in pos+1..size
      /\ end \in Nat /\ Within(end) /\ (BoundaryAt(constraint, end) = "token" \/ end = pos + MaxLookup)
  BY <1>2, HonouringReady
<1> DEFINE Prefixed(dic) ==
             LET lengths == PrefixLengths(dic, sentence, begin2, end - begin2)
             IN  FlattenSeq(Reverse([i \in DOMAIN lengths |->
                   Made("nor", dic[SubSeq(sentence, begin2 + 1, begin2 + lengths[i])],
                        begin2 + lengths[i])]))
           lists == [d \in DOMAIN Dictionaries |-> Prefixed(Dictionaries[d])]
<1>4. \A d \in DOMAIN Dictionaries : Prefixed(Dictionaries[d]) \in Seq(HonouringWords)
  BY <1>3, DictionaryHonours
<1>5. found' = FlattenSeq(Reverse(lists))
  BY DEF SearchDictionaries
<1> HIDE DEF Prefixed
<1>6. lists \in Seq(Seq(HonouringWords))
  <2>1. DOMAIN Dictionaries = 1..Len(Dictionaries) /\ Len(Dictionaries) \in Nat
    BY TokenizerAssumption
  <2>2. lists \in [1..Len(Dictionaries) -> Seq(HonouringWords)]
    BY <1>4, <2>1
  <2> HIDE DEF lists
  <2> QED BY <2>1, <2>2
<1> HIDE DEF lists
<1>7. found' \in Seq(HonouringWords)
  BY <1>5, <1>6, ReverseElements, FlattenElements
<1>8. end' = end /\ \A q \in pos+1..end-1 : BoundaryAt(constraint, q) # "token"
  BY <1>1, <1>3 DEF Within
<1> QED BY <1>1, <1>3, <1>7, <1>8, HonouringGoesOn

\* So do the unknown words of a group.
LEMMA AddGroupHonours ==
  ASSUME TextInv, LookupInv, TokensInv, FoundInv, HasConstraint(constraint), AddGroup
  PROVE  FoundInv'
<1>1. /\ place = "group" /\ place' = "count" /\ UNCHANGED <<sentenceVars, end, begin2, begin3, cinfo>>
  BY DEF AddGroup, Stage
<1>2. LookingUp /\ begin3 <= end
  BY <1>1 DEF LookingUp, LookupInv
<1>3. /\ size \in Nat /\ pos \in Nat /\ IsText(sentence) /\ begin2 = pos /\ end \in pos+1..size
      /\ end \in Nat /\ begin3 \in Nat /\ begin3 \in pos+1..end+1 /\ cinfo \in Infos
      /\ Within(end) /\ (BoundaryAt(constraint, end) = "token" \/ end = pos + MaxLookup)
      /\ found \in Seq(HonouringWords) /\ \A p \in pos+1..end : Within(p)
  BY <1>2, HonouringReady
<1>4. found' \in Seq(HonouringWords)
  <2>1. CASE cinfo.group
    <3>1. group_begin3' = SeekToOtherType(sentence, begin3, end, cinfo)
          /\ found' = IF group_begin3' - begin3 <= MaxGroupingSize
                      THEN Unknown(group_begin3', cinfo) \o found ELSE found
      BY <2>1 DEF AddGroup
    <3>2. end <= Len(sentence)
      BY <1>3 DEF size
    <3>3. group_begin3' \in begin3..end
      BY <1>2, <1>3, <3>1, <3>2, SeekStops
    <3>4. group_begin3' \in pos+1..end /\ group_begin3' \in pos+1..size
      BY <1>3, <3>3
    <3>5. Unknown(group_begin3', cinfo) \in Seq(HonouringWords)
      BY <1>3, <3>4, UnknownHonours
    <3> HIDE DEF Unknown
    <3> QED BY <1>3, <3>1, <3>5
  <2>2. CASE ~ cinfo.group
    BY <1>3, <2>2 DEF AddGroup
  <2> QED BY <2>1, <2>2
<1>5. end' = end /\ \A q \in pos+1..end-1 : BoundaryAt(constraint, q) # "token"
  BY <1>1, <1>3 DEF Within
<1>6. ~ (begin3' > end')
  BY <1>1, <1>2, <1>3
<1> QED BY <1>1, <1>3, <1>4, <1>5, <1>6, HonouringGoesOn

\* And those of a counted length; behind the limit the last one has been tried.
LEMMA AddCountedHonours ==
  ASSUME TextInv, LookupInv, TokensInv, FoundInv, HasConstraint(constraint), AddCounted
  PROVE  FoundInv'
<1>1. /\ place = "count" /\ begin3 <= end /\ UNCHANGED <<sentenceVars, end, begin2, group_begin3, cinfo>>
      /\ found' = Unknown(begin3, cinfo) \o found
      /\ \/ begin3' = begin3 + 1 /\ place' = "count"
         \/ begin3' = begin3 /\ place' = "single"
  BY DEF AddCounted, Counting
<1>2. LookingUp
  BY <1>1 DEF LookingUp
<1>3. /\ size \in Nat /\ pos \in Nat /\ begin2 = pos /\ end \in pos+1..size
      /\ end \in Nat /\ begin3 \in Nat /\ begin3 \in pos+1..end+1 /\ cinfo \in Infos
      /\ Within(end) /\ (BoundaryAt(constraint, end) = "token" \/ end = pos + MaxLookup)
      /\ found \in Seq(HonouringWords) /\ \A p \in pos+1..end : Within(p)
  BY <1>2, HonouringReady
<1>4. begin3 \in pos+1..end /\ begin3 \in pos+1..size
  BY <1>1, <1>3
<1>5. Unknown(begin3, cinfo) \in Seq(HonouringWords)
  BY <1>3, <1>4, UnknownHonours
<1> DEFINE u == Unknown(begin3, cinfo)
<1>6. u \in Seq(HonouringWords) /\ found' = u \o found
  BY <1>1, <1>5
<1> HIDE DEF u
<1>7. found' \in Seq(HonouringWords) /\ (found' = <<>> => u = <<>>)
  BY <1>3, <1>6
<1>8. ASSUME found' = <<>>, begin3' > end' PROVE Unknown(end, cinfo)' = <<>>
  <2>1. end' = end
    BY <1>1
  <2>2. begin3 = end
    BY <1>1, <1>3, <1>8, <2>1
  <2>3. Unknown(end, cinfo) = <<>>
    BY <1>7, <1>8, <2>2 DEF u
  <2>4. sentence' = sentence /\ constraint' = constraint /\ pos' = pos /\ begin2' = begin2
        /\ cinfo' = cinfo
    BY <1>1 DEF sentenceVars
  <2>5. Unknown(end, cinfo)' = Unknown(end, cinfo)
    BY <2>1, <2>4 DEF Unknown, Made, Valid
  <2> QED BY <2>3, <2>5
<1>9. end' = end /\ \A q \in pos+1..end-1 : BoundaryAt(constraint, q) # "token"
  BY <1>1, <1>3 DEF Within
<1>10. place' # "force"
  BY <1>1
<1> QED BY <1>1, <1>3, <1>7, <1>8, <1>9, <1>10, HonouringGoesOn

\* The end of the count changes nothing.
LEMMA EndCountingHonours ==
  ASSUME TextInv, LookupInv, TokensInv, FoundInv, HasConstraint(constraint), EndCounting
  PROVE  FoundInv'
<1>1. /\ place = "count" /\ place' = "single"
      /\ UNCHANGED <<sentenceVars, end, begin2, begin3, group_begin3, cinfo, found>>
  BY DEF EndCounting, Stage
<1>2. LookingUp
  BY <1>1 DEF LookingUp
<1>3. /\ pos \in Nat /\ end \in Nat
      /\ Within(end) /\ (BoundaryAt(constraint, end) = "token" \/ end = pos + MaxLookup)
      /\ found \in Seq(HonouringWords)
  BY <1>2, HonouringReady
<1>4. found = <<>> /\ begin3 > end => Unknown(end, cinfo) = <<>>
  BY <1>1 DEF FoundInv
<1>5. Unknown(end, cinfo)' = Unknown(end, cinfo)
  BY <1>1 DEF Unknown, Made, Valid, sentenceVars
<1>6. end' = end /\ found' = found /\ begin3' = begin3
      /\ \A q \in pos+1..end-1 : BoundaryAt(constraint, q) # "token"
  BY <1>1, <1>3 DEF Within
<1> QED BY <1>1, <1>3, <1>4, <1>5, <1>6, HonouringGoesOn

\* The single character may lie behind the limit; it is no word where that is
\* a token boundary.
LEMMA AddSingleHonours ==
  ASSUME TextInv, LookupInv, TokensInv, FoundInv, HasConstraint(constraint), AddSingle
  PROVE  FoundInv'
<1>1. /\ place = "single" /\ UNCHANGED <<sentenceVars, end, begin2, begin3, group_begin3, cinfo>>
      /\ found' = IF found = <<>> THEN Unknown(begin3, cinfo) ELSE found
      /\ place' = IF found' = <<>> /\ HasConstraint(constraint) THEN "stretch" ELSE "connect"
  BY DEF AddSingle
<1>2. LookingUp /\ place' \in {"stretch", "connect"}
  BY <1>1 DEF LookingUp
<1>3. /\ size \in Nat /\ pos \in Nat /\ begin2 = pos /\ end \in pos+1..size
      /\ end \in Nat /\ begin3 \in Nat /\ begin3 \in pos+1..end+1 /\ cinfo \in Infos
      /\ Within(end) /\ (BoundaryAt(constraint, end) = "token" \/ end = pos + MaxLookup)
      /\ found \in Seq(HonouringWords) /\ \A p \in pos+1..end : Within(p)
      /\ BoundaryAt(constraint, size) = "token"
      /\ FeatureAt(constraint, pos) # None => BoundaryAt(constraint, pos) = "token"
  BY <1>2, HonouringReady
<1>4. found = <<>> => Unknown(begin3, cinfo) \in Seq(HonouringWords)
  <2>1. CASE begin3 \in pos+1..end
    <3>1. begin3 \in pos+1..size /\ Within(begin3)
      BY <1>3, <2>1
    <3> QED BY <1>3, <3>1, UnknownHonours
  <2>2. CASE begin3 \notin pos+1..end
    <3> SUFFICES ASSUME found = <<>> PROVE Unknown(begin3, cinfo) \in Seq(HonouringWords)
      OBVIOUS
    <3>1. begin3 = end + 1 /\ begin3 > end
      BY <1>3, <2>2
    <3>2. Unknown(end, cinfo) = <<>>
      BY <1>1, <3>1 DEF FoundInv
    <3>3. CASE BoundaryAt(constraint, end) = "token"
      <4>1. end \in Int /\ begin3 \in Int
        BY <1>3
      <4>2. Unknown(begin3, cinfo) = <<>>
        BY <1>3, <3>2, <3>3, <4>1, UnknownHonours
      <4> QED BY <4>2
    <3>4. CASE BoundaryAt(constraint, end) # "token"
      <4>1. end < size
        BY <1>3, <3>4
      <4>2. begin3 \in pos+1..size
        BY <1>3, <3>1, <4>1
      <4>3. Within(begin3)
        <5>1. ASSUME NEW q \in pos+1..begin3-1 PROVE BoundaryAt(constraint, q) # "token"
          <6>1. CASE q = end
            BY <3>4, <6>1
          <6>2. CASE q # end
            <7>1. q \in pos+1..end-1
              BY <1>3, <3>1, <6>2
            <7> QED BY <1>3, <7>1 DEF Within
          <6> QED BY <6>1, <6>2
        <5> QED BY <5>1 DEF Within
      <4> QED BY <1>3, <4>2, <4>3, UnknownHonours
    <3> QED BY <3>3, <3>4
  <2> QED BY <2>1, <2>2
<1>5. found' \in Seq(HonouringWords)
  BY <1>1, <1>3, <1>4
<1>6. end' = end /\ \A q \in pos+1..end-1 : BoundaryAt(constraint, q) # "token"
  BY <1>1, <1>3 DEF Within
<1> QED BY <1>1, <1>2, <1>3, <1>5, <1>6, HonouringGoesOn

\* The stretched word ends at the first place where a token may end: one comes
\* before the limit or at the character behind it.
LEMMA AddStretchedHonours ==
  ASSUME TextInv, LookupInv, TokensInv, FoundInv, HasConstraint(constraint), AddStretched
  PROVE  FoundInv'
<1>1. /\ place = "stretch" /\ UNCHANGED <<sentenceVars, end, begin2, group_begin3>>
      /\ cinfo' = Info(sentence, begin3' - 1)
      /\ found' = Unknown(begin3', cinfo')
      /\ place' = IF found' # <<>> THEN "connect" ELSE "force"
  BY DEF AddStretched
<1>2. LookingUp
  BY <1>1 DEF LookingUp
<1>3. /\ size \in Nat /\ pos \in Nat /\ pos < size /\ begin2 = pos /\ end \in pos+1..size
      /\ end \in Nat /\ IsText(sentence)
      /\ Within(end) /\ (BoundaryAt(constraint, end) = "token" \/ end = pos + MaxLookup)
      /\ BoundaryAt(constraint, size) = "token" /\ KeepsToTokens(constraint, size)
  BY <1>2, HonouringReady
<1> DEFINE Free(p) == p > end \/ BoundaryAt(constraint, p) # "inside"
           First(p) == /\ Free(p)
                       /\ \A q \in begin2+1..p-1 : q <= end /\ BoundaryAt(constraint, q) = "inside"
           S == { p \in begin2+1..end+1 : Free(p) }
<1>4. begin3' = CHOOSE p \in begin2+1..Len(sentence)+1 : First(p)
  BY DEF AddStretched
<1>5. end + 1 \in S
  BY <1>3
<1> HIDE DEF Free
<1>6. PICK m \in S : \A k \in S : m <= k
  <2>1. S \in SUBSET (begin2+1..end+1) /\ S # {} /\ begin2+1 \in Int /\ end+1 \in Int
    BY <1>3, <1>5
  <2> HIDE DEF S
  <2> QED BY <2>1, LeastExists
<1>7. m \in begin2+1..Len(sentence)+1 /\ First(m)
  <2>1. ASSUME NEW q \in begin2+1..m-1 PROVE q <= end /\ BoundaryAt(constraint, q) = "inside"
    <3>1. q \in begin2+1..end+1 /\ ~ (m <= q)
      BY <1>3, <1>6, <2>1
    <3>2. ~ Free(q)
      BY <1>6, <3>1
    <3> QED BY <1>3, <3>1, <3>2 DEF Free
  <2> QED BY <1>3, <1>6, <2>1 DEF size
<1>9. begin3' \in begin2+1..Len(sentence)+1 /\ First(begin3')
  <2> HIDE DEF First
  <2> QED BY <1>4, <1>7
<1>10. PICK p \in pos+1..size+1 : /\ p = begin3' /\ First(p)
  BY <1>3, <1>9 DEF size
<1>11. \A q \in pos+1..p-1 : q <= end /\ BoundaryAt(constraint, q) = "inside"
  BY <1>3, <1>10
<1>12. p <= size /\ BoundaryAt(constraint, p) # "inside"
  <2>1. CASE p <= end
    BY <1>3, <1>10, <2>1 DEF Free
  <2>2. CASE p > end
    <3>1. end \in pos+1..p-1
      <4>1. end \in pos+1..size /\ pos \in Nat /\ size \in Nat /\ p > end
        BY <1>3, <2>2
      <4> QED BY <4>1
    <3>2. BoundaryAt(constraint, end) = "inside" /\ end = pos + MaxLookup /\ end # size
      BY <1>3, <1>11, <3>1
    <3>3. p <= end + 1
      <4> SUFFICES ASSUME p > end + 1 PROVE FALSE
        BY <1>3
      <4>1. end + 1 \in pos+1..p-1
        BY <1>3
      <4>2. end + 1 <= end
        BY <1>11, <4>1
      <4> QED BY <1>3, <4>2
    <3>4. p = end + 1
      BY <1>3, <2>2, <3>3
    <3>5. PICK q \in pos+1..size : q <= pos + MaxLookup + 1 /\ BoundaryAt(constraint, q) # "inside"
      <4>1. pos \in 0..size-1
        BY <1>3
      <4> QED BY <1>3, <4>1 DEF KeepsToTokens
    <3>6. q = p
      <4>1. q <= p
        BY <3>2, <3>4, <3>5
      <4>2. q \notin pos+1..p-1
        BY <1>11, <3>5
      <4> QED BY <4>1, <4>2
    <3>7. p <= size
      BY <1>3, <3>2, <3>4
    <3> QED BY <3>5, <3>6, <3>7
  <2> QED BY <1>3, <2>1, <2>2
<1>13. \A q \in pos+1..p-1 : BoundaryAt(constraint, q) # "token"
  BY <1>11
<1>14. found' \in Seq(HonouringWords)
  <2>1. PICK info \in Infos : info = cinfo'
    <3>1. p - 1 \in Nat
      BY <1>3
    <3> QED BY <1>1, <1>3, <1>10, <3>1, InfoType
  <2>2. p \in pos+1..size /\ Within(p)
    BY <1>3, <1>12, <1>13 DEF Within
  <2>3. Unknown(p, info) \in Seq(HonouringWords)
    BY <1>3, <2>2, UnknownHonours
  <2> QED BY <1>1, <1>10, <2>1, <2>3
<1>15. end' = end /\ \A q \in pos+1..end-1 : BoundaryAt(constraint, q) # "token"
  BY <1>1, <1>3 DEF Within
<1>16. place' \notin {"count", "single"}
  BY <1>1
<1>17. end' \in Int
  BY <1>3, <1>15
<1>18. /\ \A q \in pos+1..begin3'-1 : BoundaryAt(constraint, q) # "token"
       /\ begin3' <= size /\ BoundaryAt(constraint, begin3') # "inside"
  BY <1>10, <1>12, <1>13
<1> QED BY <1>1, <1>3, <1>14, <1>15, <1>16, <1>17, <1>18, HonouringGoesOn

\* The forced word has the feature of the constraint.
LEMMA AddForcedHonours ==
  ASSUME TextInv, LookupInv, TokensInv, FoundInv, HasConstraint(constraint), AddForced
  PROVE  FoundInv'
<1> DEFINE f == FeatureAt(constraint, pos)
           n == Node("unk", begin2, begin3 - begin2, begin3 - pos, [NullToken EXCEPT !.feature = f])
<1>1. /\ place = "force" /\ UNCHANGED <<sentenceVars, end, begin2, begin3, group_begin3, cinfo>>
      /\ found' = <<n>>
      /\ place' \in {"died", "connect"}
  BY DEF AddForced
<1>2. LookingUp
  BY <1>1 DEF LookingUp
<1>3. /\ size \in Nat /\ pos \in Nat /\ begin2 = pos /\ end \in Nat /\ begin3 \in Nat
      /\ Within(end) /\ (BoundaryAt(constraint, end) = "token" \/ end = pos + MaxLookup)
  BY <1>2, HonouringReady
<1>4. Within(begin3) /\ begin3 <= size /\ BoundaryAt(constraint, begin3) # "inside"
  BY <1>1 DEF FoundInv
<1>5. ToSet(found') = {n} /\ found' \in Seq({n})
  <2> HIDE DEF n
  <2>1. <<n>> \in Seq({n}) /\ DOMAIN <<n>> = {1} /\ <<n>>[1] = n
    OBVIOUS
  <2> QED BY <1>1, <2>1 DEF ToSet
<1>6. Honours(n)
  <2>1. BeginOf(n) = pos /\ EndOf(n) = begin3 /\ n.surface = pos /\ n.token.feature = f
    BY <1>3 DEF Node, BeginOf, EndOf, NullToken
  <2>2. PartialMatch(f, f)
    BY DEF PartialMatch
  <2> HIDE DEF n, f
  <2>3. f = FeatureAt(constraint, pos)
    BY DEF f
  <2> QED BY <1>4, <2>1, <2>2, <2>3 DEF Honours, Within
<1>7. (found' \in Seq(HonouringWords) /\ place' = "connect") \/ ~ LookingUp'
  <2>1. TextInv' /\ LookupInv' /\ pos' = pos /\ size' = size
    BY <1>1, AddForcedInv DEF sentenceVars, size
  <2>2. CASE place' = "died"
    BY <2>2 DEF LookingUp
  <2>3. CASE place' = "connect"
    <3>1. LookingUp'
      BY <2>3 DEF LookingUp
    <3>2. found' \in Seq(WordsAt(pos, size)')
      BY <2>1, <3>1 DEF LookupInv
    <3>3. found'[1] = n /\ 1 \in DOMAIN found'
      <4> HIDE DEF n
      <4> QED BY <1>1
    <3>4. found'[1] \in WordsAt(pos, size)'
      BY <3>2, <3>3
    <3>5. WordsAt(pos, size)' = WordsAt(pos, size)
      BY <2>1 DEF WordsAt
    <3>6. n \in HonouringWords
      <4> HIDE DEF n
      <4> QED BY <1>6, <3>3, <3>4, <3>5 DEF HonouringWords
    <3> HIDE DEF n
    <3> QED BY <1>1, <2>3, <3>6
  <2> QED BY <1>1, <2>2, <2>3
<1>8. end' = end /\ \A q \in pos+1..end-1 : BoundaryAt(constraint, q) # "token"
  BY <1>1, <1>3 DEF Within
<1>9. place' \notin {"count", "single", "force"}
  BY <1>1
<1> HIDE DEF n, f
<1> QED BY <1>1, <1>3, <1>7, <1>8, <1>9, HonouringGoesOn

\* Under constraints every stage of a lookup keeps to them.
LEMMA LookupHonours ==
  ASSUME TextInv, LookupInv, TokensInv, FoundInv, Lookup PROVE FoundInv'
<1>1. CASE ~ HasConstraint(constraint)
  <2>1. constraint' = constraint
    BY DEF Lookup, sentenceVars, SkipSpace, SearchDictionaries, AddBlank, AddGroup,
           AddCounted, EndCounting, AddSingle, AddStretched, AddForced
  <2> QED BY <1>1, <2>1 DEF FoundInv
<1>2. CASE HasConstraint(constraint)
  <2>1. ~ AddBlank
    BY <1>2 DEF AddBlank, LookupInv
  <2> QED BY <1>2, <2>1, SkipSpaceHonours, SearchDictionariesHonours, AddGroupHonours,
             AddCountedHonours, EndCountingHonours, AddSingleHonours, AddStretchedHonours,
             AddForcedHonours DEF Lookup
<1> QED BY <1>1, <1>2

\* set_boundary sets one position and leaves the others.
LEMMA SetBoundaryAt ==
  ASSUME NEW c, NEW n \in Nat, IsConstraint(c, n), NEW p \in 0..n+3, NEW type
  PROVE  LET d == SetBoundary(c, n, p, type)
         IN  /\ BoundaryAt(d, p) = type
             /\ \A q \in 0..n+3 : q # p => BoundaryAt(d, q) = BoundaryAt(c, q)
<1> DEFINE d == SetBoundary(c, n, p, type)
           b == [q \in 0..n+3 |-> IF q = p THEN type ELSE BoundaryAt(c, q)]
<1>1. d = [c EXCEPT !.boundary = b] /\ DOMAIN b = 0..n+3
  BY DEF SetBoundary
<1>2. b[p] = type /\ \A q \in 0..n+3 : q # p => b[q] = BoundaryAt(c, q)
  OBVIOUS
<1>3. 0 \in DOMAIN b
  OBVIOUS
<1> HIDE DEF b, d
<1>4. c = [boundary |-> c.boundary, feature |-> c.feature]
  BY DEF IsConstraint, NoConstraint
<1>5. d.boundary = b
  BY <1>1, <1>4
<1>6. b # <<>>
  BY <1>3
<1>7. \A q : BoundaryAt(d, q) = b[q]
  BY <1>5, <1>6 DEF BoundaryAt, HasConstraint
<1>8. BoundaryAt(d, p) = type /\ \A q \in 0..n+3 : q # p => BoundaryAt(d, q) = BoundaryAt(c, q)
  BY <1>2, <1>7
<1> QED BY <1>8 DEF d

\* A text of lines begins and ends at a token boundary.
LEMMA LinesClosed ==
  ASSUME NEW X, NEW lines \in Seq(X), lines # <<>>, Len(TextOfLines(lines)) \in Nat
  PROVE  /\ BoundaryAt(ConstraintOfLines(lines), 0) = "token"
         /\ BoundaryAt(ConstraintOfLines(lines), Len(TextOfLines(lines))) = "token"
<1> DEFINE total == Len(TextOfLines(lines))
           begin == [k \in 1..Len(lines)+1 |-> Len(TextOfLines(SubSeq(lines, 1, k - 1)))]
           Inside(k, q) == begin[k] < q /\ q < begin[k + 1] /\ lines[k].feature # None
           BeginsAt(k, q) == begin[k] = q /\ lines[k].feature # None
           b == [q \in 0..total+3 |->
                  IF q \in Range(begin) THEN "token"
                  ELSE IF \E k \in DOMAIN lines : Inside(k, q) THEN "inside" ELSE "any"]
           f == [q \in 0..total+3 |->
                  IF \E k \in DOMAIN lines : BeginsAt(k, q)
                  THEN lines[CHOOSE k \in DOMAIN lines : BeginsAt(k, q)].feature ELSE None]
<1>1. ConstraintOfLines(lines) = [boundary |-> b, feature |-> f]
  BY DEF ConstraintOfLines
<1>2. Len(lines) \in Nat /\ Len(lines) # 0
  OBVIOUS
<1>3. begin[1] = 0
  <2>1. SubSeq(lines, 1, 0) = <<>>
    BY <1>2
  <2>2. TextOfLines(<<>>) = <<>>
    <3>1. [i \in DOMAIN <<>> |-> <<>>[i].surface] = <<>>
      OBVIOUS
    <3>2. FlattenSeq(<<>>) = <<>>
      <4>1. \A Y : FlattenSeq(<<>>) \in Seq(Y)
        <5>1. \A Y : <<>> \in Seq(Seq(Y))
          OBVIOUS
        <5> QED BY <5>1, FlattenElements
      <4>2. FlattenSeq(<<>>) \in Seq({})
        BY <4>1
      <4> QED BY <4>2
    <3> QED BY <3>1, <3>2 DEF TextOfLines
  <2>3. begin[1] = Len(TextOfLines(SubSeq(lines, 1, 1 - 1)))
    BY <1>2
  <2>4. Len(TextOfLines(SubSeq(lines, 1, 0))) = 0
    <3>1. Len(<<>>) = 0
      OBVIOUS
    <3>2. Len(TextOfLines(<<>>)) = 0
      BY <2>2, <3>1, Zenon
    <3> QED BY <2>1, <3>2, Zenon
  <2> QED BY <2>3, <2>4
<1>4. begin[Len(lines) + 1] = total
  <2>1. SubSeq(lines, 1, Len(lines)) = lines
    BY <1>2
  <2>2. begin[Len(lines) + 1] = Len(TextOfLines(SubSeq(lines, 1, (Len(lines) + 1) - 1)))
    BY <1>2
  <2>3. (Len(lines) + 1) - 1 = Len(lines)
    BY <1>2
  <2> QED BY <2>1, <2>2, <2>3
<1>5. DOMAIN begin = 1..Len(lines)+1 /\ 1 \in 1..Len(lines)+1 /\ Len(lines)+1 \in 1..Len(lines)+1
  BY <1>2
<1> HIDE DEF begin
<1>6. 0 \in Range(begin) /\ total \in Range(begin)
  BY <1>3, <1>4, <1>5 DEF Range
<1>7. 0 \in 0..total+3 /\ total \in 0..total+3
  OBVIOUS
<1>8. b[0] = "token" /\ b[total] = "token" /\ 0 \in DOMAIN b
  <2> HIDE DEF total, Inside
  <2> QED BY <1>6, <1>7
<1> HIDE DEF b, f, total
<1>9. b # <<>>
  BY <1>8
<1>10. \A q : BoundaryAt(ConstraintOfLines(lines), q) = b[q]
  BY <1>1, <1>9 DEF BoundaryAt, HasConstraint
<1>11. BoundaryAt(ConstraintOfLines(lines), 0) = "token" /\ BoundaryAt(ConstraintOfLines(lines), total) = "token"
  BY <1>8, <1>10
<1> QED BY <1>11 DEF total

\* initPartial closes the constraints.
LEMMA InitPartialTokens ==
  ASSUME ConstraintsFit, StartInv, InitPartial
  PROVE  TokensInv'
<1>1. PICK input \in Inputs : /\ sentence = input.text /\ request = input.request
                              /\ constraint = input.constraint
  BY DEF InitPartial, StartInv
<1>2. size' \in Nat
  BY InitPartialText
<1> SUFFICES ASSUME HasConstraint(constraint')
             PROVE  /\ BoundaryAt(constraint', 0) = "token" /\ BoundaryAt(constraint', size') = "token"
                    /\ KeepsToTokens(constraint', size')
  BY DEF TokensInv
<1>3. CASE "PARTIAL" \notin request
  <2>1. /\ IsText(input.text) /\ IsConstraint(constraint, Len(input.text))
    BY <1>1, <1>3, InputsAssumption
  <2>2. /\ constraint' = ClosedConstraint(constraint, size) /\ size' = size /\ size = Len(input.text)
    BY <1>1, <1>3 DEF InitPartial, size
  <2>3. KeepsToTokens(constraint', size')
    <3>1. HasConstraint(ClosedConstraint(input.constraint, Len(input.text))) =>
            KeepsToTokens(ClosedConstraint(input.constraint, Len(input.text)), Len(input.text))
      BY <1>1, <1>3 DEF ConstraintsFit
    <3> QED BY <1>1, <2>2, <3>1
  <2>4. HasConstraint(constraint)
    BY <2>2 DEF ClosedConstraint
  <2> DEFINE c == SetBoundary(constraint, size, 0, "token")
  <2>5. constraint' = SetBoundary(c, size, size, "token")
    BY <2>2, <2>4 DEF ClosedConstraint
  <2>6. IsConstraint(c, size) /\ IsConstraint(constraint, size) /\ size \in Nat
    BY <1>2, <2>1, <2>2, SetBoundaryIs
  <2>7. BoundaryAt(c, 0) = "token"
    <3>1. 0 \in 0..size+3
      BY <2>6
    <3> QED BY <2>6, <3>1, SetBoundaryAt
  <2> HIDE DEF c
  <2>8. /\ BoundaryAt(constraint', size) = "token"
        /\ 0 # size => BoundaryAt(constraint', 0) = BoundaryAt(c, 0)
    <3>1. 0 \in 0..size+3 /\ size \in 0..size+3
      BY <2>6
    <3> QED BY <2>5, <2>6, <3>1, SetBoundaryAt
  <2> QED BY <2>2, <2>3, <2>7, <2>8
<1>4. CASE "PARTIAL" \in request
  <2>1. sentence \in Seq(ToSet(sentence))
    BY <1>1, <1>4, InputsAssumption
  <2>2. /\ constraint' = ConstraintOfLines(sentence) /\ size' = Len(TextOfLines(sentence))
    BY <1>4 DEF InitPartial, size
  <2>3. KeepsToTokens(constraint', size')
    <3>1. HasConstraint(ConstraintOfLines(input.text)) =>
            KeepsToTokens(ConstraintOfLines(input.text), Len(TextOfLines(input.text)))
      BY <1>1, <1>4 DEF ConstraintsFit
    <3> QED BY <1>1, <2>2, <3>1
  <2>4. sentence # <<>>
    <3> SUFFICES ASSUME sentence = <<>> PROVE FALSE
      OBVIOUS
    <3>1. constraint' = NoConstraint
      BY <2>2 DEF ConstraintOfLines
    <3> QED BY <3>1 DEF HasConstraint, NoConstraint
  <2>5. /\ BoundaryAt(ConstraintOfLines(sentence), 0) = "token"
        /\ BoundaryAt(ConstraintOfLines(sentence), Len(TextOfLines(sentence))) = "token"
    BY <1>2, <2>1, <2>2, <2>4, LinesClosed
  <2> QED BY <2>2, <2>3, <2>5
<1> QED BY <1>3, <1>4

\* What keeps to the constraints keeps to them as long as they stay.
LEMMA HonoursStays ==
  ASSUME UNCHANGED <<sentence, constraint>>
  PROVE  size' = size /\ \A n : Honours(n)' = Honours(n)
BY DEF size, Honours

\* The constraints stay closed.
LEMMA TokensStay ==
  ASSUME TokensInv, place # "initPartial", UNCHANGED <<sentence, constraint>>
  PROVE  TokensInv'
<1>1. size' = size
  BY DEF size
<1> QED BY <1>1 DEF TokensInv

\* The nodes kept keep to the constraints.
LEMMA HonouredStays ==
  ASSUME HonouredInv, place # "initPartial", UNCHANGED <<sentence, constraint, begin_nodes>>
  PROVE  HonouredInv'
<1>1. size' = size /\ \A n : Honours(n)' = Honours(n)
  BY HonoursStays
<1> QED BY <1>1 DEF HonouredInv

\* initPartial keeps none.
LEMMA InitPartialHonours ==
  ASSUME StartInv, InitPartial
  PROVE  HonouredInv' /\ ReachedInv' /\ FoundInv'
<1>1. size' \in Nat /\ pos' = 0 /\ place' = "scan"
  BY InitPartialText
<1>2. begin_nodes' = [p \in 0..size' |-> <<>>]
  BY DEF InitPartial, size
<1>3. ~ Built' /\ ~ LookingUp'
  BY <1>1 DEF Built, LookingUp
<1>4. HonouredInv'
  <2>1. ASSUME NEW q \in 0..size'-1 PROVE ToSet(begin_nodes'[q]) = {}
    <3>1. \A n \in Nat : \A k \in 0..n-1 : k \in 0..n
      OBVIOUS
    <3>2. q \in 0..size'
      BY <1>1, <3>1, Zenon
    <3>3. begin_nodes'[q] = <<>>
      BY <1>2, <3>2
    <3> QED BY <3>3 DEF ToSet
  <2> QED BY <2>1 DEF HonouredInv
<1>5. ReachedInv'
  <2>1. \A p \in 0..size'-1 : ~ (p < pos')
    BY <1>1
  <2> QED BY <1>3, <2>1 DEF ReachedInv
<1>6. FoundInv'
  BY <1>1, <1>3 DEF FoundInv
<1> QED BY <1>4, <1>5, <1>6

\* The nodes that end at a position are kept by then.
LEMMA EndsBefore ==
  ASSUME TextInv, LatticeInv, TextInv', LatticeInv', place # "initPartial", place' # "initPartial",
         ~ GaveUp, UNCHANGED sentence, NEW p \in 0..size, EndsAt(p)' # {},
         \A q \in 0..p-1 : begin_nodes'[q] = begin_nodes[q]
  PROVE  EndsAt(p) # {}
<1>1. size \in Nat /\ size' = size /\ ListsInv /\ NodesInv /\ ListsInv' /\ NodesInv'
  BY LatticeReady DEF LatticeInv, size
<1>2. p \in 0..size+3
  BY <1>1
<1>3. PICK n : n \in EndsAt(p)'
  OBVIOUS
<1>4. n \in Nodes' /\ n.stat # "eos" /\ EndOf(n) = p
  BY <1>1, <1>2, <1>3 DEF NodesInv
<1>5. CASE n = BOSNode
  BY <1>1, <1>2, <1>4, <1>5 DEF NodesInv
<1>6. CASE n # BOSNode
  <2>1. n # EOSNode(size)
    BY <1>1, <1>4, EndNodes
  <2>2. PICK q \in 0..size-1 : n \in ToSet(begin_nodes'[q])
    BY <1>1, <1>4, <1>6, <2>1 DEF NodesInv
  <2>3. begin_nodes'[q] \in Seq(WordsAt(q, size))
    <3>1. begin_nodes'[q] \in Seq(WordsAt(q, size)')
      BY <1>1, <2>2 DEF ListsInv
    <3> QED BY <1>1, <3>1
  <2>4. n \in WordsAt(q, size) /\ q \in Nat
    BY <2>2, <2>3 DEF ToSet
  <2>5. EndOf(n) \in q+1..size+1
    BY <1>1, <2>4, WordRecords
  <2>6. q \in 0..p-1
    BY <1>4, <2>5
  <2>7. n \in ToSet(begin_nodes[q]) /\ Whole(q)
    BY <2>2, <2>6 DEF Whole
  <2>8. n \in Nodes
    BY <1>1, <2>7 DEF NodesInv
  <2> QED BY <1>1, <1>2, <1>4, <2>8 DEF NodesInv
<1> QED BY <1>5, <1>6

\* Linking what a lookup found keeps to the constraints.
LEMMA ConnectFoundHonours ==
  ASSUME TextInv, LookupInv, LatticeInv, TokensInv, FoundInv, HonouredInv, ReachedInv,
         TextInv', LatticeInv', ConnectFound
  PROVE  HonouredInv' /\ ReachedInv'
<1>1. /\ place = "connect" /\ pos' = pos + 1 /\ sentence' = sentence /\ constraint' = constraint
      /\ place' \in {"scan", "too long sentence"}
      /\ begin_nodes' = [begin_nodes EXCEPT ![pos] = found]
  BY DEF ConnectFound, Connect, inputVars
<1>2. LookingUp /\ Scanning /\ ~ GaveUp /\ ~ Built' /\ place # "initPartial" /\ place' # "initPartial"
  BY <1>1 DEF LookingUp, Scanning, GaveUp, Built
<1>3. /\ size \in Nat /\ pos \in Nat /\ pos < size /\ size' = size
      /\ DOMAIN begin_nodes = 0..size /\ found # <<>>
  BY <1>1, <1>2, LookupReady, LatticeReady DEF size, ListsInv, LookupInv
<1>4. begin_nodes'[pos] = found /\ \A q \in 0..size : q # pos => begin_nodes'[q] = begin_nodes[q]
  <2>1. pos \in 0..size
    BY <1>3
  <2>2. begin_nodes' = [begin_nodes EXCEPT ![pos] = found] /\ DOMAIN begin_nodes = 0..size
    BY <1>1, <1>3
  <2> QED BY <2>1, <2>2, Zenon
<1>5. HonouredInv'
  <2>1. \A n : Honours(n)' = Honours(n)
    BY <1>1, HonoursStays
  <2> SUFFICES ASSUME HasConstraint(constraint), NEW q \in 0..size-1, NEW n \in ToSet(begin_nodes'[q])
               PROVE  Honours(n)
    BY <1>1, <1>3, <2>1 DEF HonouredInv
  <2>2. CASE q = pos
    BY <1>2, <1>4, <2>2 DEF FoundInv
  <2>3. CASE q # pos
    <3>1. q \in 0..size
      BY <1>3
    <3> QED BY <1>2, <1>4, <2>3, <3>1 DEF HonouredInv
  <2> QED BY <2>2, <2>3
<1>6. ReachedInv'
  <2> SUFFICES ASSUME NEW p \in 0..size-1, p < pos + 1, EndsAt(p)' # {}
               PROVE  begin_nodes'[p] # <<>>
    BY <1>1, <1>2, <1>3 DEF ReachedInv
  <2>1. CASE p = pos
    BY <1>3, <1>4, <2>1
  <2>2. CASE p # pos
    <3>1. p < pos /\ p \in 0..size
      BY <1>3, <2>2
    <3>2. \A q \in 0..p-1 : begin_nodes'[q] = begin_nodes[q]
      <4> TAKE q \in 0..p-1
      <4>1. q \in 0..size /\ q # pos
        BY <1>3, <3>1
      <4> QED BY <1>4, <4>1
    <3>3. EndsAt(p) # {}
      BY <1>1, <1>2, <3>1, <3>2, EndsBefore
    <3> QED BY <1>2, <1>4, <2>2, <3>1, <3>3 DEF ReachedInv
  <2> QED BY <2>1, <2>2
<1> QED BY <1>5, <1>6

\* Linking the end of the sentence does.
LEMMA ConnectEOSHonours ==
  ASSUME TextInv, LookupInv, LatticeInv, HonouredInv, ReachedInv, TextInv', LatticeInv', ConnectEOS
  PROVE  HonouredInv' /\ ReachedInv'
<1>1. /\ place = "scan" /\ pos = size /\ pos' = pos /\ sentence' = sentence /\ constraint' = constraint
      /\ place' \in {"forwardbackward", "too long sentence"}
      /\ begin_nodes' = [begin_nodes EXCEPT ![size] = <<EOSNode(size)>>]
  BY DEF ConnectEOS, Connect, inputVars
<1>2. Scanning /\ ~ GaveUp /\ place # "initPartial" /\ place' # "initPartial"
  BY <1>1 DEF Scanning, GaveUp
<1>3. size \in Nat /\ size' = size /\ DOMAIN begin_nodes = 0..size
  BY <1>1, <1>2, LatticeReady DEF size, ListsInv
<1>4. \A q \in 0..size-1 : begin_nodes'[q] = begin_nodes[q]
  <2> TAKE q \in 0..size-1
  <2>1. q \in 0..size /\ q # size
    BY <1>3
  <2> QED BY <1>1, <1>3, <2>1
<1>5. HonouredInv'
  <2>1. \A n : Honours(n)' = Honours(n)
    BY <1>1, HonoursStays
  <2> QED BY <1>1, <1>2, <1>3, <1>4, <2>1 DEF HonouredInv
<1>6. ReachedInv'
  <2>1. pos' = size'
    BY <1>1, <1>3
  <2> SUFFICES ASSUME NEW p \in 0..size-1, EndsAt(p)' # {} PROVE begin_nodes'[p] # <<>>
    BY <1>1, <1>3, <2>1 DEF ReachedInv
  <2>2. p \in 0..size /\ p < pos
    <3>1. pos = size /\ size \in Nat
      BY <1>1, <1>3
    <3> QED BY <3>1
  <2>3. \A q \in 0..p-1 : begin_nodes'[q] = begin_nodes[q]
    <3> TAKE q \in 0..p-1
    <3>1. q \in 0..size-1
      BY <1>3
    <3> QED BY <1>4, <3>1
  <2>4. EndsAt(p) # {}
    BY <1>1, <1>2, <2>2, <2>3, EndsBefore
  <2> QED BY <1>2, <1>4, <2>2, <2>4 DEF ReachedInv
<1> QED BY <1>5, <1>6

\* Steps that leave the lists alone keep what is known of the ways.
LEMMA ReachedStays ==
  ASSUME ReachedInv, UNCHANGED <<sentence, begin_nodes, end_nodes, pos>>,
         Scanning' => Scanning, Built' => Built
  PROVE  ReachedInv'
<1>1. size' = size
  BY DEF size
<1>2. \A p : EndsAt(p)' = EndsAt(p)
  BY DEF EndsAt
<1> QED BY <1>1, <1>2 DEF ReachedInv

\* Every step keeps the constraints.
LEMMA StepHonours ==
  ASSUME ConstraintsFit, CInv, [Next]_vars
  PROVE  CInv'
<1>1. IInv /\ IInv' /\ TextInv /\ LookupInv /\ LatticeInv /\ TextInv' /\ LatticeInv' /\ StartInv
      /\ TokensInv /\ FoundInv /\ HonouredInv /\ ReachedInv
  <2>1. IInv'
    BY StepKeeps DEF CInv
  <2> QED BY <2>1 DEF CInv, IInv
<1>2. CASE InitPartial
  BY <1>1, <1>2, InitPartialTokens, InitPartialHonours DEF CInv
<1>3. CASE SkipPosition
  <2>1. /\ place = "scan" /\ place' = "scan" /\ pos' = pos + 1 /\ end_nodes[pos] = <<>>
        /\ UNCHANGED <<sentence, constraint, begin_nodes, end_nodes>>
    BY <1>3 DEF SkipPosition, inputVars, listVars
  <2>2. ~ LookingUp' /\ Scanning /\ ~ Built' /\ place # "initPartial"
    BY <2>1 DEF LookingUp, Scanning, Built
  <2>3. TokensInv' /\ HonouredInv'
    BY <1>1, <2>1, <2>2, TokensStay, HonouredStays
  <2>4. FoundInv'
    BY <2>1, <2>2 DEF FoundInv
  <2>5. ReachedInv'
    <3>1. size' = size /\ size \in Nat /\ pos \in 0..size
      BY <1>1, <2>1, <2>2, LatticeReady DEF size
    <3>2. \A p : EndsAt(p)' = EndsAt(p)
      BY <2>1 DEF EndsAt
    <3>3. EndsAt(pos) = {}
      BY <2>1 DEF EndsAt, ToSet
    <3>4. ASSUME NEW p \in 0..size-1, p < pos', EndsAt(p) # {} PROVE begin_nodes[p] # <<>>
      <4>1. p < pos
        BY <2>1, <3>1, <3>3, <3>4
      <4> QED BY <1>1, <2>2, <3>4, <4>1 DEF ReachedInv
    <3> QED BY <2>1, <2>2, <3>1, <3>2, <3>4 DEF ReachedInv
  <2> QED BY <1>1, <2>3, <2>4, <2>5 DEF CInv
<1>4. CASE ScanPosition
  <2>1. /\ place = "scan" /\ place' = "lookup"
        /\ UNCHANGED <<sentence, constraint, pos, begin_nodes, end_nodes>>
    BY <1>4 DEF ScanPosition, Stage, inputVars, listVars
  <2>2. ~ LookingUp' /\ Scanning /\ ~ Built'
    BY <2>1 DEF LookingUp, Scanning, Built
  <2>3. TokensInv' /\ HonouredInv' /\ ReachedInv'
    BY <1>1, <2>1, <2>2, TokensStay, HonouredStays, ReachedStays
  <2>4. FoundInv'
    BY <2>1, <2>2 DEF FoundInv
  <2> QED BY <1>1, <2>3, <2>4 DEF CInv
<1>5. CASE LookupStep
  <2>1. Lookup /\ UNCHANGED listVars
    BY <1>5 DEF LookupStep
  <2>2. LookingUp \/ place = "lookup"
    BY <2>1, LookupPlaces
  <2>3. LookingUp' \/ place' = "died"
    BY <2>1, LookupPlaces
  <2>4. sentence' = sentence /\ constraint' = constraint /\ pos' = pos
    BY <2>1, LookupPlaces
  <2>5. UNCHANGED <<begin_nodes, end_nodes>>
    BY <2>1 DEF listVars
  <2>6. Scanning /\ ~ Built' /\ place # "initPartial"
    BY <2>2, <2>3 DEF Scanning, Built, LookingUp
  <2>7. TokensInv' /\ HonouredInv' /\ ReachedInv'
    BY <1>1, <2>4, <2>5, <2>6, TokensStay, HonouredStays, ReachedStays
  <2>8. FoundInv'
    BY <1>1, <2>1, LookupHonours
  <2> QED BY <1>1, <2>7, <2>8 DEF CInv
<1>6. CASE ConnectFound
  <2>1. /\ place = "connect" /\ sentence' = sentence /\ constraint' = constraint
        /\ place' \in {"scan", "too long sentence"}
    BY <1>6 DEF ConnectFound, Connect, inputVars
  <2>2. TokensInv' /\ FoundInv'
    BY <1>1, <2>1, TokensStay DEF FoundInv, LookingUp
  <2> QED BY <1>1, <1>6, <2>2, ConnectFoundHonours DEF CInv
<1>7. CASE ConnectEOS
  <2>1. /\ place = "scan" /\ sentence' = sentence /\ constraint' = constraint
        /\ place' \in {"forwardbackward", "too long sentence"}
    BY <1>7 DEF ConnectEOS, Connect, inputVars
  <2>2. TokensInv' /\ FoundInv'
    BY <1>1, <2>1, TokensStay DEF FoundInv, LookingUp
  <2> QED BY <1>1, <1>7, <2>2, ConnectEOSHonours DEF CInv
<1>8. CASE ForwardBackward \/ BuildBestLattice \/ BuildAllLattice \/ InitNBest \/ CallNext \/ Search
  <2>1. /\ place \in {"forwardbackward", "buildBestLattice", "buildAllLattice", "initNBest", "parsed",
                      "searching", "result"}
        /\ place' \in {"buildBestLattice", "buildAllLattice", "initNBest", "parsed",
                      "searching", "result", "exhausted"}
    BY <1>8 DEF ForwardBackward, BuildBestLattice, BuildAllLattice, InitNBest, CallNext, Search,
                Expand, Find, Exhaust
  <2>2. UNCHANGED <<sentence, constraint, pos, begin_nodes, end_nodes>>
    BY <1>8 DEF ForwardBackward, BuildBestLattice, BuildAllLattice, InitNBest, CallNext, Search,
                Expand, Find, Exhaust, searchVars, inputVars, listVars
  <2>3. Built /\ ~ Scanning' /\ ~ LookingUp' /\ place # "initPartial"
    BY <2>1 DEF Built, Scanning, LookingUp
  <2>4. TokensInv' /\ HonouredInv' /\ ReachedInv'
    BY <1>1, <2>2, <2>3, TokensStay, HonouredStays, ReachedStays
  <2>5. FoundInv'
    BY <2>1, <2>3 DEF FoundInv
  <2> QED BY <1>1, <2>4, <2>5 DEF CInv
<1>9. CASE UNCHANGED vars
  <2>1. UNCHANGED <<sentence, constraint, place, pos, end, begin2, begin3, cinfo, found,
                    begin_nodes, end_nodes>>
    BY <1>9 DEF vars, latticeVars, inputVars, lookupVars, listVars
  <2>2. LookingUp' = LookingUp /\ Scanning' = Scanning /\ Built' = Built /\ size' = size
    BY <2>1 DEF LookingUp, Scanning, Built, size
  <2>3. \A n : Honours(n)' = Honours(n)
    BY <2>1, HonoursStays
  <2>4. TokensInv' /\ HonouredInv'
    BY <1>1, <2>1, <2>2, <2>3 DEF TokensInv, HonouredInv
  <2>5. ReachedInv'
    BY <1>1, <2>1, <2>2, ReachedStays
  <2>6. FoundInv'
    <3>1. /\ Within(end)' = Within(end) /\ Within(begin3)' = Within(begin3)
          /\ Unknown(end, cinfo)' = Unknown(end, cinfo)
      BY <2>1 DEF Within, Unknown, Made, Valid
    <3> QED BY <1>1, <2>1, <2>2, <2>3, <3>1 DEF FoundInv
  <2> QED BY <1>1, <2>4, <2>5, <2>6 DEF CInv
<1> QED BY <1>2, <1>3, <1>4, <1>5, <1>6, <1>7, <1>8, <1>9 DEF Next, Analyze, AnalyzeStep

\* Under constraints the ways end where the text ends.
LEMMA WaysReachTheEnd ==
  ASSUME CInv, Built, HasConstraint(constraint)
  PROVE  LastEnd = size
<1>1. TextInv /\ LatticeInv /\ place # "initPartial" /\ ~ GaveUp
  BY DEF CInv, IInv, Built, GaveUp
<1>2. size \in Nat /\ ListsInv /\ NodesInv /\ pos = size /\ HonouredInv /\ ReachedInv
  BY <1>1, LatticeReady DEF CInv, ReachedInv
<1>3. PICK e \in 0..size : /\ e = LastEnd /\ EndsAt(e) # {}
                           /\ \A p \in 0..size : EndsAt(p) # {} => p <= e
  BY <1>2, LastEndIs
<1> SUFFICES ASSUME e # size PROVE FALSE
  BY <1>3
<1>4. e \in 0..size-1 /\ e < pos
  BY <1>2
<1>5. begin_nodes[e] # <<>> /\ begin_nodes[e] \in Seq(WordsAt(e, size))
  BY <1>2, <1>3, <1>4 DEF ReachedInv, ListsInv
<1>6. PICK n : n \in ToSet(begin_nodes[e])
  BY <1>5, EmptyIs
<1>7. EndOf(n) \in e+1..size+1 /\ n.stat # "eos"
  BY <1>2, <1>4, <1>6, FoundAre
<1>8. EndOf(n) <= size
  BY <1>1, <1>2, <1>4, <1>6 DEF HonouredInv, Honours
<1>9. n \in Nodes
  BY <1>1, <1>2, <1>4, <1>6 DEF NodesInv, Whole
<1>10. PICK p \in 0..size : p = EndOf(n) /\ p > e
  BY <1>2, <1>7, <1>8
<1>11. p \in 0..size+3
  BY <1>2
<1>12. n \in EndsAt(p)
  BY <1>2, <1>7, <1>9, <1>10, <1>11 DEF NodesInv
<1>13. p <= e
  BY <1>3, <1>12
<1> QED BY <1>10, <1>13

\* Every place before the end lies before the end of some node of a way: the
\* first of them begins there or before.
LEMMA CoveredBy ==
  ASSUME size \in Nat, ListsInv, NEW s, IsChain(s, size), NEW p \in 0..size-1
  PROVE  \E i \in 2..Len(s) : /\ BeginOf(s[i]) \in 0..p /\ EndOf(s[i]) \in p+1..size+1
                              /\ s[i] \in ToSet(begin_nodes[BeginOf(s[i])])
<1>1. /\ s \in Seq(NodeRecords) /\ s # <<>> /\ s[1] = BOSNode /\ EndOf(s[Len(s)]) = size
      /\ \A i \in 2..Len(s) : /\ BeginOf(s[i]) \in 0..size-1 /\ EndOf(s[i - 1]) = BeginOf(s[i])
                              /\ s[i] \in ToSet(begin_nodes[BeginOf(s[i])])
  BY DEF IsChain
<1>2. Len(s) \in Nat /\ Len(s) # 0
  BY <1>1
<1>3. \A i \in 2..Len(s) : EndOf(s[i]) \in BeginOf(s[i])+1..size+1
  <2> TAKE i \in 2..Len(s)
  <2>1. PICK q \in 0..size-1 : q = BeginOf(s[i]) /\ s[i] \in ToSet(begin_nodes[q])
    BY <1>1
  <2>2. PICK n : n = s[i]
    OBVIOUS
  <2>3. EndOf(n) \in q+1..size+1
    BY <2>1, <2>2, FoundAre
  <2> QED BY <2>1, <2>2, <2>3
<1>4. EndOf(s[1]) = 0
  BY <1>1, EndNodes
<1> DEFINE S == { i \in 1..Len(s) : EndOf(s[i]) > p }
<1>5. S \in SUBSET (1..Len(s)) /\ S # {} /\ 1 \in Int /\ Len(s) \in Int
  <2>1. Len(s) \in S
    BY <1>1, <1>2
  <2> QED BY <1>2, <2>1
<1> HIDE DEF S
<1>6. PICK i \in S : \A k \in S : i <= k
  BY <1>5, LeastExists
<1>7. i \in 1..Len(s) /\ EndOf(s[i]) > p
  BY <1>6 DEF S
<1>8. i # 1
  BY <1>4, <1>7
<1>9. i \in 2..Len(s) /\ i - 1 \in 1..Len(s)
  BY <1>2, <1>7, <1>8
<1>10. ~ (EndOf(s[i - 1]) > p)
  <2>1. ~ (i <= i - 1)
    BY <1>9
  <2>2. i - 1 \notin S
    BY <1>6, <2>1
  <2> QED BY <1>9, <2>2 DEF S
<1>11. PICK b \in 0..size-1 : /\ b = BeginOf(s[i]) /\ EndOf(s[i - 1]) = b
                              /\ s[i] \in ToSet(begin_nodes[b])
  BY <1>1, <1>9
<1>12. PICK e \in b+1..size+1 : e = EndOf(s[i])
  BY <1>3, <1>9, <1>11
<1>13. b \in 0..p /\ e \in p+1..size+1
  BY <1>7, <1>10, <1>11, <1>12
<1> QED BY <1>9, <1>11, <1>12, <1>13

\* ConstraintsHonoured follows from the invariant.
LEMMA HonouredByAll ==
  ASSUME CInv PROVE ConstraintsHonoured
<1> SUFFICES ASSUME Read, HasConstraint(constraint), NEW s \in Segmentations
             PROVE  /\ \A n \in ToSet(s) :
                         /\ BoundaryAt(constraint, EndOf(n)) # "inside"
                         /\ \A p \in n.surface+1..EndOf(n)-1 : BoundaryAt(constraint, p) # "token"
                    /\ \A p \in 0..size-1 : FeatureAt(constraint, p) # None =>
                         \E n \in ToSet(s) : /\ BeginOf(n) = p
                                             /\ PartialMatch(FeatureAt(constraint, p), n.token.feature)
  BY DEF ConstraintsHonoured
<1>1. Built /\ ~ GaveUp /\ place # "initPartial" /\ TextInv /\ LatticeInv
  BY DEF Read, Built, GaveUp, CInv, IInv
<1>2. size \in Nat /\ ListsInv
  BY <1>1, LatticeReady
<1>3. /\ BoundaryAt(constraint, 0) = "token" /\ BoundaryAt(constraint, size) = "token"
      /\ KeepsToTokens(constraint, size)
      /\ \A q \in 0..size-1 : \A n \in ToSet(begin_nodes[q]) : Honours(n)
  BY <1>1 DEF CInv, TokensInv, HonouredInv
<1>4. PICK t \in Chains(size) : s = Append(t, EOS)
  <2>1. LastEnd = size
    BY <1>1, WaysReachTheEnd
  <2>2. \A q \in 0..size-1 : Whole(q)
    BY <1>1 DEF Whole
  <2>3. Segmentations = { Append(c, EOS) : c \in Chains(LastEnd) }
    BY <1>1, <2>2, SegmentationsIs
  <2> QED BY <2>1, <2>3
<1>5. /\ t \in Seq(NodeRecords) /\ t[1] = BOSNode
      /\ \A i \in 2..Len(t) : /\ BeginOf(t[i]) \in 0..size-1
                              /\ t[i] \in ToSet(begin_nodes[BeginOf(t[i])])
  BY <1>4 DEF Chains, IsChain
<1>6. EOS = EOSNode(size)
  BY <1>1, EOSIs
<1>7. /\ DOMAIN s = 1..Len(t)+1 /\ Len(t) \in Nat
      /\ \A i \in 1..Len(t) : s[i] = t[i]
      /\ s[Len(t) + 1] = EOS
  BY <1>4, <1>5
<1>8. ASSUME NEW n \in ToSet(s)
      PROVE  /\ BoundaryAt(constraint, EndOf(n)) # "inside"
             /\ \A p \in n.surface+1..EndOf(n)-1 : BoundaryAt(constraint, p) # "token"
  <2>1. PICK i \in 1..Len(t)+1 : n = s[i]
    BY <1>7, <1>8 DEF ToSet
  <2>2. CASE i = Len(t) + 1
    <3>1. EndOf(n) = size /\ n.surface = size
      BY <1>2, <1>6, <1>7, <2>1, <2>2, EndNodes DEF EOSNode, Node
    <3>2. n.surface+1..EndOf(n)-1 = {}
      BY <1>2, <3>1
    <3> QED BY <1>3, <3>1, <3>2
  <2>3. CASE i = 1 /\ i # Len(t) + 1
    <3>0. 1 \in 1..Len(t)
      BY <1>7, <2>1, <2>3
    <3>1. n = BOSNode
      BY <1>5, <1>7, <2>1, <2>3, <3>0
    <3>2. EndOf(n) = 0 /\ n.surface = 0
      BY <1>2, <3>1, EndNodes DEF BOSNode, Node
    <3>3. n.surface+1..EndOf(n)-1 = {}
      BY <3>2
    <3> QED BY <1>3, <3>2, <3>3
  <2>4. CASE i # 1 /\ i # Len(t) + 1
    <3>1. i \in 2..Len(t) /\ i \in 1..Len(t)
      BY <1>7, <2>1, <2>4
    <3>2. BeginOf(n) \in 0..size-1 /\ n \in ToSet(begin_nodes[BeginOf(n)])
      BY <1>5, <1>7, <2>1, <3>1
    <3>3. Honours(n)
      BY <1>3, <3>2
    <3> QED BY <3>3 DEF Honours
  <2> QED BY <2>2, <2>3, <2>4
<1>9. ASSUME NEW p \in 0..size-1, FeatureAt(constraint, p) # None
      PROVE  \E n \in ToSet(s) : /\ BeginOf(n) = p
                                 /\ PartialMatch(FeatureAt(constraint, p), n.token.feature)
  <2>1. BoundaryAt(constraint, p) = "token"
    BY <1>3, <1>9 DEF KeepsToTokens
  <2>2. IsChain(t, size)
    BY <1>4 DEF Chains
  <2>3. PICK i \in 2..Len(t) : /\ BeginOf(t[i]) \in 0..p /\ EndOf(t[i]) \in p+1..size+1
                               /\ t[i] \in ToSet(begin_nodes[BeginOf(t[i])])
    BY <1>2, <2>2, CoveredBy
  <2>4. PICK n : n = t[i]
    OBVIOUS
  <2>5. PICK b \in 0..p : /\ b = BeginOf(n) /\ EndOf(n) \in p+1..size+1
                          /\ n \in ToSet(begin_nodes[b])
    BY <2>3, <2>4
  <2>6. b \in 0..size-1
    <3>1. \A k \in 0..size-1 : \A j \in 0..k : j \in 0..size-1
      BY <1>2
    <3> QED BY <3>1, Zenon
  <2>7. Honours(n)
    BY <1>3, <2>5, <2>6
  <2>8. b = p
    <3> SUFFICES ASSUME b # p PROVE FALSE
      OBVIOUS
    <3>1. PICK e \in p+1..size+1 : e = EndOf(n)
      BY <2>5
    <3>2. p \in b+1..e-1
      BY <2>5, <3>1
    <3>3. BoundaryAt(constraint, p) # "token"
      BY <2>5, <2>7, <3>1, <3>2 DEF Honours
    <3> QED BY <2>1, <3>3
  <2>9. n \in ToSet(s)
    <3>1. i \in 1..Len(t) /\ i \in 1..Len(t)+1
      BY <1>7
    <3> QED BY <1>7, <2>4, <3>1 DEF ToSet
  <2>10. PartialMatch(FeatureAt(constraint, p), n.token.feature)
    BY <1>9, <2>5, <2>7, <2>8 DEF Honours
  <2> QED BY <2>5, <2>8, <2>9, <2>10
<1> QED BY <1>8, <1>9

\* Nothing is looked up initially.
LEMMA InitHonours ==
  ASSUME Init PROVE CInv
<1>1. place = "initPartial"
  BY DEF Init, InitLattice
<1>2. TokensInv /\ FoundInv /\ HonouredInv /\ ReachedInv
  BY <1>1 DEF TokensInv, FoundInv, HonouredInv, ReachedInv, LookingUp, Scanning, Built
<1> QED BY <1>2, InitHolds DEF CInv

(* is_valid_node and lookup under constraints (tokenizer.cpp 205-229,      *)
(* 249-369), for every text, dictionary and constraint that can be kept    *)
(* to: every segmentation that parse or next() can choose from has a node  *)
(* for each constrained token, with a feature that matches, no node that   *)
(* ends inside one and none that spans a token boundary.                   *)
THEOREM ConstraintsAreHonoured ==
  ASSUME ConstraintsFit PROVE Spec => []ConstraintsHonoured
<1>1. Init => CInv
  BY InitHonours
<1>2. CInv /\ [Next]_vars => CInv'
  BY StepHonours
<1>3. CInv => ConstraintsHonoured
  BY HonouredByAll
<1> QED BY <1>1, <1>2, <1>3, PTL DEF Spec

-----------------------------------------------------------------------------
(* The links of the results *)

\* a lookup finds nothing twice
FoundOnce ==
  /\ LookingUp => IsInjective(found)
  /\ place \in {"dictionary", "blank", "group"} => \A n \in ToSet(found) : n.stat = "nor"
  /\ place = "count" =>
       \A n \in ToSet(found) : n.stat = "unk" => EndOf(n) < begin3 \/ EndOf(n) = group_begin3

\* and no node is in the lists of the sentence twice
ListedOnce == place # "initPartial" => \A q \in 0..size : IsInjective(begin_nodes[q])

\* next leads from BOS along the chain and prev back
LinkedAlong(c) ==
  /\ c \in Seq(Nodes) /\ c # <<>> /\ c[1] = BOSNode
  /\ \A i \in 1..Len(c)-1 : next[c[i]] = c[i + 1]
  /\ next[c[Len(c)]] = None
  /\ \A i \in 2..Len(c) : prev[c[i]] = c[i - 1]

\* and the chain is the result that was asked for
ReadAs(c) == IF results = <<>> THEN ToSet(c) = isbest ELSE c = Last(results)

\* next leads on through the sentence, wherever earlier results have left it
Forward == \A n \in Nodes : next[n] # None => Rank(n) < Rank(next[n])

\* all the nodes are linked: next() does so again for each answer
AllLinked == "ALL_MORPHS" \in request /\ place # "buildAllLattice"

\* Until a result is linked there are no links; then there is one chain to read.
ChainInv ==
  /\ ~ Marked => /\ isbest = {BOSNode} /\ \A n \in Nodes : next[n] = None
  /\ Marked => /\ next[EOS] = None
               /\ IF AllLinked THEN LinkedAlong(AllMorphs)
                  ELSE Forward /\ \E c \in Seq(Nodes) : LinkedAlong(c) /\ ReadAs(c)

\* A sequence is injective if no element is in it at two places.
LEMMA InjectiveIs ==
  ASSUME NEW X, NEW s \in Seq(X)
  PROVE  IsInjective(s) <=> \A i, j \in 1..Len(s) : s[i] = s[j] => i = j
<1>1. DOMAIN s = 1..Len(s)
  OBVIOUS
<1> QED BY <1>1 DEF IsInjective

\* Reverse keeps a sequence injective.
LEMMA ReverseInjective ==
  ASSUME NEW X, NEW s \in Seq(X), IsInjective(s)
  PROVE  IsInjective(Reverse(s))
<1>0. Len(s) \in Nat
  OBVIOUS
<1>1. Reverse(s) \in Seq(X) /\ Len(Reverse(s)) = Len(s)
  BY ReverseElements
<1>2. \A i \in 1..Len(s) : Reverse(s)[i] = s[(Len(s) - i) + 1] /\ (Len(s) - i) + 1 \in 1..Len(s)
  BY <1>0 DEF Reverse
<1>3. ASSUME NEW i \in 1..Len(s), NEW j \in 1..Len(s), Reverse(s)[i] = Reverse(s)[j] PROVE i = j
  <2>1. PICK a \in 1..Len(s), b \in 1..Len(s) : /\ a = (Len(s) - i) + 1 /\ b = (Len(s) - j) + 1
                                                /\ s[a] = s[b]
    BY <1>2, <1>3
  <2>2. a = b
    BY <2>1, InjectiveIs
  <2> QED BY <1>0, <2>1, <2>2
<1> QED BY <1>1, <1>3, InjectiveIs

\* Two injective sequences without a common element are together injective.
LEMMA ConcatInjective ==
  ASSUME NEW X, NEW v \in Seq(X), NEW t \in Seq(X), IsInjective(v), IsInjective(t),
         ToSet(v) \intersect ToSet(t) = {}
  PROVE  IsInjective(v \o t)
<1> DEFINE w == v \o t
<1>0. /\ Len(v) \in Nat /\ Len(t) \in Nat /\ w \in Seq(X) /\ Len(w) = Len(v) + Len(t)
      /\ \A i \in 1..Len(v) : w[i] = v[i]
      /\ \A i \in 1..Len(w) : i \notin 1..Len(v) =>
           i - Len(v) \in 1..Len(t) /\ w[i] = t[i - Len(v)]
  OBVIOUS
<1>1. \A i, j \in 1..Len(v) : v[i] = v[j] => i = j
  BY InjectiveIs
<1>2. \A i, j \in 1..Len(t) : t[i] = t[j] => i = j
  BY InjectiveIs
<1>3. \A i \in 1..Len(v), j \in 1..Len(t) : v[i] # t[j]
  <2> TAKE i \in 1..Len(v), j \in 1..Len(t)
  <2>1. v[i] \in ToSet(v) /\ t[j] \in ToSet(t)
    BY DEF ToSet
  <2> QED BY <2>1
<1> HIDE DEF w
<1>4. ASSUME NEW i \in 1..Len(w), NEW j \in 1..Len(w), w[i] = w[j] PROVE i = j
  <2>1. CASE i \in 1..Len(v) /\ j \in 1..Len(v)
    BY <1>0, <1>1, <1>4, <2>1
  <2>2. CASE i \notin 1..Len(v) /\ j \notin 1..Len(v)
    <3>1. i - Len(v) = j - Len(v)
      BY <1>0, <1>2, <1>4, <2>2
    <3> QED BY <1>0, <3>1
  <2>3. CASE i \in 1..Len(v) /\ j \notin 1..Len(v)
    BY <1>0, <1>3, <1>4, <2>3
  <2>4. CASE i \notin 1..Len(v) /\ j \in 1..Len(v)
    BY <1>0, <1>3, <1>4, <2>4
  <2> QED BY <2>1, <2>2, <2>3, <2>4
<1> QED BY <1>0, <1>4, InjectiveIs DEF w

\* A sequence of one element is injective.
LEMMA SingleInjective ==
  ASSUME NEW x
  PROVE  IsInjective(<<x>>) /\ <<x>> \in Seq({x}) /\ ToSet(<<x>>) = {x} /\ Len(<<x>>) = 1
<1>1. <<x>> \in Seq({x}) /\ DOMAIN <<x>> = {1} /\ <<x>>[1] = x /\ Len(<<x>>) = 1
  OBVIOUS
<1> QED BY <1>1 DEF IsInjective, ToSet

\* Picked keeps a sequence injective.
LEMMA PickedInjective ==
  ASSUME NEW X, NEW s \in Seq(X), NEW places, IsInjective(s)
  PROVE  IsInjective(Picked(s, places))
<1>0. Len(s) \in Nat /\ \A i, j \in 1..Len(s) : s[i] = s[j] => i = j
  BY InjectiveIs
<1>1. PICK run : /\ Picked(s, places) = run[Len(s)] /\ run[0] = <<>>
                 /\ \A i \in 1..Len(s) : run[i] = IF i \in places THEN Append(run[i - 1], s[i])
                                                  ELSE run[i - 1]
  BY PickedRun
<1> DEFINE Good == { k \in Nat : k <= Len(s) =>
                       /\ run[k] \in Seq(X) /\ IsInjective(run[k])
                       /\ ToSet(run[k]) \subseteq { s[i] : i \in 1..k } }
<1>2. 0 \in Good
  <2>1. run[0] \in Seq(X) /\ ToSet(run[0]) = {} /\ IsInjective(run[0])
    BY <1>1 DEF ToSet, IsInjective
  <2> QED BY <2>1
<1>3. ASSUME NEW k \in Nat, k \in Good PROVE k + 1 \in Good
  <2> SUFFICES ASSUME k + 1 <= Len(s)
               PROVE  /\ run[k + 1] \in Seq(X) /\ IsInjective(run[k + 1])
                      /\ ToSet(run[k + 1]) \subseteq { s[i] : i \in 1..k + 1 }
    OBVIOUS
  <2>1. k + 1 \in 1..Len(s) /\ (k + 1) - 1 = k /\ run[k] \in Seq(X) /\ IsInjective(run[k])
        /\ ToSet(run[k]) \subseteq { s[i] : i \in 1..k }
    BY <1>0, <1>3
  <2>2. PICK x \in X : x = s[k + 1]
    BY <2>1
  <2>3. { s[i] : i \in 1..k } \subseteq { s[i] : i \in 1..k + 1 } /\ x \in { s[i] : i \in 1..k + 1 }
    <3>1. \A i \in 1..k : i \in 1..k + 1
      OBVIOUS
    <3>2. k + 1 \in 1..k + 1
      OBVIOUS
    <3> QED BY <2>2, <3>1, <3>2
  <2>4. x \notin ToSet(run[k])
    <3>1. ASSUME NEW i \in 1..k, x = s[i] PROVE FALSE
      <4>1. i \in 1..Len(s) /\ i # k + 1
        BY <1>0, <2>1
      <4> QED BY <1>0, <2>1, <2>2, <3>1, <4>1
    <3> QED BY <2>1, <3>1
  <2>5. CASE k + 1 \in places
    <3>1. run[k + 1] = Append(run[k], x)
      BY <1>1, <2>1, <2>2, <2>5
    <3>2. run[k + 1] \in Seq(X) /\ ToSet(run[k + 1]) = ToSet(run[k]) \union {x}
      BY <2>1, <3>1, AppendElements
    <3>3. Append(run[k], x) = run[k] \o <<x>>
      BY <2>1
    <3>4. <<x>> \in Seq(X) /\ IsInjective(<<x>>) /\ ToSet(<<x>>) = {x}
      BY SingleInjective
    <3>5. IsInjective(run[k] \o <<x>>)
      BY <2>1, <2>4, <3>4, ConcatInjective
    <3> QED BY <2>1, <2>3, <3>1, <3>2, <3>3, <3>5
  <2>6. CASE k + 1 \notin places
    <3>1. run[k + 1] = run[k]
      BY <1>1, <2>1, <2>6
    <3> QED BY <2>1, <2>3, <3>1
  <2> QED BY <2>5, <2>6
<1> HIDE DEF Good
<1>4. Len(s) \in Good
  BY <1>0, <1>2, <1>3, NatSetInduction
<1> QED BY <1>0, <1>1, <1>4 DEF Good

\* FlattenSeq of injective lists without common elements is injective.
LEMMA FlattenInjective ==
  ASSUME NEW X, NEW s \in Seq(Seq(X)),
         \A i \in 1..Len(s) : IsInjective(s[i]),
         \A i, j \in 1..Len(s) : i # j => ToSet(s[i]) \intersect ToSet(s[j]) = {}
  PROVE  IsInjective(FlattenSeq(s))
<1>0. Len(s) \in Nat
  OBVIOUS
<1>1. CASE s = <<>>
  <2>2. FlattenSeq(s) = <<>>
    BY <1>1 DEF FlattenSeq
  <2> QED BY <2>2 DEF IsInjective
<1>2. CASE s # <<>>
  <2>1. PICK run : /\ FlattenSeq(s) = run[Len(s)] /\ run[1] = s[1]
                   /\ \A i \in 2..Len(s) : run[i] = run[i - 1] \o s[i]
    BY <1>2, FlattenRun
  <2> DEFINE Good == { k \in Nat : k + 1 <= Len(s) =>
                         /\ run[k + 1] \in Seq(X) /\ IsInjective(run[k + 1])
                         /\ ToSet(run[k + 1]) = UNION { ToSet(s[i]) : i \in 1..k + 1 } }
  <2>2. 0 \in Good
    <3>1. 0 + 1 <= Len(s) => run[0 + 1] \in Seq(X) /\ IsInjective(run[0 + 1])
      BY <2>1
    <3>2. 1..0 + 1 = {1}
      OBVIOUS
    <3> QED BY <2>1, <3>1, <3>2
  <2>3. ASSUME NEW k \in Nat, k \in Good PROVE k + 1 \in Good
    <3> SUFFICES ASSUME k + 1 + 1 <= Len(s)
                 PROVE  /\ run[k + 1 + 1] \in Seq(X) /\ IsInjective(run[k + 1 + 1])
                        /\ ToSet(run[k + 1 + 1]) = UNION { ToSet(s[i]) : i \in 1..k + 1 + 1 }
      OBVIOUS
    <3>1. /\ k + 1 + 1 \in 2..Len(s) /\ (k + 1 + 1) - 1 = k + 1 /\ k + 1 + 1 \in 1..Len(s)
          /\ run[k + 1] \in Seq(X) /\ IsInjective(run[k + 1])
          /\ ToSet(run[k + 1]) = UNION { ToSet(s[i]) : i \in 1..k + 1 }
          /\ s[k + 1 + 1] \in Seq(X) /\ IsInjective(s[k + 1 + 1])
      BY <1>0, <2>3
    <3>2. run[k + 1 + 1] = run[k + 1] \o s[k + 1 + 1]
      BY <2>1, <3>1
    <3>3. run[k + 1 + 1] \in Seq(X)
      BY <3>1, <3>2
    <3>4. ToSet(run[k + 1 + 1]) = ToSet(run[k + 1]) \union ToSet(s[k + 1 + 1])
      BY <3>1, <3>2, ConcatElements
    <3>5. 1..k + 1 + 1 = (1..k + 1) \union {k + 1 + 1}
      OBVIOUS
    <3>6. ToSet(run[k + 1]) \intersect ToSet(s[k + 1 + 1]) = {}
      <4>1. \A i \in 1..k + 1 : i \in 1..Len(s) /\ i # k + 1 + 1
        BY <1>0
      <4>2. \A i \in 1..k + 1 : ToSet(s[i]) \intersect ToSet(s[k + 1 + 1]) = {}
        BY <3>1, <4>1
      <4> QED BY <3>1, <4>2
    <3>7. IsInjective(run[k + 1 + 1])
      <4>1. PICK v \in Seq(X), u \in Seq(X) : v = run[k + 1] /\ u = s[k + 1 + 1]
        BY <3>1
      <4>2. IsInjective(v) /\ IsInjective(u) /\ ToSet(v) \intersect ToSet(u) = {}
        BY <3>1, <3>6, <4>1
      <4>3. IsInjective(v \o u)
        BY <4>2, ConcatInjective
      <4> QED BY <3>2, <4>1, <4>3
    <3> QED BY <3>1, <3>3, <3>4, <3>5, <3>7
  <2> HIDE DEF Good
  <2>4. Len(s) - 1 \in Nat /\ Len(s) - 1 \in Good /\ (Len(s) - 1) + 1 = Len(s)
    <3>1. Len(s) - 1 \in Nat
      BY <1>0, <1>2
    <3>2. Nat \subseteq Good
      BY <2>2, <2>3, NatSetInduction, Zenon
    <3> QED BY <1>0, <3>1, <3>2
  <2> QED BY <2>1, <2>4 DEF Good
<1> QED BY <1>1, <1>2

\* So it is in the reverse order.
LEMMA FlattenReversed ==
  ASSUME NEW X, NEW s \in Seq(Seq(X)),
         \A i \in 1..Len(s) : IsInjective(s[i]),
         \A i, j \in 1..Len(s) : i # j => ToSet(s[i]) \intersect ToSet(s[j]) = {}
  PROVE  /\ IsInjective(FlattenSeq(Reverse(s)))
         /\ ToSet(FlattenSeq(Reverse(s))) = UNION { ToSet(s[i]) : i \in 1..Len(s) }
<1> DEFINE r == Reverse(s)
<1>1. Len(s) \in Nat
  OBVIOUS
<1>2. r \in Seq(Seq(X)) /\ Len(r) = Len(s) /\ ToSet(r) = ToSet(s)
  BY ReverseElements
<1>3. \A i \in 1..Len(s) : r[i] = s[(Len(s) - i) + 1] /\ (Len(s) - i) + 1 \in 1..Len(s)
  BY <1>1 DEF Reverse
<1>4. \A i, j \in 1..Len(s) : i # j => (Len(s) - i) + 1 # (Len(s) - j) + 1
  BY <1>1
<1> HIDE DEF r
<1>5. /\ \A i \in 1..Len(r) : IsInjective(r[i])
      /\ \A i, j \in 1..Len(r) : i # j => ToSet(r[i]) \intersect ToSet(r[j]) = {}
  BY <1>2, <1>3, <1>4
<1>6. IsInjective(FlattenSeq(r)) /\ ToSet(FlattenSeq(r)) = UNION { ToSet(r[i]) : i \in 1..Len(r) }
  BY <1>2, <1>5, FlattenInjective, FlattenElements
<1>7. UNION { ToSet(r[i]) : i \in 1..Len(r) } = UNION { ToSet(s[i]) : i \in 1..Len(s) }
  <2>1. DOMAIN r = 1..Len(r) /\ DOMAIN s = 1..Len(s)
    BY <1>2
  <2>2. { r[i] : i \in 1..Len(r) } = { s[i] : i \in 1..Len(s) }
    BY <1>2, <2>1 DEF ToSet
  <2>3. ASSUME NEW x, NEW i \in 1..Len(r), x \in ToSet(r[i]) PROVE \E j \in 1..Len(s) : x \in ToSet(s[j])
    <3>1. r[i] \in { s[j] : j \in 1..Len(s) }
      BY <2>2
    <3>2. PICK j \in 1..Len(s) : r[i] = s[j]
      BY <3>1
    <3> QED BY <2>3, <3>2
  <2>4. ASSUME NEW x, NEW i \in 1..Len(s), x \in ToSet(s[i]) PROVE \E j \in 1..Len(r) : x \in ToSet(r[j])
    <3>1. s[i] \in { r[j] : j \in 1..Len(r) }
      BY <2>2
    <3>2. PICK j \in 1..Len(r) : s[i] = r[j]
      BY <3>1
    <3> QED BY <2>4, <3>2
  <2>5. \A x : x \in UNION { ToSet(r[i]) : i \in 1..Len(r) } <=> \E i \in 1..Len(r) : x \in ToSet(r[i])
    OBVIOUS
  <2>6. \A x : x \in UNION { ToSet(s[i]) : i \in 1..Len(s) } <=> \E i \in 1..Len(s) : x \in ToSet(s[i])
    OBVIOUS
  <2>7. \A x : x \in UNION { ToSet(r[i]) : i \in 1..Len(r) } <=> x \in UNION { ToSet(s[i]) : i \in 1..Len(s) }
    BY <2>3, <2>4, <2>5, <2>6, Zenon
  <2> QED BY <2>7, Zenon
<1> QED BY <1>6, <1>7 DEF r

\* The nodes made of different tokens are different.
LEMMA MadeOnce ==
  ASSUME NEW stat, NEW X, NEW tokens \in Seq(X), NEW past \in Int, begin2 \in Int, IsInjective(tokens)
  PROVE  /\ IsInjective(Made(stat, tokens, past))
         /\ \A n \in ToSet(Made(stat, tokens, past)) :
              n.stat = stat /\ n.length = past - begin2 /\ EndOf(n) = past /\ n.token \in ToSet(tokens)
<1> DEFINE N(k) == Node(stat, begin2, past - begin2, past - pos, tokens[k])
           nodes == [k \in DOMAIN tokens |-> N(k)]
           valid == { k \in DOMAIN nodes : IsValidNode(constraint, nodes[k]) }
           made == Made(stat, tokens, past)
<1>1. DOMAIN tokens = 1..Len(tokens) /\ Len(tokens) \in Nat
  OBVIOUS
<1>2. nodes \in Seq(Range(nodes)) /\ Len(nodes) = Len(tokens) /\ DOMAIN nodes = DOMAIN tokens
      /\ \A k \in DOMAIN tokens : nodes[k] = N(k)
  <2>1. nodes \in [1..Len(tokens) -> Range(nodes)]
    BY <1>1 DEF Range
  <2>2. \A k \in DOMAIN tokens : nodes[k] = N(k)
    OBVIOUS
  <2> HIDE DEF nodes
  <2> QED BY <1>1, <2>1, <2>2
<1>3. \A k \in DOMAIN tokens : /\ N(k).stat = stat /\ N(k).length = past - begin2 /\ EndOf(N(k)) = past
                               /\ N(k).token = tokens[k]
  BY DEF Node, EndOf
<1>4. made = Reverse(Valid(nodes))
  BY DEF Made
<1>5. ToSet(made) = { N(k) : k \in { j \in DOMAIN tokens : IsValidNode(constraint, N(j)) } }
  BY MadeAre
<1> HIDE DEF N, nodes, made
<1>6. IsInjective(nodes)
  <2>1. ASSUME NEW i \in DOMAIN tokens, NEW j \in DOMAIN tokens, nodes[i] = nodes[j] PROVE i = j
    <3>1. tokens[i] = tokens[j]
      BY <1>2, <1>3, <2>1
    <3> QED BY <3>1 DEF IsInjective
  <2> QED BY <1>2, <2>1 DEF IsInjective
<1>7. Valid(nodes) \in Seq(Range(nodes)) /\ IsInjective(Valid(nodes))
  BY <1>2, <1>6, PickedElements, PickedInjective DEF Valid
<1>8. IsInjective(made)
  BY <1>4, <1>7, ReverseInjective
<1>9. ASSUME NEW n \in ToSet(made)
      PROVE  n.stat = stat /\ n.length = past - begin2 /\ EndOf(n) = past /\ n.token \in ToSet(tokens)
  <2>1. PICK k \in DOMAIN tokens : n = N(k)
    BY <1>5
  <2> QED BY <1>3, <2>1 DEF ToSet
<1> QED BY <1>8, <1>9 DEF made

\* The unknown words up to one place.
LEMMA UnknownOnce ==
  ASSUME TokensDiffer, NEW info \in Infos, NEW past \in Int, begin2 \in Int
  PROVE  /\ IsInjective(Unknown(past, info))
         /\ \A n \in ToSet(Unknown(past, info)) : n.stat = "unk" /\ EndOf(n) = past
<1>1. PICK c \in DOMAIN Property : info = Property[c]
  BY DEF Infos
<1> DEFINE tokens == UnkTokens[info.default_type]
<1>2. tokens \in Seq(Tokens) /\ IsInjective(tokens)
  BY <1>1, TokenizerAssumption DEF TokensDiffer
<1> HIDE DEF tokens
<1>3. Unknown(past, info) = Made("unk", tokens, past)
  BY DEF Unknown, tokens
<1>4. /\ IsInjective(Made("unk", tokens, past))
      /\ \A n \in ToSet(Made("unk", tokens, past)) :
           n.stat = "unk" /\ n.length = past - begin2 /\ EndOf(n) = past /\ n.token \in ToSet(tokens)
  BY <1>2, MadeOnce
<1> QED BY <1>3, <1>4

\* The words that one dictionary has at begin2: a node names its word by its length.
LEMMA DictionaryOnce ==
  ASSUME TokensDiffer, NEW d \in DOMAIN Dictionaries, IsText(sentence), size \in Nat, pos \in Nat,
         begin2 \in pos..size, end \in begin2..size, pos < size
  PROVE  LET lengths == PrefixLengths(Dictionaries[d], sentence, begin2, end - begin2)
             all == FlattenSeq(Reverse([i \in DOMAIN lengths |->
                      Made("nor", Dictionaries[d][SubSeq(sentence, begin2 + 1, begin2 + lengths[i])],
                           begin2 + lengths[i])]))
         IN  /\ IsInjective(all)
             /\ \A n \in ToSet(all) :
                  /\ n.stat = "nor"
                  /\ SubSeq(sentence, begin2 + 1, begin2 + n.length) \in DOMAIN Dictionaries[d]
                  /\ n.token \in ToSet(Dictionaries[d][SubSeq(sentence, begin2 + 1, begin2 + n.length)])
<1> DEFINE dic == Dictionaries[d]
           lengths == PrefixLengths(dic, sentence, begin2, end - begin2)
           reach == IF end - begin2 = 0 THEN Len(sentence) - begin2 ELSE end - begin2
           ks == [k \in 1..reach |-> k]
           known == { k \in 1..reach : SubSeq(sentence, begin2 + 1, begin2 + k) \in DOMAIN dic }
           W(k) == SubSeq(sentence, begin2 + 1, begin2 + k)
           M(i) == Made("nor", dic[W(lengths[i])], begin2 + lengths[i])
           lists == [i \in DOMAIN lengths |-> M(i)]
           all == FlattenSeq(Reverse(lists))
<1>1. reach \in Nat
  BY DEF size
<1>2. lengths = Picked(ks, known)
  BY DEF PrefixLengths
<1> HIDE DEF lengths
<1>3. ks \in Seq(1..reach) /\ Len(ks) = reach /\ \A k \in 1..reach : ks[k] = k
  <2> HIDE DEF reach
  <2>1. ks \in [1..reach -> 1..reach]
    OBVIOUS
  <2> QED BY <1>1, <2>1
<1>30. IsInjective(ks)
  <2>1. DOMAIN ks = 1..reach /\ \A k \in 1..reach : ks[k] = k
    OBVIOUS
  <2> HIDE DEF ks, reach
  <2> QED BY <2>1 DEF IsInjective
<1> HIDE DEF reach, ks, known
<1>4. lengths \in Seq(1..reach) /\ ToSet(lengths) = { ks[i] : i \in (1..Len(ks)) \intersect known }
      /\ IsInjective(lengths)
  BY <1>2, <1>3, <1>30, PickedElements, PickedInjective
<1>5. \A i \in DOMAIN lengths : lengths[i] \in 1..reach /\ lengths[i] \in Int /\ W(lengths[i]) \in DOMAIN dic
  <2> TAKE i \in DOMAIN lengths
  <2>1. lengths[i] \in ToSet(lengths)
    BY DEF ToSet
  <2>2. PICK j \in (1..Len(ks)) \intersect known : lengths[i] = ks[j]
    BY <1>4, <2>1
  <2>3. lengths[i] = j
    BY <1>3, <2>2
  <2>4. W(j) \in DOMAIN dic
    BY <2>2 DEF known
  <2>5. j \in 1..reach /\ j \in Int
    BY <1>3, <2>2
  <2> HIDE DEF W
  <2> QED BY <2>3, <2>4, <2>5
<1>6. ASSUME NEW i \in DOMAIN lengths
      PROVE  /\ IsInjective(M(i))
             /\ \A n \in ToSet(M(i)) : /\ n.stat = "nor" /\ n.length = lengths[i]
                                       /\ n.token \in ToSet(dic[W(lengths[i])])
  <2>1. PICK l \in 1..reach : l = lengths[i] /\ l \in Int /\ W(l) \in DOMAIN dic
    BY <1>5
  <2> DEFINE w == W(l)
             past == begin2 + l
  <2>2. dic[w] \in Seq(Tokens) /\ IsInjective(dic[w])
    <3> HIDE DEF w
    <3>1. w \in DOMAIN dic
      BY <2>1 DEF w
    <3> QED BY <3>1, TokenizerAssumption DEF TokensDiffer
  <2>3. past \in Int /\ begin2 \in Int /\ past - begin2 = l
    OBVIOUS
  <2>4. M(i) = Made("nor", dic[w], past)
    BY <2>1
  <2> HIDE DEF w, dic, past, M
  <2>5. /\ IsInjective(Made("nor", dic[w], past))
        /\ \A n \in ToSet(Made("nor", dic[w], past)) :
              /\ n.stat = "nor" /\ n.length = past - begin2 /\ EndOf(n) = past
              /\ n.token \in ToSet(dic[w])
    BY <2>2, <2>3, MadeOnce
  <2> QED BY <2>1, <2>3, <2>4, <2>5 DEF w
<1>7. ASSUME NEW i \in DOMAIN lengths PROVE M(i) \in Seq(Range(M(i)))
  <2>1. PICK l \in 1..reach : l = lengths[i] /\ l \in Int /\ W(l) \in DOMAIN dic
    BY <1>5
  <2> DEFINE w == W(l)
  <2>2. dic[w] \in Seq(NodeTokens)
    <3>1. w \in DOMAIN dic
      BY <2>1
    <3>2. Tokens \subseteq NodeTokens
      BY DEF NodeTokens
    <3> HIDE DEF w
    <3>3. dic[w] \in Seq(Tokens)
      BY <3>1, TokenizerAssumption
    <3> HIDE DEF dic
    <3> QED BY <3>2, <3>3
  <2>3. M(i) \in Seq(WordsAt(pos, size))
    <3>1. begin2 + l \in pos+1..size+1
      BY <1>1 DEF reach, size
    <3>2. begin2 \in Int
      OBVIOUS
    <3>3. M(i) = Made("nor", dic[w], begin2 + l)
      BY <2>1
    <3> HIDE DEF M, w, dic
    <3> QED BY <2>2, <3>1, <3>2, <3>3, MadeWords
  <2> HIDE DEF M
  <2> QED BY <2>3 DEF Range
<1> DEFINE X == UNION { Range(M(i)) : i \in DOMAIN lengths }
<1>8. lists \in Seq(Seq(X)) /\ Len(lists) = Len(lengths) /\ DOMAIN lengths = 1..Len(lengths)
      /\ \A i \in 1..Len(lengths) : lists[i] = M(i)
  <2>1. DOMAIN lengths = 1..Len(lengths) /\ Len(lengths) \in Nat
    BY <1>4
  <2> HIDE DEF M
  <2>2. \A i \in DOMAIN lengths : M(i) \in Seq(X)
    <3> TAKE i \in DOMAIN lengths
    <3>1. Range(M(i)) \subseteq X
      OBVIOUS
    <3> HIDE DEF X
    <3> QED BY <1>7, <3>1
  <2> HIDE DEF X
  <2>3. lists \in [1..Len(lengths) -> Seq(X)] /\ \A i \in 1..Len(lengths) : lists[i] = M(i)
    BY <2>1, <2>2
  <2> HIDE DEF lists
  <2> QED BY <2>1, <2>3
<1> HIDE DEF lists, X, M
<1>9. /\ \A i \in 1..Len(lists) : IsInjective(lists[i])
      /\ \A i, j \in 1..Len(lists) : i # j => ToSet(lists[i]) \intersect ToSet(lists[j]) = {}
  <2>1. \A i \in 1..Len(lists) : IsInjective(lists[i])
    BY <1>6, <1>8
  <2>2. ASSUME NEW i \in 1..Len(lists), NEW j \in 1..Len(lists), i # j,
               NEW n \in ToSet(lists[i]) \intersect ToSet(lists[j])
        PROVE  FALSE
    <3>1. n.length = lengths[i] /\ n.length = lengths[j]
      BY <1>6, <1>8
    <3> QED BY <1>4, <1>8, <2>2, <3>1 DEF IsInjective
  <2> QED BY <2>1, <2>2
<1>10. IsInjective(all) /\ ToSet(all) = UNION { ToSet(lists[i]) : i \in 1..Len(lists) }
  BY <1>8, <1>9, FlattenReversed
<1>11. ASSUME NEW n \in ToSet(all)
       PROVE  n.stat = "nor" /\ W(n.length) \in DOMAIN dic /\ n.token \in ToSet(dic[W(n.length)])
  <2>3. PICK j \in 1..Len(lists) : n \in ToSet(lists[j])
    BY <1>10
  <2>4. n.stat = "nor" /\ n.length = lengths[j] /\ n.token \in ToSet(dic[W(lengths[j])]) /\ j \in DOMAIN lengths
    BY <1>6, <1>8, <2>3
  <2> HIDE DEF W, dic
  <2> QED BY <1>5, <2>4
<1> HIDE DEF all
<1> QED BY <1>10, <1>11 DEF all, lists, lengths, M

\* What the dictionaries have at one position are different words: no token of
\* a word is in two of them.
LEMMA SearchDictionariesOnce ==
  ASSUME TokensDiffer, TextInv, LookupInv, SearchDictionaries
  PROVE  FoundOnce'
<1>1. place = "dictionary" /\ UNCHANGED <<sentenceVars, end, begin2, begin3, group_begin3, cinfo>>
  BY DEF SearchDictionaries
<1>2. LookingUp
  BY <1>1 DEF LookingUp
<1>3. /\ size \in Nat /\ pos \in Nat /\ pos < size /\ IsText(sentence)
      /\ end \in Nat /\ begin2 \in Nat /\ end \in pos+1 .. size /\ begin2 \in pos .. end
  BY <1>2, LookupReady
<1> DEFINE Prefixed(dic) ==
             LET lengths == PrefixLengths(dic, sentence, begin2, end - begin2)
             IN  FlattenSeq(Reverse([i \in DOMAIN lengths |->
                   Made("nor", dic[SubSeq(sentence, begin2 + 1, begin2 + lengths[i])],
                        begin2 + lengths[i])]))
           lists == [d \in DOMAIN Dictionaries |-> Prefixed(Dictionaries[d])]
           W(k) == SubSeq(sentence, begin2 + 1, begin2 + k)
<1>4. ASSUME NEW d \in DOMAIN Dictionaries
      PROVE  /\ Prefixed(Dictionaries[d]) \in Seq(WordsAt(pos, size))
             /\ IsInjective(Prefixed(Dictionaries[d]))
             /\ \A n \in ToSet(Prefixed(Dictionaries[d])) :
                  /\ n.stat = "nor" /\ W(n.length) \in DOMAIN Dictionaries[d]
                  /\ n.token \in ToSet(Dictionaries[d][W(n.length)])
  <2>1. begin2 \in pos..size /\ end \in begin2..size
    BY <1>3
  <2>2. Prefixed(Dictionaries[d]) \in Seq(WordsAt(pos, size))
    BY <1>3, <2>1, DictionaryWords
  <2>3. /\ IsInjective(Prefixed(Dictionaries[d]))
        /\ \A n \in ToSet(Prefixed(Dictionaries[d])) :
             /\ n.stat = "nor"
             /\ W(n.length) \in DOMAIN Dictionaries[d]
             /\ n.token \in ToSet(Dictionaries[d][W(n.length)])
    BY <1>3, <2>1, DictionaryOnce
  <2> QED BY <2>2, <2>3
<1>5. /\ found' = FlattenSeq(Reverse(lists))
      /\ place' \in {"connect", "blank", "group"}
  BY DEF SearchDictionaries, Prefixed
<1> HIDE DEF Prefixed
<1>6. lists \in Seq(Seq(WordsAt(pos, size))) /\ Len(lists) = Len(Dictionaries)
      /\ DOMAIN Dictionaries = 1..Len(Dictionaries)
      /\ \A d \in DOMAIN Dictionaries : lists[d] = Prefixed(Dictionaries[d])
  <2>1. DOMAIN Dictionaries = 1..Len(Dictionaries) /\ Len(Dictionaries) \in Nat
    BY TokenizerAssumption
  <2>2. lists \in [1..Len(Dictionaries) -> Seq(WordsAt(pos, size))]
        /\ \A d \in DOMAIN Dictionaries : lists[d] = Prefixed(Dictionaries[d])
    BY <1>4, <2>1
  <2> HIDE DEF lists
  <2> QED BY <2>1, <2>2
<1> HIDE DEF lists, W
<1>7. \A d \in 1..Len(lists) : IsInjective(lists[d])
  BY <1>4, <1>6
<1>8. \A d, e \in 1..Len(lists) : d # e => ToSet(lists[d]) \intersect ToSet(lists[e]) = {}
  <2> SUFFICES ASSUME NEW d \in DOMAIN Dictionaries, NEW e \in DOMAIN Dictionaries, d # e,
                      NEW n \in ToSet(lists[d]) \intersect ToSet(lists[e])
               PROVE  FALSE
    BY <1>6
  <2>1. PICK w : w = W(n.length)
    OBVIOUS
  <2>2. /\ w \in DOMAIN Dictionaries[d] /\ n.token \in ToSet(Dictionaries[d][w])
        /\ w \in DOMAIN Dictionaries[e] /\ n.token \in ToSet(Dictionaries[e][w])
    BY <1>4, <1>6, <2>1
  <2> QED BY <2>2 DEF TokensDiffer
<1>9. IsInjective(found') /\ ToSet(found') = UNION { ToSet(lists[d]) : d \in 1..Len(lists) }
  BY <1>5, <1>6, <1>7, <1>8, FlattenReversed
<1>10. \A n \in ToSet(found') : n.stat = "nor"
  BY <1>4, <1>6, <1>9
<1> QED BY <1>5, <1>9, <1>10 DEF FoundOnce

\* An unknown word is added where none of the same end is.
LEMMA AddUnknownOnce ==
  ASSUME TokensDiffer, TextInv, LookupInv, LookingUp, FoundOnce,
         NEW past \in pos+1..size+1, \A n \in ToSet(found) : n.stat = "unk" => EndOf(n) # past
  PROVE  /\ IsInjective(Unknown(past, cinfo) \o found)
         /\ \A n \in ToSet(Unknown(past, cinfo) \o found) :
              n \in ToSet(found) \/ (n.stat = "unk" /\ EndOf(n) = past)
<1>1. size \in Nat /\ pos \in Nat /\ begin2 \in Nat
  BY LookupReady
<1>2. cinfo \in Infos /\ found \in Seq(WordsAt(pos, size))
      /\ Unknown(past, cinfo) \in Seq(WordsAt(pos, size))
  BY UnknownReady
<1>3. past \in Int /\ begin2 \in Int
  BY <1>1
<1> DEFINE u == Unknown(past, cinfo)
<1>4. IsInjective(u) /\ \A n \in ToSet(u) : n.stat = "unk" /\ EndOf(n) = past
  BY <1>2, <1>3, UnknownOnce
<1> HIDE DEF u
<1>5. ToSet(u) \intersect ToSet(found) = {}
  BY <1>4
<1>6. u \in Seq(WordsAt(pos, size))
  BY <1>2 DEF u
<1>7. IsInjective(found)
  BY DEF FoundOnce
<1>8. IsInjective(u \o found)
  BY <1>2, <1>4, <1>5, <1>6, <1>7, ConcatInjective
<1>9. ToSet(u \o found) = ToSet(u) \union ToSet(found)
  BY <1>2, <1>6, ConcatElements
<1> QED BY <1>4, <1>8, <1>9 DEF u

\* The blank, the group and the counted words differ in where they end.
LEMMA AddBlankOnce ==
  ASSUME TokensDiffer, TextInv, LookupInv, FoundOnce, AddBlank
  PROVE  FoundOnce'
<1>1. /\ place = "blank" /\ found' = Unknown(begin3, cinfo) \o found
      /\ place' = IF found' # <<>> THEN "connect" ELSE "group"
  BY DEF AddBlank
<1>2. LookingUp
  BY <1>1 DEF LookingUp
<1>3. begin3 \in pos+1..size+1
  BY <1>2, LookupReady
<1>4. \A n \in ToSet(found) : n.stat # "unk"
  BY <1>1 DEF FoundOnce
<1>5. IsInjective(found')
  BY <1>1, <1>2, <1>3, <1>4, AddUnknownOnce
<1>6. place' = "group" => ToSet(found') = {}
  BY <1>1 DEF ToSet
<1>7. place' \in {"connect", "group"}
  BY <1>1
<1> QED BY <1>5, <1>6, <1>7 DEF FoundOnce

\* The characters grouped behind make one word more, which ends behind all of them.
LEMMA AddGroupOnce ==
  ASSUME TokensDiffer, TextInv, LookupInv, FoundOnce, AddGroup
  PROVE  FoundOnce'
<1>1. place = "group" /\ place' = "count" /\ UNCHANGED <<sentenceVars, end, begin2, begin3, cinfo>>
  BY DEF AddGroup, Stage
<1>2. LookingUp /\ begin3 <= end
  BY <1>1 DEF LookingUp, LookupInv
<1>3. /\ size \in Nat /\ pos \in Nat /\ IsText(sentence) /\ end \in Nat /\ begin3 \in Nat
      /\ end \in pos+1 .. size /\ begin3 \in pos+1..size+1
  BY <1>2, LookupReady
<1>4. IsInjective(found) /\ \A n \in ToSet(found) : n.stat # "unk"
  BY <1>1, <1>2 DEF FoundOnce
<1>5. CASE found' = found
  BY <1>1, <1>4, <1>5 DEF FoundOnce
<1>6. CASE found' # found
  <2>1. /\ group_begin3' = SeekToOtherType(sentence, begin3, end, cinfo)
        /\ found' = Unknown(group_begin3', cinfo) \o found
    BY <1>6 DEF AddGroup
  <2>2. end <= Len(sentence)
    BY <1>3 DEF size
  <2>3. group_begin3' \in begin3..end
    BY <1>2, <1>3, <2>1, <2>2, SeekStops
  <2>4. PICK past \in pos+1..size+1 : past = group_begin3'
    BY <1>3, <2>3
  <2>5. /\ IsInjective(Unknown(past, cinfo) \o found)
        /\ \A n \in ToSet(Unknown(past, cinfo) \o found) :
              n \in ToSet(found) \/ (n.stat = "unk" /\ EndOf(n) = past)
    BY <1>2, <1>4, AddUnknownOnce
  <2>6. /\ IsInjective(found')
        /\ \A n \in ToSet(found') : n.stat = "unk" => EndOf(n) = group_begin3'
    BY <1>4, <2>1, <2>4, <2>5
  <2> QED BY <1>1, <2>6 DEF FoundOnce
<1> QED BY <1>5, <1>6

\* Each word of counted characters ends one character behind the last one.
LEMMA AddCountedOnce ==
  ASSUME TokensDiffer, TextInv, LookupInv, FoundOnce, AddCounted
  PROVE  FoundOnce'
<1>1. /\ place = "count" /\ begin3 # group_begin3 /\ group_begin3' = group_begin3
      /\ found' = Unknown(begin3, cinfo) \o found
      /\ \/ begin3' = begin3 + 1 /\ place' = "count"
         \/ begin3' = begin3 /\ place' = "single"
  BY DEF AddCounted, Counting
<1>2. LookingUp
  BY <1>1 DEF LookingUp
<1>3. begin3 \in pos+1..size+1 /\ begin3 \in Nat /\ pos \in Nat /\ size \in Nat
  BY <1>2, LookupReady
<1>4. \A n \in ToSet(found) : n.stat = "unk" => EndOf(n) < begin3 \/ EndOf(n) = group_begin3
  BY <1>1 DEF FoundOnce
<1>5. \A n \in ToSet(found) : n.stat = "unk" => EndOf(n) # begin3
  BY <1>1, <1>3, <1>4
<1>6. /\ IsInjective(found')
      /\ \A n \in ToSet(found') : n \in ToSet(found) \/ (n.stat = "unk" /\ EndOf(n) = begin3)
  BY <1>1, <1>2, <1>3, <1>5, AddUnknownOnce
<1>7. \A n \in ToSet(found) : EndOf(n) \in Int
  <2>1. found \in Seq(WordsAt(pos, size))
    BY <1>2 DEF LookupInv
  <2>2. \A n \in WordsAt(pos, size) : EndOf(n) \in Int
    BY <1>3, WordRecords
  <2> QED BY <2>1, <2>2 DEF ToSet
<1>8. CASE begin3' = begin3 + 1 /\ place' = "count"
  <2>1. \A n \in ToSet(found') : n.stat = "unk" => EndOf(n) < begin3' \/ EndOf(n) = group_begin3'
    <3> SUFFICES ASSUME NEW n \in ToSet(found'), n.stat = "unk", EndOf(n) # group_begin3
                 PROVE  EndOf(n) < begin3 + 1
      BY <1>1, <1>8
    <3>1. EndOf(n) \in Int /\ (EndOf(n) < begin3 \/ EndOf(n) = begin3)
      BY <1>3, <1>4, <1>6, <1>7
    <3> QED BY <1>3, <3>1
  <2> QED BY <1>6, <1>8, <2>1 DEF FoundOnce
<1>9. CASE place' = "single"
  BY <1>6, <1>9 DEF FoundOnce
<1> QED BY <1>1, <1>8, <1>9

\* No stage of lookup finds a node twice.
LEMMA LookupOnce ==
  ASSUME TokensDiffer, TextInv, LookupInv, FoundOnce, Lookup
  PROVE  FoundOnce'
<1>1. CASE SkipSpace
  <2>1. place' = "dictionary" /\ found' = <<>>
    BY <1>1 DEF SkipSpace, Stage
  <2>2. IsInjective(<<>>) /\ ToSet(<<>>) = {}
    BY DEF IsInjective, ToSet
  <2> QED BY <2>1, <2>2 DEF FoundOnce
<1>2. CASE EndCounting
  <2>1. place = "count" /\ place' = "single" /\ found' = found
    BY <1>2 DEF EndCounting, Stage
  <2> QED BY <2>1 DEF FoundOnce, LookingUp
<1>3. CASE AddSingle
  <2>1. /\ place = "single" /\ place' \in {"stretch", "connect"}
        /\ found' = IF found = <<>> THEN Unknown(begin3, cinfo) ELSE found
    BY <1>3 DEF AddSingle
  <2>2. LookingUp
    BY <2>1 DEF LookingUp
  <2>3. cinfo \in Infos /\ begin3 \in Int /\ begin2 \in Int
    BY <2>2, LookupReady, UnknownReady
  <2>4. IsInjective(found) /\ IsInjective(Unknown(begin3, cinfo))
    BY <2>2, <2>3, UnknownOnce DEF FoundOnce
  <2> QED BY <2>1, <2>4 DEF FoundOnce
<1>4. CASE AddStretched
  <2>1. place = "stretch" /\ place' \in {"connect", "force"} /\ found' = Unknown(begin3', cinfo')
    BY <1>4 DEF AddStretched
  <2>2. LookingUp /\ LookingUp'
    BY <2>1 DEF LookingUp
  <2>3. TextInv' /\ LookupInv'
    BY <1>4, AddStretchedInv
  <2>4. cinfo' \in Infos /\ begin3' \in Int
    <3>1. /\ end' \in pos'+1 .. size' /\ begin2' \in pos' .. end' /\ begin3' \in begin2'+1 .. end'+1
          /\ cinfo' \in Infos
      BY <2>2, <2>3 DEF LookupInv
    <3> QED BY <3>1
  <2>5. begin2 \in Int
    BY <2>2, LookupReady
  <2>6. IsInjective(found')
    BY <2>1, <2>4, <2>5, UnknownOnce
  <2> QED BY <2>1, <2>6 DEF FoundOnce
<1>5. CASE AddForced
  <2>1. place' \in {"died", "connect"}
        /\ \E n : found' = <<n>>
    BY <1>5 DEF AddForced
  <2>2. IsInjective(found')
    BY <2>1, SingleInjective
  <2> QED BY <2>1, <2>2 DEF FoundOnce
<1> QED BY <1>1, <1>2, <1>3, <1>4, <1>5, SearchDictionariesOnce, AddBlankOnce, AddGroupOnce,
           AddCountedOnce DEF Lookup

\* Outside lookup nothing is being found.
LEMMA NothingFound ==
  ASSUME place' \notin {"dictionary", "blank", "group", "count", "single", "stretch", "force", "connect"}
  PROVE  FoundOnce'
BY DEF FoundOnce, LookingUp

\* The lists kept have no node twice while they stay.
LEMMA ListedStays ==
  ASSUME ListedOnce, place # "initPartial", UNCHANGED <<sentence, begin_nodes>>
  PROVE  ListedOnce'
<1>1. size' = size
  BY DEF size
<1> QED BY <1>1 DEF ListedOnce

\* No step puts a node into a list twice.
LEMMA StepOnce ==
  ASSUME TokensDiffer, IInv, FoundOnce, ListedOnce, [Next]_vars
  PROVE  FoundOnce' /\ ListedOnce'
<1>1. TextInv /\ LookupInv /\ LatticeInv
  BY DEF IInv
<1>2. CASE InitPartial
  <2>1. place' = "scan" /\ begin_nodes' = [p \in 0..size' |-> <<>>]
    BY <1>2 DEF InitPartial, size
  <2>2. IsInjective(<<>>)
    BY DEF IsInjective
  <2>3. \A q \in 0..size' : begin_nodes'[q] = <<>>
    BY <2>1
  <2>4. ListedOnce'
    BY <2>2, <2>3 DEF ListedOnce
  <2>5. FoundOnce'
    BY <2>1, NothingFound
  <2> QED BY <2>4, <2>5
<1>3. CASE SkipPosition
  <2>1. place = "scan" /\ place' = "scan" /\ UNCHANGED <<sentence, begin_nodes>>
    BY <1>3 DEF SkipPosition, inputVars, listVars
  <2> QED BY <2>1, NothingFound, ListedStays
<1>4. CASE ScanPosition
  <2>1. place = "scan" /\ place' = "lookup" /\ UNCHANGED <<sentence, begin_nodes>>
    BY <1>4 DEF ScanPosition, Stage, inputVars, listVars
  <2> QED BY <2>1, NothingFound, ListedStays
<1>5. CASE LookupStep
  <2>1. Lookup /\ UNCHANGED listVars
    BY <1>5 DEF LookupStep
  <2>2. place # "initPartial" /\ sentence' = sentence
    BY <2>1 DEF Lookup, sentenceVars, Stage, SkipSpace, SearchDictionaries, AddBlank, AddGroup,
                AddCounted, EndCounting, AddSingle, AddStretched, AddForced
  <2>3. begin_nodes' = begin_nodes
    BY <2>1 DEF listVars
  <2> QED BY <1>1, <2>1, <2>2, <2>3, LookupOnce, ListedStays
<1>6. CASE ConnectFound
  <2>1. /\ place = "connect" /\ sentence' = sentence /\ place' \in {"scan", "too long sentence"}
        /\ begin_nodes' = [begin_nodes EXCEPT ![pos] = found]
    BY <1>6 DEF ConnectFound, Connect, inputVars
  <2>2. LookingUp /\ place # "initPartial"
    BY <2>1 DEF LookingUp
  <2>3. /\ size \in Nat /\ pos \in Nat /\ pos < size /\ size' = size /\ DOMAIN begin_nodes = 0..size
    BY <1>1, <2>1, <2>2, LookupReady, LatticeReady DEF size, ListsInv
  <2>4. begin_nodes'[pos] = found /\ \A q \in 0..size : q # pos => begin_nodes'[q] = begin_nodes[q]
    <3>1. pos \in 0..size
      BY <2>3
    <3> QED BY <2>1, <2>3, <3>1, Zenon
  <2>5. ListedOnce'
    BY <2>2, <2>3, <2>4 DEF ListedOnce, FoundOnce
  <2> QED BY <2>1, <2>5, NothingFound
<1>7. CASE ConnectEOS
  <2>1. /\ place = "scan" /\ sentence' = sentence
        /\ place' \in {"forwardbackward", "too long sentence"}
        /\ begin_nodes' = [begin_nodes EXCEPT ![size] = <<EOSNode(size)>>]
    BY <1>7 DEF ConnectEOS, Connect, inputVars
  <2>2. size \in Nat /\ size' = size /\ DOMAIN begin_nodes = 0..size
    BY <1>1, <2>1, LatticeReady DEF size, ListsInv
  <2>3. /\ begin_nodes'[size] = <<EOSNode(size)>>
        /\ \A q \in 0..size : q # size => begin_nodes'[q] = begin_nodes[q]
    <3>1. size \in 0..size
      BY <2>2
    <3> QED BY <2>1, <2>2, <3>1, Zenon
  <2>4. IsInjective(<<EOSNode(size)>>)
    BY SingleInjective
  <2>5. ListedOnce'
    BY <2>1, <2>2, <2>3, <2>4 DEF ListedOnce
  <2> QED BY <2>1, <2>5, NothingFound
<1>8. CASE ForwardBackward \/ BuildBestLattice \/ BuildAllLattice \/ InitNBest \/ CallNext \/ Search
  <2>1. /\ place # "initPartial"
        /\ place' \in {"buildBestLattice", "buildAllLattice", "initNBest", "parsed",
                      "searching", "result", "exhausted"}
        /\ UNCHANGED <<sentence, begin_nodes>>
    BY <1>8 DEF ForwardBackward, BuildBestLattice, BuildAllLattice, InitNBest, CallNext, Search,
                Expand, Find, Exhaust, searchVars, inputVars, listVars
  <2> QED BY <2>1, NothingFound, ListedStays
<1>9. CASE UNCHANGED vars
  <2>1. UNCHANGED <<sentence, place, begin3, group_begin3, found, pos, begin_nodes>>
    BY <1>9 DEF vars, latticeVars, inputVars, lookupVars, listVars
  <2>2. size' = size /\ LookingUp' = LookingUp
    BY <2>1 DEF size, LookingUp
  <2> QED BY <2>1, <2>2 DEF FoundOnce, ListedOnce, EndOf
<1> QED BY <1>2, <1>3, <1>4, <1>5, <1>6, <1>7, <1>8, <1>9 DEF Next, Analyze, AnalyzeStep

\* the lists of nodes that AllMorphs joins
BeginLists == [i \in 1..size+1 |-> begin_nodes[i - 1]]

\* They hold every node but BOS, none in two of them, and EOS alone in the last.
LEMMA BeginListsAre ==
  ASSUME TextInv, LatticeInv, Built
  PROVE  /\ BeginLists \in Seq(Seq(Nodes \ {BOSNode})) /\ Len(BeginLists) = size + 1
         /\ BeginLists[size + 1] = <<EOS>> /\ size \in Nat
         /\ \A i \in 1..size+1 : BeginLists[i] = begin_nodes[i - 1]
         /\ \A i, j \in 1..size+1 : i # j => ToSet(BeginLists[i]) \intersect ToSet(BeginLists[j]) = {}
         /\ UNION { ToSet(BeginLists[i]) : i \in 1..size+1 } = Nodes \ {BOSNode}
<1>0. place # "initPartial" /\ ~ GaveUp
  BY DEF Built, GaveUp
<1>1. size \in Nat /\ ListsInv /\ NodesInv
  BY <1>0, LatticeReady
<1>2. EOS = EOSNode(size) /\ EOS \in Nodes /\ EOS # BOSNode /\ EOS.stat = "eos" /\ BOSNode \in Nodes
  BY <1>1, EOSIs DEF NodesInv
<1> DEFINE Others == Nodes \ {BOSNode}
<1>3. begin_nodes[size] = <<EOS>>
  BY <1>1, <1>2 DEF ListsInv
<1>4. ASSUME NEW q \in 0..size-1
      PROVE  /\ begin_nodes[q] \in Seq(Others)
             /\ \A n \in ToSet(begin_nodes[q]) : n \in Others /\ BeginOf(n) = q /\ n # EOS
  <2>1. begin_nodes[q] \in Seq(WordsAt(q, size))
    BY <1>1 DEF ListsInv
  <2>2. ToSet(begin_nodes[q]) \subseteq Nodes
    BY <1>0, <1>1 DEF NodesInv, Whole
  <2>3. \A n \in ToSet(begin_nodes[q]) : n \in Others /\ BeginOf(n) = q /\ n # EOS
    BY <1>1, <1>2, <2>2, FoundAre
  <2>4. \A j \in 1..Len(begin_nodes[q]) : begin_nodes[q][j] \in Others
    BY <2>1, <2>3 DEF ToSet
  <2> HIDE DEF Others
  <2> QED BY <2>1, <2>3, <2>4
<1>5. \A q \in 0..size : begin_nodes[q] \in Seq(Others)
  <2>1. <<EOS>> \in Seq(Others)
    BY <1>2
  <2>2. \A q \in 0..size : q = size \/ q \in 0..size-1
    BY <1>1
  <2> HIDE DEF Others
  <2> QED BY <1>3, <1>4, <2>1, <2>2
<1>6. \A i \in 1..size+1 : i - 1 \in 0..size /\ BeginLists[i] = begin_nodes[i - 1]
  BY <1>1 DEF BeginLists
<1>7. BeginLists \in Seq(Seq(Others)) /\ Len(BeginLists) = size + 1
  <2>1. BeginLists \in [1..size+1 -> Seq(Others)]
    BY <1>5, <1>6 DEF BeginLists
  <2>2. size + 1 \in Nat
    BY <1>1
  <2> HIDE DEF Others
  <2> QED BY <2>1, <2>2
<1>8. BeginLists[size + 1] = <<EOS>>
  <2>1. size + 1 \in 1..size+1 /\ (size + 1) - 1 = size
    BY <1>1
  <2> QED BY <1>3, <1>6, <2>1
<1>9. ToSet(<<EOS>>) = {EOS}
  BY SingleInjective
<1>10. \A p, q \in 0..size : p # q => ToSet(begin_nodes[p]) \intersect ToSet(begin_nodes[q]) = {}
  <2> SUFFICES ASSUME NEW p \in 0..size, NEW q \in 0..size, p # q,
                      NEW n \in ToSet(begin_nodes[p]) \intersect ToSet(begin_nodes[q])
               PROVE  FALSE
    OBVIOUS
  <2>1. CASE p = size
    <3>1. q \in 0..size-1 /\ n = EOS
      BY <1>1, <1>3, <1>9, <2>1
    <3> QED BY <1>4, <3>1
  <2>2. CASE q = size
    <3>1. p \in 0..size-1 /\ n = EOS
      BY <1>1, <1>3, <1>9, <2>2
    <3> QED BY <1>4, <3>1
  <2>3. CASE p # size /\ q # size
    <3>1. p \in 0..size-1 /\ q \in 0..size-1
      BY <1>1, <2>3
    <3>2. BeginOf(n) = p /\ BeginOf(n) = q
      BY <1>4, <3>1
    <3> QED BY <3>2
  <2> QED BY <2>1, <2>2, <2>3
<1>11. ASSUME NEW i \in 1..size+1, NEW j \in 1..size+1, i # j
       PROVE  ToSet(BeginLists[i]) \intersect ToSet(BeginLists[j]) = {}
  <2>1. PICK p \in 0..size, q \in 0..size : p = i - 1 /\ q = j - 1
    BY <1>6
  <2>2. p # q
    BY <1>11, <2>1
  <2> QED BY <1>6, <1>10, <2>1, <2>2
<1>12. \A n : (\E i \in 1..size+1 : n \in ToSet(BeginLists[i])) <=> n \in Others
  <2>1. ASSUME NEW n, NEW i \in 1..size+1, n \in ToSet(BeginLists[i]) PROVE n \in Others
    <3>1. PICK q \in 0..size : q = i - 1 /\ n \in ToSet(begin_nodes[q])
      BY <1>6, <2>1
    <3>2. begin_nodes[q] \in Seq(Others)
      BY <1>5
    <3> HIDE DEF Others
    <3> QED BY <3>1, <3>2 DEF ToSet
  <2>2. ASSUME NEW n \in Others PROVE \E i \in 1..size+1 : n \in ToSet(BeginLists[i])
    <3>1. \E q \in 0..size : n \in ToSet(begin_nodes[q])
      <4>1. CASE n = EOS
        <5>1. size \in 0..size
          BY <1>1
        <5> QED BY <1>3, <1>9, <4>1, <5>1
      <4>2. CASE n # EOS
        <5>1. PICK q \in 0..size-1 : n \in ToSet(begin_nodes[q])
          BY <1>1, <1>2, <4>2 DEF NodesInv
        <5>2. q \in 0..size
          BY <1>1
        <5> QED BY <5>1, <5>2
      <4> QED BY <4>1, <4>2
    <3>2. PICK q \in 0..size : n \in ToSet(begin_nodes[q])
      BY <3>1
    <3>3. q + 1 \in 1..size+1 /\ (q + 1) - 1 = q
      BY <1>1
    <3>4. BeginLists[q + 1] = begin_nodes[q]
      BY <1>6, <3>3
    <3> QED BY <3>2, <3>3, <3>4
  <2> HIDE DEF Others
  <2> QED BY <2>1, <2>2
<1>13. UNION { ToSet(BeginLists[i]) : i \in 1..size+1 } = Others
  <2>1. \A n : n \in UNION { ToSet(BeginLists[i]) : i \in 1..size+1 }
               <=> \E i \in 1..size+1 : n \in ToSet(BeginLists[i])
    OBVIOUS
  <2> HIDE DEF Others
  <2> QED BY <1>12, <2>1, Zenon
<1> QED BY <1>1, <1>6, <1>7, <1>8, <1>11, <1>13

\* The last part is what the joined sequence ends with.
LEMMA FlattenEnds ==
  ASSUME NEW X, NEW s \in Seq(Seq(X)), s # <<>>
  PROVE  \E v \in Seq(X) : FlattenSeq(s) = v \o s[Len(s)]
<1>1. Len(s) \in Nat /\ Len(s) # 0
  OBVIOUS
<1>2. PICK run : /\ FlattenSeq(s) = run[Len(s)] /\ run[1] = s[1]
                 /\ \A i \in 2..Len(s) : run[i] = run[i - 1] \o s[i]
  BY FlattenRun
<1> DEFINE Good == { k \in Nat : k + 1 <= Len(s) => run[k + 1] \in Seq(X) }
<1>3. 0 \in Good
  <2>1. 0 + 1 = 1 /\ s[1] \in Seq(X)
    BY <1>1
  <2> QED BY <1>2, <2>1
<1>4. ASSUME NEW k \in Nat, k \in Good PROVE k + 1 \in Good
  <2> SUFFICES ASSUME k + 1 + 1 <= Len(s) PROVE run[k + 1 + 1] \in Seq(X)
    OBVIOUS
  <2>1. /\ k + 1 + 1 \in 2..Len(s) /\ (k + 1 + 1) - 1 = k + 1 /\ run[k + 1] \in Seq(X)
        /\ s[k + 1 + 1] \in Seq(X)
    BY <1>1, <1>4
  <2>2. run[k + 1 + 1] = run[k + 1] \o s[k + 1 + 1]
    BY <1>2, <2>1
  <2> QED BY <2>1, <2>2
<1> HIDE DEF Good
<1>5. Nat \subseteq Good
  BY <1>3, <1>4, NatSetInduction, Zenon
<1>6. s[1] = <<>> \o s[1] /\ <<>> \in Seq(X)
  <2>1. s[1] \in Seq(X)
    BY <1>1
  <2> QED BY <2>1
<1>7. CASE Len(s) = 1
  BY <1>2, <1>6, <1>7
<1>8. CASE Len(s) # 1
  <2>1. Len(s) \in 2..Len(s) /\ Len(s) - 2 \in Nat /\ (Len(s) - 2) + 1 = Len(s) - 1
        /\ Len(s) - 1 <= Len(s)
    BY <1>1, <1>8
  <2>2. Len(s) - 2 \in Good
    BY <1>5, <2>1
  <2>3. run[Len(s) - 1] \in Seq(X)
    BY <2>1, <2>2 DEF Good
  <2> QED BY <1>2, <2>1, <2>3
<1> QED BY <1>7, <1>8

\* With ALL_MORPHS the chain is every node of the lattice once, from BOS to EOS.
LEMMA AllMorphsOnce ==
  ASSUME TextInv, LatticeInv, ListedOnce, Built
  PROVE  /\ AllMorphs \in Seq(Nodes) /\ AllMorphs # <<>> /\ AllMorphs[1] = BOSNode
         /\ IsInjective(AllMorphs) /\ ToSet(AllMorphs) = Nodes
         /\ AllMorphs[Len(AllMorphs)] = EOS
<1>0. place # "initPartial"
  BY DEF Built
<1>1. BOS = BOSNode /\ BOSNode \in Nodes /\ EOS \in Nodes
  BY <1>0, EOSIs, LatticeReady DEF NodesInv
<1> DEFINE Others == Nodes \ {BOSNode}
           rest == FlattenSeq(BeginLists)
<1>2. /\ BeginLists \in Seq(Seq(Others)) /\ Len(BeginLists) = size + 1 /\ size \in Nat
      /\ BeginLists[size + 1] = <<EOS>>
      /\ \A i \in 1..size+1 : BeginLists[i] = begin_nodes[i - 1]
      /\ \A i, j \in 1..size+1 : i # j => ToSet(BeginLists[i]) \intersect ToSet(BeginLists[j]) = {}
      /\ UNION { ToSet(BeginLists[i]) : i \in 1..size+1 } = Others
  BY BeginListsAre
<1>3. \A i \in 1..Len(BeginLists) : IsInjective(BeginLists[i])
  <2> TAKE i \in 1..Len(BeginLists)
  <2>1. i - 1 \in 0..size
    BY <1>2
  <2> QED BY <1>0, <1>2, <2>1 DEF ListedOnce
<1>4. rest \in Seq(Others) /\ ToSet(rest) = Others /\ IsInjective(rest)
  <2> HIDE DEF Others
  <2>1. FlattenSeq(BeginLists) \in Seq(Others)
        /\ ToSet(FlattenSeq(BeginLists)) = UNION { ToSet(BeginLists[i]) : i \in 1..Len(BeginLists) }
    BY <1>2, FlattenElements
  <2>2. IsInjective(FlattenSeq(BeginLists))
    BY <1>2, <1>3, FlattenInjective
  <2> QED BY <1>2, <2>1, <2>2
<1>5. rest # <<>> /\ rest[Len(rest)] = EOS
  <2>1. BeginLists # <<>>
    BY <1>2
  <2>2. \E v \in Seq(Others) : FlattenSeq(BeginLists) = v \o BeginLists[Len(BeginLists)]
    <3> HIDE DEF Others
    <3> QED BY <1>2, <2>1, FlattenEnds
  <2>3. PICK v \in Seq(Others) : rest = v \o <<EOS>>
    BY <1>2, <2>2
  <2> HIDE DEF rest
  <2> QED BY <2>3
<1>6. AllMorphs = <<BOSNode>> \o rest
  BY <1>1 DEF AllMorphs, BeginLists
<1> HIDE DEF rest
<1> DEFINE all == <<BOSNode>> \o rest
<1>7. /\ all \in Seq(Nodes) /\ all # <<>> /\ all[1] = BOSNode /\ Len(all) = Len(rest) + 1
      /\ all[Len(all)] = rest[Len(rest)]
  <2>1. rest \in Seq(Nodes) /\ Len(rest) \in Nat /\ Len(rest) # 0
    BY <1>4, <1>5
  <2> QED BY <1>1, <2>1
<1>8. IsInjective(all) /\ ToSet(all) = Nodes
  <2>1. <<BOSNode>> \in Seq(Nodes) /\ ToSet(<<BOSNode>>) = {BOSNode} /\ IsInjective(<<BOSNode>>)
    BY <1>1, SingleInjective
  <2>2. rest \in Seq(Nodes)
    BY <1>4
  <2>3. PICK v \in Seq(Nodes) : v = <<BOSNode>> /\ ToSet(v) = {BOSNode} /\ IsInjective(v)
    BY <2>1
  <2>4. ToSet(v) \intersect ToSet(rest) = {}
    BY <1>4, <2>3
  <2>5. IsInjective(v \o rest) /\ ToSet(v \o rest) = ToSet(v) \union ToSet(rest)
    <3> HIDE DEF Others
    <3>1. IsInjective(v \o rest)
      BY <1>4, <2>2, <2>3, <2>4, ConcatInjective
    <3>2. ToSet(v \o rest) = ToSet(v) \union ToSet(rest)
      BY <2>2, <2>3, ConcatElements
    <3> QED BY <3>1, <3>2
  <2> QED BY <1>1, <1>4, <2>3, <2>5
<1> HIDE DEF all
<1> QED BY <1>5, <1>6, <1>7, <1>8 DEF all

\* In a chain without repetition the element has one place.
LEMMA IndexAt ==
  ASSUME NEW X, NEW chain \in Seq(X), IsInjective(chain), NEW i \in 1..Len(chain)
  PROVE  IndexIn(chain, chain[i]) = i
<1>1. IndexIn(chain, chain[i]) \in 1..i /\ chain[IndexIn(chain, chain[i])] = chain[i]
  BY IndexIs
<1>2. PICK j \in 1..i : j = IndexIn(chain, chain[i]) /\ chain[j] = chain[i]
  BY <1>1
<1>3. j \in 1..Len(chain)
  OBVIOUS
<1> QED BY <1>2, <1>3, InjectiveIs

\* Along such a chain next leads from every node to the one behind it.
LEMMA NextAlongAt ==
  ASSUME NEW N, NEW chain \in Seq(N), chain # <<>>, IsInjective(chain), DOMAIN next = N
  PROVE  /\ \A i \in 1..Len(chain)-1 : NextAlong(chain)[chain[i]] = chain[i + 1]
         /\ \A n \in N : (\A i \in 1..Len(chain)-1 : chain[i] # n) => NextAlong(chain)[n] = next[n]
<1> DEFINE new == [n \in ToSet(Front(chain)) |-> chain[IndexIn(chain, n) + 1]]
<1>1. NextAlong(chain) = Updated(next, new)
  BY DEF NextAlong
<1>2. PICK len \in Nat : len = Len(chain) /\ len # 0
  OBVIOUS
<1>3. DOMAIN Front(chain) = 1..len-1 /\ \A i \in 1..len - 1 : Front(chain)[i] = chain[i]
  BY <1>2 DEF Front
<1>4. \A n : n \in DOMAIN new <=> \E i \in 1..len-1 : n = chain[i]
  BY <1>3 DEF ToSet
<1>5. \A i \in 1..len-1 : new[chain[i]] = chain[i + 1]
  <2> TAKE i \in 1..len-1
  <2>1. i \in 1..Len(chain)
    BY <1>2
  <2>2. IndexIn(chain, chain[i]) = i
    BY <2>1, IndexAt
  <2>3. chain[i] \in ToSet(Front(chain))
    BY <1>3 DEF ToSet
  <2> QED BY <2>2, <2>3
<1> HIDE DEF new
<1>6. /\ \A n \in DOMAIN new : Updated(next, new)[n] = new[n]
      /\ \A n \in DOMAIN next \ DOMAIN new : Updated(next, new)[n] = next[n]
  BY UpdatedIs
<1>7. \A i \in 1..len-1 : NextAlong(chain)[chain[i]] = chain[i + 1]
  BY <1>1, <1>4, <1>5, <1>6
<1>8. ASSUME NEW n \in N, \A i \in 1..len-1 : chain[i] # n PROVE NextAlong(chain)[n] = next[n]
  <2>1. n \notin DOMAIN new
    BY <1>4, <1>8
  <2> QED BY <1>1, <1>6, <2>1
<1> QED BY <1>2, <1>7, <1>8

\* And prev leads back.
LEMMA PrevAlongAt ==
  ASSUME NEW N, NEW chain \in Seq(N), chain # <<>>, IsInjective(chain), DOMAIN prev = N
  PROVE  \A i \in 2..Len(chain) : PrevAlong(chain)[chain[i]] = chain[i - 1]
<1> DEFINE new == [n \in ToSet(Tail(chain)) |-> chain[IndexIn(chain, n) - 1]]
<1>1. PrevAlong(chain) = Updated(prev, new)
  BY DEF PrevAlong
<1>2. PICK len \in Nat : len = Len(chain) /\ len # 0
  OBVIOUS
<1>3. DOMAIN Tail(chain) = 1..len-1 /\ \A i \in 1..len - 1 : Tail(chain)[i] = chain[i + 1]
  BY <1>2
<1> SUFFICES ASSUME NEW i \in 2..len PROVE PrevAlong(chain)[chain[i]] = chain[i - 1]
  BY <1>2
<1>4. i \in 1..Len(chain)
  BY <1>2
<1>5. IndexIn(chain, chain[i]) = i
  BY <1>4, IndexAt
<1>6. chain[i] \in ToSet(Tail(chain))
  <2>1. i - 1 \in 1..len-1 /\ (i - 1) + 1 = i
    BY <1>2
  <2>2. Tail(chain)[i - 1] = chain[i]
    BY <1>3, <2>1
  <2> QED BY <1>3, <2>1, <2>2 DEF ToSet
<1>7. new[chain[i]] = chain[i - 1] /\ chain[i] \in DOMAIN new
  BY <1>5, <1>6
<1> HIDE DEF new
<1>8. \A n \in DOMAIN new : Updated(prev, new)[n] = new[n]
  BY UpdatedIs
<1> QED BY <1>1, <1>7, <1>8

\* A left neighbour ranks lower.
LEMMA LeftRanksLower ==
  ASSUME TextInv, LatticeInv, Built, NEW n \in Nodes \ {BOSNode}, NEW l \in LeftOf(n)
  PROVE  Rank(l) \in 0..size /\ Rank(n) \in 1..size+2 /\ Rank(l) < Rank(n)
<1>0. place # "initPartial"
  BY DEF Built
<1>1. size \in Nat /\ ListsInv /\ NodesInv
  BY <1>0, LatticeReady
<1>2. CASE n.stat = "eos"
  <2>1. LastEnd \in 0..size /\ LeftOf(n) = EndsAt(LastEnd)
    BY <1>1, <1>2, LastEndIs DEF LeftOf
  <2>2. LastEnd \in 0..size+3
    BY <1>1, <2>1
  <2>3. l.stat # "eos" /\ EndOf(l) = LastEnd
    BY <1>1, <2>1, <2>2 DEF NodesInv
  <2>4. PICK m \in 0..size : m = LastEnd
    BY <2>1
  <2>5. Rank(l) = m /\ Rank(n) = size + 2
    BY <1>2, <2>3, <2>4 DEF Rank
  <2>6. m < size + 2 /\ size + 2 \in 1..size+2
    BY <1>1
  <2> QED BY <2>5, <2>6
<1>3. CASE n.stat # "eos"
  <2>1. n \notin {BOSNode, EOSNode(size)}
    BY <1>1, <1>3, EndNodes
  <2>2. PICK b \in 0..size-1 : b = BeginOf(n) /\ n \in ToSet(begin_nodes[b]) /\ LeftOf(n) = EndsAt(b)
    BY <1>1, <1>3, <2>1, NodesAre DEF LeftOf
  <2>3. b \in 0..size+3 /\ EndOf(n) \in b+1..size+1
    BY <1>1, <2>2, FoundAre
  <2>4. l.stat # "eos" /\ EndOf(l) = b
    BY <1>1, <2>2, <2>3 DEF NodesInv
  <2>5. PICK e \in b+1..size+1 : e = EndOf(n)
    BY <2>3
  <2>6. Rank(l) = b /\ Rank(n) = e
    BY <1>3, <2>4, <2>5 DEF Rank
  <2>7. b \in 0..size /\ e \in 1..size+2 /\ b < e
    BY <1>1
  <2> QED BY <2>6, <2>7
<1> QED BY <1>2, <1>3

\* A sequence of rising numbers does not repeat one.
LEMMA RisingDiffers ==
  ASSUME NEW n \in Nat, NEW f, \A i \in 1..n : f[i] \in Int, \A i \in 2..n : f[i - 1] < f[i]
  PROVE  \A i, j \in 1..n : f[i] = f[j] => i = j
<1> DEFINE Good == { k \in Nat : k <= n => \A i \in 1..k : \A j \in 1..k : i < j => f[i] < f[j] }
<1>1. 0 \in Good
  OBVIOUS
<1>2. ASSUME NEW k \in Nat, k \in Good PROVE k + 1 \in Good
  <2> SUFFICES ASSUME k + 1 <= n, NEW i \in 1..k+1, NEW j \in 1..k+1, i < j PROVE f[i] < f[j]
    OBVIOUS
  <2>1. CASE j # k + 1
    <3>1. i \in 1..k /\ j \in 1..k /\ k <= n
      BY <2>1
    <3> QED BY <1>2, <3>1
  <2>2. CASE j = k + 1
    <3>1. i \in 1..k /\ k \in 1..k /\ k \in 1..n /\ i \in 1..n /\ k + 1 \in 1..n /\ k + 1 \in 2..n /\ k <= n
          /\ (k + 1) - 1 = k
      BY <2>2
    <3>2. f[k] < f[k + 1] /\ f[k] \in Int /\ f[k + 1] \in Int /\ f[i] \in Int
      <4>1. f[(k + 1) - 1] < f[k + 1]
        BY <3>1
      <4> QED BY <3>1, <4>1
    <3>3. i = k \/ f[i] < f[k]
      <4>1. i = k \/ i < k
        BY <3>1
      <4> QED BY <1>2, <3>1, <4>1
    <3> QED BY <2>2, <3>2, <3>3
  <2> QED BY <2>1, <2>2
<1> HIDE DEF Good
<1>3. n \in Good
  BY <1>1, <1>2, NatSetInduction
<1> SUFFICES ASSUME NEW i \in 1..n, NEW j \in 1..n, f[i] = f[j], i # j PROVE FALSE
  OBVIOUS
<1>4. \A a \in 1..n : \A b \in 1..n : a < b => f[a] < f[b]
  BY <1>3 DEF Good
<1>5. i < j \/ j < i
  OBVIOUS
<1>6. f[i] < f[j] \/ f[j] < f[i]
  BY <1>4, <1>5
<1>7. f[i] \in Int
  OBVIOUS
<1> QED BY <1>6, <1>7

\* A segmentation rises from BOS to EOS, so it has no node twice.
LEMMA SegmentationRises ==
  ASSUME IInv, Built, NEW s \in Segmentations
  PROVE  /\ s \in Seq(Nodes) /\ s # <<>> /\ s[1] = BOSNode /\ s[Len(s)] = EOS /\ IsInjective(s)
         /\ \A i \in 1..Len(s)-1 : Rank(s[i]) < Rank(s[i + 1])
<1>1. /\ s \in Seq(Nodes) /\ s # <<>> /\ s[1] = BOSNode /\ s[Len(s)] = EOS
      /\ Len(s) \in Nat /\ Len(s) # 0
      /\ \A i \in 2..Len(s) : s[i - 1] \in LeftOf(s[i]) /\ s[i] # BOSNode
  BY SegmentationIs
<1>2. TextInv /\ LatticeInv
  BY DEF IInv
<1>3. \A i \in 2..Len(s) : Rank(s[i - 1]) \in 0..size /\ Rank(s[i]) \in 1..size+2 /\ Rank(s[i - 1]) < Rank(s[i])
  <2> TAKE i \in 2..Len(s)
  <2>1. PICK n \in Nodes \ {BOSNode} : n = s[i]
    <3>1. i \in 1..Len(s)
      BY <1>1
    <3> QED BY <1>1, <3>1
  <2>2. PICK l \in LeftOf(n) : l = s[i - 1]
    BY <1>1, <2>1
  <2> QED BY <1>2, <2>1, <2>2, LeftRanksLower
<1> DEFINE f == [i \in 1..Len(s) |-> Rank(s[i])]
<1>4. \A i \in 2..Len(s) : i \in 1..Len(s) /\ i - 1 \in 1..Len(s)
  BY <1>1
<1>5. \A i \in 2..Len(s) : f[i - 1] < f[i]
  BY <1>3, <1>4
<1>6. \A i \in 1..Len(s) : f[i] \in Int
  <2> TAKE i \in 1..Len(s)
  <2>1. CASE i = 1
    <3>1. Rank(BOSNode) = 0
      <4>1. size \in Nat
        BY <1>2, LatticeReady DEF Built
      <4> QED BY <4>1, EndNodes DEF Rank
    <3> QED BY <1>1, <2>1, <3>1
  <2>2. CASE i # 1
    <3>1. i \in 2..Len(s)
      BY <1>1, <2>2
    <3> QED BY <1>3, <3>1
  <2> QED BY <2>1, <2>2
<1>7. \A i, j \in 1..Len(s) : f[i] = f[j] => i = j
  <2> HIDE DEF f
  <2> QED BY <1>1, <1>5, <1>6, RisingDiffers
<1>8. IsInjective(s)
  BY <1>1, <1>7, InjectiveIs
<1>9. \A i \in 1..Len(s)-1 : Rank(s[i]) < Rank(s[i + 1])
  <2> TAKE i \in 1..Len(s)-1
  <2>1. i + 1 \in 2..Len(s) /\ (i + 1) - 1 = i
    BY <1>1
  <2> QED BY <1>3, <2>1
<1> QED BY <1>1, <1>8, <1>9

\* The walk back from EOS follows prev.
LEMMA BackLinks ==
  ASSUME TextInv, LatticeInv, place = "buildBestLattice", NEW f, IsBack(f)
  PROVE  \A i \in 2..Len(f[EOS]) : prev[f[EOS][i]] = f[EOS][i - 1]
<1> DEFINE Right(n) == /\ f[n] \in Seq(Nodes) /\ f[n] # <<>> /\ f[n][Len(f[n])] = n
                       /\ \A i \in 2..Len(f[n]) : prev[f[n][i]] = f[n][i - 1]
           Good == { k \in Nat : \A n \in Below(k) : Right(n) }
<1>0. /\ size \in Nat /\ Nodes = Below(size + 2) /\ Below(0) = {BOSNode}
      /\ \A k \in Nat : \A n \in Below(k + 1) \ {BOSNode} : prev[n] \in Below(k)
  BY RankIs
<1>1. /\ prev[BOSNode] = None
      /\ \A n \in Nodes \ {BOSNode} : prev[n] \in Nodes /\ prev[n] # None
  BY PrevIs
<1>2. BOSNode \in Nodes
  BY LatticeReady DEF NodesInv
<1>3. EOS \in Nodes
  BY EOSIs DEF Built
<1>4. \A n \in Nodes : f[n] = IF prev[n] = None THEN <<n>> ELSE Append(f[prev[n]], n)
  BY DEF IsBack
<1>5. Right(BOSNode)
  <2>1. f[BOSNode] = <<BOSNode>>
    BY <1>1, <1>2, <1>4
  <2> QED BY <1>2, <2>1
<1>6. 0 \in Good
  BY <1>0, <1>5
<1>7. ASSUME NEW k \in Nat, k \in Good PROVE k + 1 \in Good
  <2> SUFFICES ASSUME NEW n \in Below(k + 1) PROVE Right(n)
    OBVIOUS
  <2>1. CASE n = BOSNode
    BY <1>5, <2>1
  <2>2. CASE n # BOSNode
    <3>1. n \in Nodes /\ prev[n] \in Below(k)
      BY <1>0, <2>2 DEF Below
    <3>2. PICK l : l = prev[n] /\ l # None
      BY <1>1, <2>2, <3>1
    <3>3. Right(l) /\ f[n] = Append(f[l], n)
      BY <1>4, <1>7, <3>1, <3>2
    <3>4. PICK t \in Seq(Nodes) : t = f[l]
      BY <3>3
    <3> DEFINE c == Append(t, n)
    <3>5. /\ c \in Seq(Nodes) /\ c # <<>> /\ Len(c) = Len(t) + 1 /\ c[Len(c)] = n
          /\ Len(t) \in Nat /\ Len(t) # 0 /\ \A i \in 1..Len(t) : c[i] = t[i]
      BY <3>1, <3>3, <3>4
    <3> HIDE DEF c
    <3>6. ASSUME NEW i \in 2..Len(c) PROVE prev[c[i]] = c[i - 1]
      <4>1. CASE i = Len(c)
        <5>1. c[i] = n /\ c[i - 1] = t[Len(t)]
          BY <3>5, <4>1
        <5> QED BY <3>2, <3>3, <3>4, <5>1
      <4>2. CASE i # Len(c)
        <5>1. i \in 2..Len(t) /\ c[i] = t[i] /\ c[i - 1] = t[i - 1]
          BY <3>5, <4>2
        <5> QED BY <3>3, <3>4, <5>1
      <4> QED BY <4>1, <4>2
    <3>7. f[n] = c
      BY <3>3, <3>4 DEF c
    <3> QED BY <3>5, <3>6, <3>7
  <2> QED BY <2>1, <2>2
<1> HIDE DEF Good, Right
<1>8. EOS \in Below(size + 2) /\ size + 2 \in Good
  <2>1. size + 2 \in Nat
    BY <1>0
  <2> QED BY <1>0, <1>3, <1>6, <1>7, <2>1, NatSetInduction
<1> QED BY <1>8 DEF Good, Right

\* Once the links are set along a chain without repetition, they lead along it.
LEMMA LinksAlong ==
  ASSUME NEW c \in Seq(Nodes), c # <<>>, IsInjective(c), c[1] = BOSNode, next[c[Len(c)]] = None,
         DOMAIN next = Nodes, DOMAIN prev = Nodes, Nodes' = Nodes, next' = NextAlong(c),
         prev' = PrevAlong(c) \/ (prev' = prev /\ \A i \in 2..Len(c) : prev[c[i]] = c[i - 1])
  PROVE  LinkedAlong(c)' /\ next'[c[Len(c)]] = None
<1>1. PICK len \in Nat : len = Len(c) /\ len # 0
  OBVIOUS
<1>2. \A i, j \in 1..len : c[i] = c[j] => i = j
  BY <1>1, InjectiveIs
<1>3. /\ \A i \in 1..Len(c)-1 : NextAlong(c)[c[i]] = c[i + 1]
      /\ \A n \in Nodes : (\A i \in 1..Len(c)-1 : c[i] # n) => NextAlong(c)[n] = next[n]
  BY NextAlongAt
<1>4. next'[c[Len(c)]] = None
  <2>1. c[Len(c)] \in Nodes
    BY <1>1
  <2>2. \A i \in 1..Len(c)-1 : c[i] # c[Len(c)]
    <3> TAKE i \in 1..Len(c)-1
    <3>1. i \in 1..len /\ Len(c) \in 1..len /\ i # Len(c)
      BY <1>1
    <3> QED BY <1>2, <3>1
  <2> QED BY <1>3, <2>1, <2>2
<1>5. \A i \in 2..Len(c) : prev'[c[i]] = c[i - 1]
  BY PrevAlongAt
<1>6. c \in Seq(Nodes')
  OBVIOUS
<1> QED BY <1>3, <1>4, <1>5, <1>6 DEF LinkedAlong

\* Links along a rising chain lead forward, as all did before.
LEMMA ForwardAlong ==
  ASSUME NEW c \in Seq(Nodes), c # <<>>, IsInjective(c), DOMAIN next = Nodes, Forward,
         \A i \in 1..Len(c)-1 : Rank(c[i]) < Rank(c[i + 1]),
         Nodes' = Nodes, sentence' = sentence, next' = NextAlong(c)
  PROVE  Forward'
<1>1. size' = size
  BY DEF size
<1>2. \A n : Rank(n)' = Rank(n)
  BY <1>1 DEF Rank, EndOf
<1>3. /\ \A i \in 1..Len(c)-1 : NextAlong(c)[c[i]] = c[i + 1]
      /\ \A n \in Nodes : (\A i \in 1..Len(c)-1 : c[i] # n) => NextAlong(c)[n] = next[n]
  BY NextAlongAt
<1>4. ASSUME NEW n \in Nodes, next'[n] # None PROVE Rank(n) < Rank(next'[n])
  <2>1. CASE \E i \in 1..Len(c)-1 : c[i] = n
    <3>1. PICK i \in 1..Len(c)-1 : c[i] = n
      BY <2>1
    <3>2. next'[n] = c[i + 1]
      BY <1>3, <3>1
    <3> QED BY <3>1, <3>2
  <2>2. CASE \A i \in 1..Len(c)-1 : c[i] # n
    <3>1. next'[n] = next[n]
      BY <1>3, <2>2
    <3> QED BY <1>4, <3>1 DEF Forward
  <2> QED BY <2>1, <2>2
<1> QED BY <1>2, <1>4 DEF Forward

\* The links stay what they are.
LEMMA ChainStays ==
  ASSUME ChainInv, UNCHANGED <<sentence, begin_nodes, end_nodes, cost, prev, next, isbest, results>>,
         Marked' = Marked, Marked => (AllLinked' <=> AllLinked)
  PROVE  ChainInv'
<1>1. /\ size' = size /\ Nodes' = Nodes /\ EOS' = EOS /\ BOS' = BOS
  BY DEF size, Nodes, EOS, BOS
<1>2. AllMorphs' = AllMorphs
  BY <1>1 DEF AllMorphs
<1>3. \A n : Rank(n)' = Rank(n)
  BY <1>1 DEF Rank, EndOf
<1>4. Forward' <=> Forward
  BY <1>1, <1>3 DEF Forward
<1>5. \A c : (LinkedAlong(c)' <=> LinkedAlong(c)) /\ (ReadAs(c)' <=> ReadAs(c))
  BY <1>1 DEF LinkedAlong, ReadAs
<1>6. ~ Marked' => isbest' = {BOSNode} /\ \A n \in Nodes' : next'[n] = None
  BY <1>1 DEF ChainInv
<1> SUFFICES ASSUME Marked'
             PROVE  /\ next'[EOS'] = None
                    /\ IF AllLinked' THEN LinkedAlong(AllMorphs)'
                       ELSE Forward' /\ \E c \in Seq(Nodes)' : LinkedAlong(c)' /\ ReadAs(c)'
  BY <1>6 DEF ChainInv
<1>7. next'[EOS'] = None
  BY <1>1 DEF ChainInv
<1>8. CASE AllLinked
  <2>1. LinkedAlong(AllMorphs)
    BY <1>8 DEF ChainInv
  <2>2. LinkedAlong(AllMorphs)'
    BY <1>1, <1>2, <2>1 DEF LinkedAlong
  <2> QED BY <1>7, <1>8, <2>2
<1>9. CASE ~ AllLinked
  <2>1. Forward
    BY <1>9 DEF ChainInv
  <2>2. PICK c \in Seq(Nodes) : LinkedAlong(c) /\ ReadAs(c)
    BY <1>9 DEF ChainInv
  <2> QED BY <1>1, <1>4, <1>5, <1>7, <1>9, <2>1, <2>2
<1> QED BY <1>8, <1>9

\* connect sets next of what it links to none.
LEMMA ConnectUnlinked ==
  ASSUME NEW p, NEW rnodes, NEW goto, Connect(p, rnodes, goto), ChainInv, LinksInv,
         DOMAIN next' = Nodes', isbest' = isbest, ~ Marked, ~ Marked'
  PROVE  ChainInv'
<1>1. \A n \in Nodes : next[n] = None
  BY DEF ChainInv
<1>2. PICK L : next' = Updated(next, [r \in L |-> None])
  BY DEF Connect
<1>3. PICK new : new = [r \in L |-> None]
  OBVIOUS
<1>4. /\ DOMAIN Updated(next, new) = DOMAIN next \union DOMAIN new
      /\ \A n \in DOMAIN new : Updated(next, new)[n] = new[n]
      /\ \A n \in DOMAIN next \ DOMAIN new : Updated(next, new)[n] = next[n]
  BY UpdatedIs
<1>5. \A n \in DOMAIN new : new[n] = None
  BY <1>3
<1>6. \A n \in DOMAIN next : next[n] = None
  BY <1>1 DEF LinksInv
<1>7. \A n \in Nodes' : next'[n] = None
  BY <1>2, <1>3, <1>4, <1>5, <1>6
<1> QED BY <1>7 DEF ChainInv

\* buildBestLattice links the path it marks.
LEMMA BuildBestLinks ==
  ASSUME IInv, ChainInv, BuildBestLattice, UNCHANGED <<agenda, results>>
  PROVE  ChainInv'
<1> DEFINE back == CHOOSE f : IsBack(f)
<1>1. /\ place = "buildBestLattice" /\ place' = "buildAllLattice"
      /\ UNCHANGED <<sentence, pos, begin_nodes, end_nodes, cost, paths, prev>>
  BY DEF BuildBestLattice, inputVars, listVars
<1>2. isbest' = isbest \union ToSet(back[EOS]) /\ next' = NextAlong(back[EOS])
  BY DEF BuildBestLattice, IsBack
<1>3. IsBack(back)
  <2>1. \E f : IsBack(f)
    BY <1>1, BackExists DEF IInv
  <2> QED BY <2>1
<1> HIDE DEF back
<1>4. /\ \E s \in Chains(LastEnd) :
           /\ back[EOS] = Append(s, EOS) /\ cost[EOS] = CostOf(Append(s, EOS))
      /\ \A i \in 2..Len(back[EOS]) : prev[back[EOS][i]] = back[EOS][i - 1]
  BY <1>1, <1>3, BackChain, BackLinks DEF IInv
<1>5. PICK c : c = back[EOS]
  OBVIOUS
<1>6. Built /\ ~ Read /\ ~ Marked /\ Marked' /\ place # "initPartial"
      /\ \A q \in 0..size-1 : Whole(q)
  BY <1>1 DEF Built, Read, Marked, Whole, GaveUp
<1>7. c \in Segmentations
  <2>1. Segmentations = { Append(s, EOS) : s \in Chains(LastEnd) }
    BY <1>6, SegmentationsIs DEF IInv
  <2> QED BY <1>4, <1>5, <2>1
<1>8. /\ c \in Seq(Nodes) /\ c # <<>> /\ c[1] = BOSNode /\ c[Len(c)] = EOS /\ IsInjective(c)
      /\ \A i \in 1..Len(c)-1 : Rank(c[i]) < Rank(c[i + 1])
  BY <1>6, <1>7, SegmentationRises
<1>9. DOMAIN prev = Nodes /\ DOMAIN next = Nodes
  BY <1>6, LatticeReady DEF IInv, LinksInv
<1>10. isbest = {BOSNode} /\ \A n \in Nodes : next[n] = None
  BY <1>6 DEF ChainInv
<1>11. size' = size /\ Nodes' = Nodes /\ EOS' = EOS /\ EOS \in Nodes
  <2>1. EOS \in Nodes
    BY <1>6, EOSIs DEF IInv
  <2> QED BY <1>1, <2>1 DEF size, Nodes, EOS
<1>12. Forward
  BY <1>10 DEF Forward
<1>13. next' = NextAlong(c) /\ prev' = prev /\ \A i \in 2..Len(c) : prev[c[i]] = c[i - 1]
  BY <1>1, <1>2, <1>4, <1>5
<1>14. LinkedAlong(c)' /\ next'[c[Len(c)]] = None
  <2>1. next[c[Len(c)]] = None
    BY <1>8, <1>10, <1>11
  <2> QED BY <1>8, <1>9, <1>11, <1>13, <2>1, LinksAlong
<1>15. Forward'
  BY <1>1, <1>8, <1>9, <1>11, <1>12, <1>13, ForwardAlong
<1>16. ReadAs(c)'
  <2>1. results' = <<>>
    BY <1>6 DEF IInv, SearchInv
  <2>2. BOSNode \in ToSet(c)
    <3>1. 1 \in DOMAIN c
      BY <1>8
    <3> QED BY <1>8, <3>1 DEF ToSet
  <2>3. isbest' = ToSet(c)
    BY <1>2, <1>5, <1>10, <2>2
  <2> QED BY <2>1, <2>3 DEF ReadAs
<1>17. ~ AllLinked'
  BY <1>1 DEF AllLinked
<1>18. next'[EOS'] = None
  BY <1>8, <1>11, <1>14
<1>19. \E d \in Seq(Nodes)' : LinkedAlong(d)' /\ ReadAs(d)'
  BY <1>8, <1>11, <1>14, <1>16
<1> QED BY <1>6, <1>15, <1>17, <1>18, <1>19 DEF ChainInv

\* The links along every node of the lattice.
LEMMA AllMorphsLinks ==
  ASSUME IInv, ListedOnce, Built, Marked', AllLinked', next[EOS] = None,
         UNCHANGED <<sentence, begin_nodes, end_nodes, cost>>,
         next' = NextAlong(AllMorphs), prev' = PrevAlong(AllMorphs)
  PROVE  ChainInv'
<1>1. PICK c : c = AllMorphs
  OBVIOUS
<1>2. c \in Seq(Nodes) /\ c # <<>> /\ c[1] = BOSNode /\ IsInjective(c) /\ c[Len(c)] = EOS
  BY <1>1, AllMorphsOnce DEF IInv
<1>3. size' = size /\ Nodes' = Nodes /\ EOS' = EOS /\ BOS' = BOS
  BY DEF size, Nodes, EOS, BOS
<1>4. AllMorphs' = c
  BY <1>1, <1>3 DEF AllMorphs
<1>5. DOMAIN prev = Nodes /\ DOMAIN next = Nodes
  BY LatticeReady DEF IInv, LinksInv, Built
<1>6. next' = NextAlong(c) /\ prev' = PrevAlong(c)
  BY <1>1
<1>7. LinkedAlong(c)' /\ next'[c[Len(c)]] = None
  <2>1. next[c[Len(c)]] = None
    BY <1>2
  <2> QED BY <1>2, <1>3, <1>5, <1>6, <2>1, LinksAlong
<1>8. LinkedAlong(AllMorphs)'
  BY <1>4, <1>7 DEF LinkedAlong
<1>9. next'[EOS'] = None
  BY <1>2, <1>3, <1>7
<1> QED BY <1>8, <1>9 DEF ChainInv

\* Find links the answer of next(), or every node again.
LEMMA FindLinks ==
  ASSUME SInv, ListedOnce, ChainInv, Find
  PROVE  ChainInv'
<1>1. IInv /\ FullPaths /\ AgendaInv /\ ResultsInv /\ PendingInv
  BY DEF SInv
<1>2. PICK top \in agenda :
        /\ results' = Append(results, top.chain)
        /\ LET linked == IF "ALL_MORPHS" \in request THEN AllMorphs ELSE top.chain
           IN  next' = NextAlong(linked) /\ prev' = PrevAlong(linked)
  BY DEF Find
<1>3. PICK t \in agenda : results' = Append(results, t.chain) /\ t.chain \in Segmentations
  BY <1>1, FindRanks
<1>4. PICK c : c = top.chain
  OBVIOUS
<1>5. t.chain = c
  <2>1. results \in Seq(Seq(Nodes))
    BY <1>1 DEF IInv, SearchInv
  <2>2. \A a : Append(results, a)[Len(results) + 1] = a
    BY <2>1
  <2> QED BY <1>2, <1>3, <1>4, <2>2
<1>6. /\ place = "searching" /\ place' = "result" /\ Built /\ Marked /\ Marked'
      /\ UNCHANGED <<sentence, request, begin_nodes, end_nodes, cost, isbest>>
  BY DEF Find, searchVars, inputVars, listVars, markVars, Built, Marked
<1>7. next[EOS] = None
  BY <1>6 DEF ChainInv
<1>8. CASE "ALL_MORPHS" \in request
  <2>1. AllLinked'
    BY <1>6, <1>8 DEF AllLinked
  <2>2. next' = NextAlong(AllMorphs) /\ prev' = PrevAlong(AllMorphs)
    BY <1>2, <1>8
  <2> QED BY <1>1, <1>6, <1>7, <2>1, <2>2, AllMorphsLinks
<1>9. CASE "ALL_MORPHS" \notin request
  <2>1. ~ AllLinked /\ ~ AllLinked'
    BY <1>6, <1>9 DEF AllLinked
  <2>2. next' = NextAlong(c) /\ prev' = PrevAlong(c)
    BY <1>2, <1>4, <1>9
  <2>3. /\ c \in Seq(Nodes) /\ c # <<>> /\ c[1] = BOSNode /\ c[Len(c)] = EOS /\ IsInjective(c)
        /\ \A i \in 1..Len(c)-1 : Rank(c[i]) < Rank(c[i + 1])
    <3>1. c \in Segmentations
      BY <1>3, <1>5
    <3> QED BY <1>1, <1>6, <3>1, SegmentationRises
  <2>4. DOMAIN prev = Nodes /\ DOMAIN next = Nodes
    BY <1>1, <1>6, LatticeReady DEF IInv, LinksInv
  <2>5. size' = size /\ Nodes' = Nodes /\ EOS' = EOS
    BY <1>6 DEF size, Nodes, EOS
  <2>6. Forward
    BY <1>6, <2>1 DEF ChainInv
  <2>7. LinkedAlong(c)' /\ next'[c[Len(c)]] = None
    <3>1. next[c[Len(c)]] = None
      BY <1>7, <2>3
    <3> QED BY <2>2, <2>3, <2>4, <2>5, <3>1, LinksAlong
  <2>8. Forward'
    BY <1>6, <2>2, <2>3, <2>4, <2>5, <2>6, ForwardAlong
  <2>9. ReadAs(c)'
    <3>1. results \in Seq(Seq(Nodes))
      BY <1>1 DEF IInv, SearchInv
    <3>2. Append(results, c) # <<>> /\ Append(results, c)[Len(Append(results, c))] = c
      BY <3>1
    <3>3. results' = Append(results, c)
      BY <1>2, <1>4
    <3> QED BY <3>2, <3>3 DEF ReadAs, Last
  <2>10. next'[EOS'] = None
    BY <2>3, <2>5, <2>7
  <2>11. \E d \in Seq(Nodes)' : LinkedAlong(d)' /\ ReadAs(d)'
    BY <2>3, <2>5, <2>7, <2>9
  <2> QED BY <1>6, <2>1, <2>8, <2>10, <2>11 DEF ChainInv
<1> QED BY <1>8, <1>9

\* Every step keeps the links what they should be.
LEMMA StepLinks ==
  ASSUME SInv, IInv', ListedOnce, ChainInv, [Next]_vars
  PROVE  ChainInv'
<1>1. IInv /\ TextInv /\ LatticeInv
  BY DEF SInv, IInv
<1>2. CASE InitPartial \/ SkipPosition \/ ScanPosition \/ LookupStep \/ ForwardBackward
  <2>1. ~ Marked /\ ~ Marked'
    BY <1>2 DEF InitPartial, SkipPosition, ScanPosition, LookupStep, ForwardBackward, Marked,
                Lookup, Stage, SkipSpace, SearchDictionaries, AddBlank, AddGroup,
                AddCounted, EndCounting, AddSingle, AddStretched, AddForced
  <2>2. UNCHANGED <<cost, next, isbest>>
    BY <1>2 DEF InitPartial, SkipPosition, ScanPosition, LookupStep, ForwardBackward, listVars, markVars
  <2>3. Nodes' = Nodes
    BY <2>2 DEF Nodes
  <2> QED BY <2>1, <2>2, <2>3 DEF ChainInv
<1>3. CASE ConnectFound \/ ConnectEOS
  <2>1. /\ ~ Marked /\ ~ Marked' /\ isbest' = isbest /\ place # "initPartial" /\ place' # "initPartial"
    BY <1>3 DEF ConnectFound, ConnectEOS, Connect, Marked, markVars
  <2>0. \E p, rnodes, goto : Connect(p, rnodes, goto)
    <3>1. CASE ConnectFound
      <4>1. Connect(pos, found, "scan")
        BY <3>1 DEF ConnectFound
      <4> QED BY <4>1, Zenon
    <3>2. CASE ConnectEOS
      <4>1. Connect(Max({ p \in 0..size : end_nodes[p] # <<>> }), <<EOSNode(size)>>, "forwardbackward")
        BY <3>2 DEF ConnectEOS
      <4> QED BY <4>1, Zenon
    <3> QED BY <1>3, <3>1, <3>2
  <2>2. LinksInv /\ DOMAIN next' = Nodes'
    BY <1>1, <2>1 DEF LatticeInv, LinksInv, IInv
  <2> QED BY <2>0, <2>1, <2>2, ConnectUnlinked
<1>4. CASE BuildBestLattice /\ UNCHANGED <<agenda, results>>
  BY <1>1, <1>4, BuildBestLinks
<1>5. CASE BuildAllLattice /\ UNCHANGED <<agenda, results>>
  <2>1. /\ place = "buildAllLattice" /\ place' = "initNBest" /\ Built /\ Marked /\ Marked'
        /\ UNCHANGED <<sentence, request, begin_nodes, end_nodes, cost, isbest>>
    BY <1>5 DEF BuildAllLattice, inputVars, listVars, markVars, Built, Marked
  <2>2. next[EOS] = None
    BY <2>1 DEF ChainInv
  <2>3. CASE "ALL_MORPHS" \in request
    <3>1. AllLinked' /\ next' = NextAlong(AllMorphs) /\ prev' = PrevAlong(AllMorphs)
      BY <1>5, <2>1, <2>3 DEF BuildAllLattice, AllLinked
    <3> QED BY <1>1, <2>1, <2>2, <3>1, AllMorphsLinks
  <2>4. CASE "ALL_MORPHS" \notin request
    <3>1. ~ AllLinked' /\ ~ AllLinked /\ next' = next /\ prev' = prev
      BY <1>5, <2>1, <2>4 DEF BuildAllLattice, AllLinked
    <3> QED BY <1>5, <2>1, <3>1, ChainStays
  <2> QED BY <2>3, <2>4
<1>6. CASE InitNBest \/ CallNext \/ Expand \/ Exhaust
  <2>1. /\ Marked /\ Marked' /\ (AllLinked' <=> AllLinked)
        /\ UNCHANGED <<sentence, begin_nodes, end_nodes, cost, prev, next, isbest, results>>
    BY <1>6 DEF InitNBest, CallNext, Expand, Exhaust, searchVars, inputVars, listVars, markVars, Marked,
                AllLinked
  <2> QED BY <2>1, ChainStays
<1>7. CASE Find
  BY <1>7, FindLinks
<1>8. CASE UNCHANGED vars
  <2>1. UNCHANGED <<sentence, request, place, begin_nodes, end_nodes, cost, prev, next, isbest, results>>
    BY <1>8 DEF vars, latticeVars, inputVars, listVars, markVars
  <2> QED BY <2>1, ChainStays DEF Marked, AllLinked
<1> QED BY <1>2, <1>3, <1>4, <1>5, <1>6, <1>7, <1>8 DEF Next, Analyze, AnalyzeStep, Search

\* what ResultList follows next with
IsFrom(f) == f = [n \in Nodes |-> IF next[n] = None THEN <<n>> ELSE <<n>> \o f[next[n]]]

\* If next brings every node nearer to an end, the recursive function that
\* follows it is defined.
LEMMA FromExists ==
  ASSUME NEW K \in Nat, NEW h \in [Nodes -> 0..K],
         \A n \in Nodes : next[n] # None => next[n] \in Nodes /\ h[next[n]] < h[n]
  PROVE  \E f : IsFrom(f)
<1> DEFINE Near(k) == { n \in Nodes : h[n] \in 0..k }
           Follows(f, k) ==
             \A n \in Near(k) : f[n] = IF next[n] = None THEN <<n>> ELSE <<n>> \o f[next[n]]
           Good == { k \in Nat : \E f : Follows(f, k) }
<1>1. 0 \in Good
  <2>1. \A n \in Near(0) : next[n] = None
    <3> SUFFICES ASSUME NEW n \in Near(0), next[n] # None PROVE FALSE
      OBVIOUS
    <3>1. h[next[n]] \in 0..K /\ h[next[n]] < h[n] /\ h[n] = 0
      OBVIOUS
    <3> QED BY <3>1
  <2>2. \A n \in Near(0) : [m \in Near(0) |-> <<m>>][n] = <<n>>
    OBVIOUS
  <2>3. Follows([n \in Near(0) |-> <<n>>], 0)
    BY <2>1, <2>2
  <2> QED BY <2>3
<1>2. ASSUME NEW k \in Nat, k \in Good PROVE k + 1 \in Good
  <2>1. PICK f : Follows(f, k)
    BY <1>2
  <2> DEFINE g == [n \in Nodes |-> IF n \in Near(k) THEN f[n]
                                   ELSE IF next[n] = None THEN <<n>> ELSE <<n>> \o f[next[n]]]
  <2>2. \A n \in Near(k) : g[n] = f[n]
    OBVIOUS
  <2>3. \A n \in Nodes \ Near(k) : g[n] = IF next[n] = None THEN <<n>> ELSE <<n>> \o f[next[n]]
    OBVIOUS
  <2> HIDE DEF g
  <2>4. ASSUME NEW n \in Near(k + 1)
        PROVE  g[n] = IF next[n] = None THEN <<n>> ELSE <<n>> \o g[next[n]]
    <3>1. next[n] # None => next[n] \in Near(k)
      <4> SUFFICES ASSUME next[n] # None PROVE next[n] \in Near(k)
        OBVIOUS
      <4>1. n \in Nodes /\ next[n] \in Nodes /\ h[next[n]] < h[n] /\ h[n] \in 0..k+1
        OBVIOUS
      <4>2. h[next[n]] \in 0..K
        BY <4>1
      <4>3. h[next[n]] \in 0..k
        BY <4>1, <4>2
      <4> QED BY <4>1, <4>3
    <3>2. next[n] # None => g[next[n]] = f[next[n]]
      BY <2>2, <3>1
    <3>3. g[n] = IF next[n] = None THEN <<n>> ELSE <<n>> \o f[next[n]]
      <4>1. CASE n \in Near(k)
        BY <2>1, <2>2, <4>1
      <4>2. CASE n \notin Near(k)
        <5>1. n \in Nodes \ Near(k)
          BY <4>2
        <5> HIDE DEF Near
        <5> QED BY <2>3, <5>1
      <4> QED BY <4>1, <4>2
    <3> HIDE DEF Near
    <3> QED BY <3>2, <3>3
  <2>5. Follows(g, k + 1)
    BY <2>4
  <2> HIDE DEF Follows
  <2> QED BY <2>5
<1> HIDE DEF Good
<1>3. K \in Good
  BY <1>1, <1>2, NatSetInduction
<1>4. PICK f : Follows(f, K)
  BY <1>3 DEF Good
<1> DEFINE g == [n \in Nodes |-> f[n]]
<1>5. \A n \in Nodes : f[n] = IF next[n] = None THEN <<n>> ELSE <<n>> \o f[next[n]]
  BY <1>4
<1> HIDE DEF Follows
<1>6. IsFrom(g)
  BY <1>5 DEF IsFrom
<1> QED BY <1>6

\* Following next along a chain reads the chain.
LEMMA FromFollows ==
  ASSUME NEW f, IsFrom(f), None \notin Nodes, NEW c, LinkedAlong(c)
  PROVE  f[BOSNode] = c
<1>1. PICK len \in Nat : len = Len(c) /\ len # 0
  BY DEF LinkedAlong
<1>2. /\ c \in Seq(Nodes) /\ c[1] = BOSNode /\ next[c[len]] = None
      /\ \A i \in 1..len-1 : next[c[i]] = c[i + 1]
  BY <1>1 DEF LinkedAlong
<1>3. \A n \in Nodes : f[n] = IF next[n] = None THEN <<n>> ELSE <<n>> \o f[next[n]]
  BY DEF IsFrom
<1> DEFINE Good == { k \in Nat : k < len => f[c[len - k]] = SubSeq(c, len - k, len) }
<1>4. 0 \in Good
  <2>1. len \in 1..Len(c) /\ len - 0 = len
    BY <1>1
  <2>2. c[len] \in Nodes
    BY <1>2, <2>1
  <2>3. f[c[len]] = <<c[len]>>
    BY <1>2, <1>3, <2>2
  <2>4. SubSeq(c, len, len) = <<c[len]>>
    <3>1. PICK s : s = SubSeq(c, len, len)
      OBVIOUS
    <3>2. s \in Seq(Nodes) /\ Len(s) = 1 /\ s[1] = c[len]
      BY <1>1, <1>2, <2>1, <3>1
    <3>3. PICK x \in Nodes : x = c[len]
      BY <2>2
    <3>4. \A u \in Seq(Nodes) : Len(u) = 1 /\ u[1] = x => u = <<x>>
      OBVIOUS
    <3> QED BY <3>1, <3>2, <3>3, <3>4, Zenon
  <2> QED BY <2>1, <2>3, <2>4
<1>5. ASSUME NEW k \in Nat, k \in Good PROVE k + 1 \in Good
  <2>0. ASSUME k + 1 < len => f[c[len - (k + 1)]] = SubSeq(c, len - (k + 1), len)
        PROVE  k + 1 \in Good
    <3>1. k + 1 \in Nat
      OBVIOUS
    <3> QED BY <2>0, <3>1, Zenon
  <2> SUFFICES ASSUME k + 1 < len PROVE f[c[len - (k + 1)]] = SubSeq(c, len - (k + 1), len)
    BY <2>0, Zenon
  <2>1. PICK j \in 1..len-1 : j = len - (k + 1) /\ j + 1 = len - k /\ j \in 1..Len(c)
        /\ j + 1 \in 1..Len(c)
    BY <1>1
  <2>2. f[c[j + 1]] = SubSeq(c, j + 1, len)
    BY <1>5, <2>1
  <2>3. c[j] \in Nodes /\ c[j + 1] \in Nodes
    BY <1>2, <2>1
  <2>4. next[c[j]] = c[j + 1] /\ next[c[j]] # None
    BY <1>2, <2>3
  <2>5. f[c[j]] = <<c[j]>> \o SubSeq(c, j + 1, len)
    BY <1>3, <2>2, <2>3, <2>4
  <2>6. <<c[j]>> \o SubSeq(c, j + 1, len) = SubSeq(c, j, len)
    BY <1>1, <1>2, <2>1
  <2> QED BY <2>1, <2>5, <2>6
<1> HIDE DEF Good
<1>6. len - 1 \in Good /\ len - 1 < len /\ len - (len - 1) = 1
  <2>1. len - 1 \in Nat
    BY <1>1
  <2> QED BY <1>4, <1>5, <2>1, NatSetInduction
<1>7. f[c[1]] = SubSeq(c, 1, len)
  BY <1>6 DEF Good
<1>8. SubSeq(c, 1, len) = c
  BY <1>1, <1>2
<1> QED BY <1>2, <1>7, <1>8

\* A sequence without repetition is as long as its elements are many.
LEMMA LengthIsCardinality ==
  ASSUME NEW X, NEW s \in Seq(X), IsInjective(s)
  PROVE  Len(s) = Cardinality(ToSet(s))
<1>1. Len(s) \in Nat /\ DOMAIN s = 1..Len(s) /\ s \in [1..Len(s) -> X]
  OBVIOUS
<1>2. ToSet(s) = { s[i] : i \in 1..Len(s) }
  BY <1>1 DEF ToSet
<1>3. s \in [1..Len(s) -> ToSet(s)]
  BY <1>1, <1>2
<1>4. \A x \in ToSet(s) : \E i \in 1..Len(s) : s[i] = x
  BY <1>2
<1>5. s \in Bijection(1..Len(s), ToSet(s))
  BY <1>3, <1>4 DEF Bijection, Injection, Surjection
<1>6. ExistsBijection(1..Len(s), ToSet(s))
  BY <1>5 DEF ExistsBijection
<1>7. PICK n \in Nat : n = Len(s) /\ ExistsBijection(1..n, ToSet(s))
  BY <1>1, <1>6
<1> HIDE DEF ExistsBijection
<1>8. Cardinality(ToSet(s)) = n
  BY <1>7, FS_CountingElements
<1> QED BY <1>7, <1>8

\* The ranks of the nodes.
LEMMA RanksAre ==
  ASSUME TextInv, LatticeInv, Built, NEW n \in Nodes
  PROVE  size \in Nat /\ Rank(n) \in 0..size+2
<1>0. place # "initPartial"
  BY DEF Built
<1>1. size \in Nat /\ CostsInv
  BY <1>0, LatticeReady
<1>2. CASE n = BOSNode
  <2>1. Rank(n) = 0
    BY <1>1, <1>2, EndNodes DEF Rank
  <2> QED BY <1>1, <2>1
<1>3. CASE n # BOSNode
  <2>1. PICK l : Linked(n, l)
    BY <1>1, <1>3 DEF CostsInv
  <2>2. l \in LeftOf(n)
    BY <2>1 DEF Linked
  <2>3. Rank(n) \in 1..size+2
    BY <1>3, <2>2, LeftRanksLower
  <2> QED BY <1>1, <2>3
<1> QED BY <1>2, <1>3

\* What next leads along from BOS is the chain linked.
LEMMA ResultListIs ==
  ASSUME IInv, Built, NEW c, LinkedAlong(c),
         \/ Forward
         \/ IsInjective(c) /\ ToSet(c) = Nodes
  PROVE  ResultList = c
<1>1. TextInv /\ LatticeInv /\ LinksInv
  BY LatticeReady DEF IInv, Built
<1>2. None \notin Nodes
  <2>1. size \in Nat /\ ListsInv /\ NodesInv
    BY LatticeReady DEF IInv, Built
  <2>2. \A n \in Nodes : n \in NodeRecords
    BY <2>1, NodesAre
  <2> QED BY <2>2, NullAssumption
<1>3. \A n \in Nodes : next[n] # None => next[n] \in Nodes
  BY <1>1 DEF LinksInv
<1>4. \E f : IsFrom(f)
  <2>1. CASE Forward
    <3> DEFINE h == [n \in Nodes |-> size + 2 - Rank(n)]
    <3>1. size \in Nat /\ \A n \in Nodes : Rank(n) \in 0..size+2
      <4>1. BOSNode \in Nodes
        BY <1>1, LatticeReady DEF Built, NodesInv
      <4> QED BY <1>1, <4>1, RanksAre
    <3>2. size + 2 \in Nat /\ h \in [Nodes -> 0..size+2]
      BY <3>1
    <3>3. \A n \in Nodes : next[n] # None => next[n] \in Nodes /\ h[next[n]] < h[n]
      <4> SUFFICES ASSUME NEW n \in Nodes, next[n] # None PROVE next[n] \in Nodes /\ h[next[n]] < h[n]
        OBVIOUS
      <4>1. PICK m \in Nodes : m = next[n]
        BY <1>3
      <4>2. Rank(n) < Rank(m)
        BY <2>1, <4>1 DEF Forward
      <4>3. Rank(n) \in 0..size+2 /\ Rank(m) \in 0..size+2
        BY <3>1
      <4> QED BY <3>1, <4>1, <4>2, <4>3
    <3> HIDE DEF h
    <3> QED BY <3>2, <3>3, FromExists
  <2>2. CASE IsInjective(c) /\ ToSet(c) = Nodes
    <3>0. /\ c \in Seq(Nodes) /\ c # <<>> /\ next[c[Len(c)]] = None
          /\ \A i \in 1..Len(c)-1 : next[c[i]] = c[i + 1]
      BY DEF LinkedAlong
    <3>1. PICK len \in Nat : len = Len(c) /\ len # 0
      BY <3>0
    <3> DEFINE h == [n \in Nodes |-> len - IndexIn(c, n)]
    <3>2. \A n \in Nodes : \E i \in 1..len : n = c[i] /\ IndexIn(c, n) = i
      <4> TAKE n \in Nodes
      <4>1. PICK i \in 1..Len(c) : n = c[i]
        <5>1. DOMAIN c = 1..Len(c)
          BY <3>0
        <5> QED BY <2>2, <5>1 DEF ToSet
      <4>2. IndexIn(c, c[i]) = i
        BY <2>2, <3>0, IndexAt
      <4> QED BY <3>1, <4>1, <4>2
    <3>3. h \in [Nodes -> 0..len]
      <4>1. \A n \in Nodes : len - IndexIn(c, n) \in 0..len
        BY <3>1, <3>2
      <4> QED BY <4>1
    <3>4. \A n \in Nodes : next[n] # None => next[n] \in Nodes /\ h[next[n]] < h[n]
      <4> SUFFICES ASSUME NEW n \in Nodes, next[n] # None PROVE next[n] \in Nodes /\ h[next[n]] < h[n]
        OBVIOUS
      <4>1. PICK i \in 1..len : n = c[i] /\ IndexIn(c, n) = i
        BY <3>2
      <4>2. i # len
        BY <3>0, <3>1, <4>1
      <4>3. i \in 1..Len(c)-1 /\ i + 1 \in 1..Len(c)
        BY <3>1, <4>2
      <4>4. next[n] = c[i + 1] /\ next[n] \in Nodes
        BY <3>0, <4>1, <4>3
      <4>5. IndexIn(c, c[i + 1]) = i + 1
        BY <2>2, <3>0, <4>3, IndexAt
      <4>6. h[next[n]] = len - (i + 1) /\ h[n] = len - i
        BY <4>1, <4>4, <4>5
      <4> QED BY <3>1, <4>4, <4>6
    <3> HIDE DEF h
    <3> QED BY <3>1, <3>3, <3>4, FromExists
  <2> QED BY <2>1, <2>2
<1> DEFINE from == CHOOSE f : IsFrom(f)
<1>5. ResultList = from[BOS]
  BY DEF ResultList, IsFrom
<1>6. IsFrom(from)
  BY <1>4
<1> HIDE DEF from
<1>7. BOS = BOSNode
  BY <1>1, EOSIs
<1>8. from[BOSNode] = c
  BY <1>2, <1>6, FromFollows
<1> QED BY <1>5, <1>7, <1>8

\* LinksAreResult follows from the invariants.
LEMMA LinksReadTheResult ==
  ASSUME IInv, ListedOnce, ChainInv
  PROVE  LinksAreResult
<1> SUFFICES ASSUME Shown
             PROVE  /\ IF "ALL_MORPHS" \in request
                       THEN Len(ResultList) = Cardinality(Nodes) /\ ToSet(ResultList) = Nodes
                       ELSE IF results = <<>> THEN ToSet(ResultList) = isbest
                       ELSE ResultList = Last(results)
                    /\ \A i \in 2..Len(ResultList) : prev[ResultList[i]] = ResultList[i - 1]
  BY DEF LinksAreResult
<1>1. Built /\ Marked /\ (AllLinked <=> "ALL_MORPHS" \in request)
  BY DEF Shown, Built, Marked, AllLinked
<1>2. CASE "ALL_MORPHS" \in request
  <2>1. PICK c : c = AllMorphs
    OBVIOUS
  <2>2. LinkedAlong(c)
    BY <1>1, <1>2, <2>1 DEF ChainInv
  <2>3. c \in Seq(Nodes) /\ IsInjective(c) /\ ToSet(c) = Nodes
    BY <1>1, <2>1, AllMorphsOnce DEF IInv
  <2>4. ResultList = c
    BY <1>1, <2>2, <2>3, ResultListIs
  <2>5. Len(c) = Cardinality(Nodes)
    BY <2>3, LengthIsCardinality
  <2> QED BY <1>2, <2>2, <2>3, <2>4, <2>5 DEF LinkedAlong
<1>3. CASE "ALL_MORPHS" \notin request
  <2>1. Forward
    BY <1>1, <1>3 DEF ChainInv
  <2>2. PICK c : LinkedAlong(c) /\ ReadAs(c)
    BY <1>1, <1>3 DEF ChainInv
  <2>3. ResultList = c
    BY <1>1, <2>1, <2>2, ResultListIs
  <2> QED BY <1>3, <2>2, <2>3 DEF LinkedAlong, ReadAs
<1> QED BY <1>2, <1>3

\* the invariant of the links
LInv == SInv /\ FoundOnce /\ ListedOnce /\ ChainInv

\* It holds to begin with, when nothing is found, listed or linked.
LEMMA InitLinks == ASSUME Init PROVE LInv
<1>1. /\ place = "initPartial" /\ isbest = {BOSNode}
      /\ cost = [n \in {BOSNode} |-> 0] /\ next = [n \in {BOSNode} |-> None]
  BY DEF Init, InitLattice
<1>2. FoundOnce /\ ListedOnce
  BY <1>1 DEF FoundOnce, ListedOnce, LookingUp
<1>3. Nodes = {BOSNode}
  BY <1>1 DEF Nodes
<1>4. ChainInv
  BY <1>1, <1>3 DEF ChainInv, Marked
<1> QED BY <1>2, <1>4, InitSearches DEF LInv

\* Every step keeps it.
LEMMA StepKeepsLinks ==
  ASSUME TokensDiffer, LInv, IInv', [Next]_vars PROVE LInv'
<1>1. SInv /\ FoundOnce /\ ListedOnce /\ ChainInv /\ IInv
  BY DEF LInv, SInv
<1>2. SInv'
  BY <1>1, StepKeepsSearch
<1>3. FoundOnce' /\ ListedOnce'
  BY <1>1, StepOnce
<1>4. ChainInv'
  BY <1>1, StepLinks
<1> QED BY <1>2, <1>3, <1>4 DEF LInv

(* buildBestLattice, buildAllLattice (viterbi.cpp 171-195, 226-237) and    *)
(* NBestGenerator::next (nbest_generator.cpp 25-38), for every text and    *)
(* dictionary whose tokens differ: what a caller reads along next after    *)
(* parse or next() is the result, the path marked best, the answer just    *)
(* given or under ALL_MORPHS every node once, and prev leads back along    *)
(* it; nothing that an earlier answer linked shows in a later one.         *)
THEOREM LinksAreTheResult ==
  ASSUME TokensDiffer PROVE Spec => []LinksAreResult
<1>1. Init => LInv
  BY InitLinks
<1>2. LInv /\ IInv' /\ [Next]_vars => LInv'
  BY StepKeepsLinks
<1>3. LInv => LinksAreResult
  BY LinksReadTheResult DEF LInv, SInv
<1> QED BY <1>1, <1>2, <1>3, InvariantHolds, PTL DEF Spec
=============================================================================
