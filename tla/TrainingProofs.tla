--------------------------- MODULE TrainingProofs ---------------------------
(***************************************************************************)
(* The trainer, for any corpus, any old model and any number of threads:   *)
(* what the threads compute is what one thread would, whatever their       *)
(* order, and after shrink the dictionary, the vectors and the counts      *)
(* speak of the same features.                                             *)
(***************************************************************************)
EXTENDS Training, FiniteSetTheorems, WellFoundedInduction, TLAPS

-----------------------------------------------------------------------------
(* Numbers and finite sets *)

LEMMA LeastExists ==
  ASSUME NEW T \in SUBSET Nat, T # {}
  PROVE  \E m \in T : \A k \in T : m <= k
<1>1. PICK m \in T : \A k \in T : <<k, m>> \notin OpToRel(<, Nat)
  BY NatLessThanWellFounded, WFMin, Zenon
<1>2. \A k \in T : ~ (k < m)
  BY <1>1, Zenon DEF OpToRel
<1> QED BY <1>2, SMT

\* what holds for 0 and, of every number, for the next, holds for all
LEMMA NatSetInduction ==
  ASSUME NEW S, 0 \in S, \A n \in Nat : n \in S => n + 1 \in S
  PROVE  Nat \subseteq S
<1> SUFFICES ASSUME Nat \ S # {} PROVE FALSE
  OBVIOUS
<1>1. PICK m \in Nat \ S : \A k \in Nat \ S : m <= k
  BY LeastExists
<1>2. m # 0 /\ m - 1 \in Nat /\ m - 1 \notin Nat \ S
  BY <1>1, SMT
<1>3. m \in S
  BY <1>2, SMT
<1> QED BY <1>1, <1>3

LEMMA GreatestExists ==
  ASSUME NEW n \in Nat, NEW T \in SUBSET (0 .. n), T # {}
  PROVE  \E m \in T : \A k \in T : k <= m
<1> DEFINE U == { n - t : t \in T }
<1>1. U \in SUBSET Nat /\ U # {}
  <2>1. \A t \in T : n - t \in Nat
    BY SMT
  <2> QED BY <2>1
<1>2. PICK u \in U : \A k \in U : u <= k
  BY <1>1, LeastExists, Zenon
<1>3. PICK m \in T : u = n - m
  BY <1>2
<1>4. \A k \in T : n - m <= n - k
  BY <1>2, <1>3
<1> QED BY <1>4, SMT

\* a family of subsets with the empty one that grows by one member at a time
\* has the whole set
LEMMA SubsetInduction ==
  ASSUME NEW T, IsFiniteSet(T), NEW G, {} \in G,
         \A S \in SUBSET T : \A y \in T \ S : S \in G => S \union {y} \in G
  PROVE  T \in G
<1> DEFINE Good == { n \in Nat : \A S \in SUBSET T : Cardinality(S) = n => S \in G }
<1>1. \A S \in SUBSET T : IsFiniteSet(S) /\ Cardinality(S) \in Nat
  BY FS_Subset, FS_CardinalityType
<1>2. 0 \in Good
  <2>1. ASSUME NEW S \in SUBSET T, Cardinality(S) = 0 PROVE S \in G
    <3>1. S = {}
      BY <1>1, <2>1, FS_EmptySet
    <3> QED BY <3>1
  <2> QED BY <2>1
<1>3. ASSUME NEW n \in Nat, n \in Good PROVE n + 1 \in Good
  <2>1. ASSUME NEW S \in SUBSET T, Cardinality(S) = n + 1 PROVE S \in G
    <3>1. S # {}
      <4>1. Cardinality({}) = 0 /\ n + 1 # 0
        BY FS_EmptySet, SMT
      <4> QED BY <2>1, <4>1
    <3>2. PICK y \in S : TRUE
      BY <3>1
    <3>3. PICK R : R = S \ {y}
      OBVIOUS
    <3>4. Cardinality(R) = n /\ R \in SUBSET T /\ y \in T \ R /\ S = R \union {y}
      <4>1. Cardinality(R) = Cardinality(S) - 1
        BY <1>1, <3>2, <3>3, FS_RemoveElement
      <4>2. Cardinality(R) = n
        BY <2>1, <4>1, SMT
      <4> QED BY <3>2, <3>3, <4>2
    <3>5. R \in G
      BY <1>3, <3>4
    <3> QED BY <3>4, <3>5
  <2> QED BY <2>1
<1>4. Nat \subseteq Good
  <2> HIDE DEF Good
  <2> QED BY <1>2, <1>3, NatSetInduction
<1>5. Cardinality(T) \in Good
  BY <1>1, <1>4
<1> QED BY <1>5

-----------------------------------------------------------------------------
(* Folds.  Sums, and the loops over the paths of a sentence, the names of  *)
(* a key and the numbers of a vector, are folds over finite sets: functions*)
(* defined by recursion over the subsets, by taking away one member.  What *)
(* each does with a member is its kind, so that one lemma says that such a *)
(* function exists.                                                        *)

\* what a fold does with the member n of its set and the value so far
FoldStep(kind, arg, n, v) ==
  CASE kind = "sum" -> arg[n] + v
    [] kind = "number" -> Number(v, arg[n])
    [] kind = "build" -> BuildFeature(v, arg[n])
    [] kind = "vector" -> IF arg.vector[n] \in arg.kept THEN Append(v, Renumbered(arg.kept, arg.vector[n])) ELSE v
    [] kind = "names" -> IF arg.names[n] \in arg.kept THEN Append(v, arg.dic[arg.names[n]]) ELSE v

FoldPick(kind, s) == IF kind = "sum" THEN CHOOSE n \in s : TRUE ELSE Max(s)

IsFold(kind, base, arg, T, iter) ==
  iter = [s \in SUBSET T |->
            IF s = {} THEN base
            ELSE FoldStep(kind, arg, FoldPick(kind, s), iter[s \ {FoldPick(kind, s)}])]

\* the same for sets of at most n members
SmallSets(T, n) == { s \in SUBSET T : Cardinality(s) <= n }

IsSmallFold(kind, base, arg, T, n, iter) ==
  iter = [s \in SmallSets(T, n) |->
            IF s = {} THEN base
            ELSE FoldStep(kind, arg, FoldPick(kind, s), iter[s \ {FoldPick(kind, s)}])]

(* A fold over a finite set is defined, whatever it does with the elements. *)
LEMMA FoldDefined ==
  ASSUME NEW kind, NEW base, NEW arg, NEW T, IsFiniteSet(T),
         \A s \in SUBSET T : s # {} => FoldPick(kind, s) \in s
  PROVE  \E iter : IsFold(kind, base, arg, T, iter)
<1> DEFINE Good == { n \in Nat : \E iter : IsSmallFold(kind, base, arg, T, n, iter) }
<1>1. \A s \in SUBSET T : IsFiniteSet(s) /\ Cardinality(s) \in Nat /\ Cardinality(s) <= Cardinality(T)
  BY FS_Subset, FS_CardinalityType
<1>2. 0 \in Good
  <2>1. \A s \in SmallSets(T, 0) : s = {}
    BY <1>1, FS_EmptySet DEF SmallSets
  <2>2. IsSmallFold(kind, base, arg, T, 0, [s \in SmallSets(T, 0) |-> base])
    BY <2>1 DEF IsSmallFold
  <2>3. QED  BY <2>2
<1>3. ASSUME NEW n \in Nat, n \in Good PROVE n + 1 \in Good
  <2>1. PICK g : IsSmallFold(kind, base, arg, T, n, g)
    BY <1>3
  <2> DEFINE value(s) == IF s = {} THEN base
                         ELSE FoldStep(kind, arg, FoldPick(kind, s), g[s \ {FoldPick(kind, s)}])
             h == [s \in SmallSets(T, n + 1) |-> value(s)]
  <2>2. ASSUME NEW s \in SmallSets(T, n + 1), s # {}
        PROVE  s \ {FoldPick(kind, s)} \in SmallSets(T, n)
    <3>1. s \in SUBSET T /\ Cardinality(s) <= n + 1 /\ FoldPick(kind, s) \in s
      BY <2>2 DEF SmallSets
    <3>2. Cardinality(s \ {FoldPick(kind, s)}) = Cardinality(s) - 1
      BY <1>1, <3>1, FS_RemoveElement
    <3>3. Cardinality(s) \in Nat
      BY <1>1, <3>1
    <3>4. QED  BY <3>1, <3>2, <3>3 DEF SmallSets
  <2>3. ASSUME NEW s \in SmallSets(T, n) PROVE s \in SmallSets(T, n + 1) /\ g[s] = value(s)
    <3>1. s \in SmallSets(T, n + 1)
      BY <1>1 DEF SmallSets
    <3>2. QED  BY <2>1, <3>1 DEF IsSmallFold
  <2>4. \A s \in SmallSets(T, n) : h[s] = g[s]
    BY <2>3
  <2>5. \A s \in SmallSets(T, n + 1) :
          h[s] = IF s = {} THEN base
                 ELSE FoldStep(kind, arg, FoldPick(kind, s), h[s \ {FoldPick(kind, s)}])
    BY <2>2, <2>4
  <2>6. h = [s \in SmallSets(T, n + 1) |-> h[s]]
    OBVIOUS
  <2> HIDE DEF h
  <2>7. IsSmallFold(kind, base, arg, T, n + 1, h)
    BY <2>5, <2>6 DEF IsSmallFold
  <2>8. QED  BY <2>7
<1>4. Cardinality(T) \in Good
  <2> HIDE DEF Good
  <2>1. Nat \subseteq Good
    BY <1>2, <1>3, NatSetInduction
  <2>2. QED  BY <2>1, FS_CardinalityType
<1>5. SmallSets(T, Cardinality(T)) = SUBSET T
  BY <1>1 DEF SmallSets
<1>6. PICK iter : IsSmallFold(kind, base, arg, T, Cardinality(T), iter)
  BY <1>4
<1>7. IsFold(kind, base, arg, T, iter)
  BY <1>5, <1>6 DEF IsSmallFold, IsFold
<1>8. QED  BY <1>7

LEMMA IntervalPick ==
  ASSUME NEW kind, kind # "sum", NEW n \in Nat, NEW s \in SUBSET (1..n), s # {}
  PROVE  FoldPick(kind, s) \in s /\ \A e \in s : e <= FoldPick(kind, s)
<1>1. \E m \in s : \A e \in s : m >= e
  <2>1. s \in SUBSET (0..n)
    OBVIOUS
  <2>2. PICK m \in s : \A e \in s : e <= m
    BY <2>1, GreatestExists
  <2>3. \A e \in s : m >= e
    BY <2>2
  <2>4. QED  BY <2>3
<1>2. Max(s) \in s /\ \A e \in s : Max(s) >= e
  <2>1. Max(s) = CHOOSE m \in s : \A e \in s : m >= e
    BY DEF Max
  <2>2. QED  BY <1>1, <2>1
<1>3. FoldPick(kind, s) = Max(s)
  BY DEF FoldPick
<1>4. QED  BY <1>2, <1>3

(* A fold over a sequence goes through it from left to right. *)
LEMMA FoldRuns ==
  ASSUME NEW kind, kind # "sum", NEW base, NEW arg, NEW n \in Nat, NEW iter,
         IsFold(kind, base, arg, 1..n, iter)
  PROVE  \E run : /\ DOMAIN run = 0..n /\ run[0] = base /\ run[n] = iter[1..n]
                  /\ \A k \in 1..n : run[k] = FoldStep(kind, arg, k, run[k - 1])
<1> DEFINE run == [k \in 0..n |-> iter[1..k]]
<1>1. run[0] = base
  BY DEF IsFold
<1>2. ASSUME NEW k \in 1..n
      PROVE  run[k] = FoldStep(kind, arg, k, run[k - 1])
  <2>1. 1..k \in SUBSET (1..n) /\ 1..k # {}
    OBVIOUS
  <2>2. FoldPick(kind, 1..k) = k
    <3>1. FoldPick(kind, 1..k) \in 1..k /\ \A e \in 1..k : e <= FoldPick(kind, 1..k)
      BY <2>1, IntervalPick
    <3>2. QED  BY <3>1
  <2>3. (1..k) \ {k} = 1..k - 1
    OBVIOUS
  <2>4. iter[1..k] = FoldStep(kind, arg, k, iter[1..k - 1])
    BY <2>1, <2>2, <2>3 DEF IsFold
  <2>5. run[k] = iter[1..k] /\ run[k - 1] = iter[1..k - 1]
    OBVIOUS
  <2>6. QED  BY <2>4, <2>5
<1>3. run[n] = iter[1..n] /\ DOMAIN run = 0..n
  OBVIOUS
<1>4. QED  BY <1>1, <1>2, <1>3

LEMMA SequenceFold ==
  ASSUME NEW kind, kind # "sum", NEW base, NEW arg, NEW n \in Nat
  PROVE  \E iter : IsFold(kind, base, arg, 1..n, iter)
<1>1. IsFiniteSet(1..n)
  BY FS_Interval
<1>2. \A s \in SUBSET (1..n) : s # {} => FoldPick(kind, s) \in s
  BY IntervalPick
<1>3. QED  BY <1>1, <1>2, FoldDefined

AllNumbered(ind, names) == FoldLeft(Number, ind, names)

LEMMA NumberRuns ==
  ASSUME NEW base, NEW X, NEW seq \in Seq(X)
  PROVE  \E run : /\ DOMAIN run = 0..Len(seq) /\ run[0] = base
                  /\ run[Len(seq)] = AllNumbered(base, seq)
                  /\ \A k \in 1..Len(seq) : run[k] = Number(run[k - 1], seq[k])
<1> DEFINE iter == CHOOSE i : IsFold("number", base, seq, DOMAIN seq, i)
<1>1. DOMAIN seq = 1..Len(seq) /\ Len(seq) \in Nat
  OBVIOUS
<1>2. IsFold("number", base, seq, 1..Len(seq), iter)
  BY <1>1, SequenceFold
<1>3. AllNumbered(base, seq) = iter[DOMAIN seq]
  BY DEF AllNumbered, FoldLeft, MapThenFoldSet, IsFold, FoldStep, FoldPick
<1> HIDE DEF iter
<1>4. \A e, v : FoldStep("number", seq, e, v) = Number(v, seq[e])
  BY DEF FoldStep
<1>5. PICK run : /\ DOMAIN run = 0..Len(seq) /\ run[0] = base /\ run[Len(seq)] = iter[1..Len(seq)]
                 /\ \A k \in 1..Len(seq) : run[k] = FoldStep("number", seq, k, run[k - 1])
  BY <1>1, <1>2, FoldRuns
<1>6. \A k \in 1..Len(seq) : run[k] = Number(run[k - 1], seq[k])
  BY <1>4, <1>5
<1>7. QED  BY <1>1, <1>3, <1>5, <1>6

AllBuilt(ind, paths) == FoldLeft(BuildFeature, ind, paths)

LEMMA BuildRuns ==
  ASSUME NEW base, NEW X, NEW seq \in Seq(X)
  PROVE  \E run : /\ DOMAIN run = 0..Len(seq) /\ run[0] = base
                  /\ run[Len(seq)] = AllBuilt(base, seq)
                  /\ \A k \in 1..Len(seq) : run[k] = BuildFeature(run[k - 1], seq[k])
<1> DEFINE iter == CHOOSE i : IsFold("build", base, seq, DOMAIN seq, i)
<1>1. DOMAIN seq = 1..Len(seq) /\ Len(seq) \in Nat
  OBVIOUS
<1>2. IsFold("build", base, seq, 1..Len(seq), iter)
  BY <1>1, SequenceFold
<1>3. AllBuilt(base, seq) = iter[DOMAIN seq]
  BY DEF AllBuilt, FoldLeft, MapThenFoldSet, IsFold, FoldStep, FoldPick
<1> HIDE DEF iter
<1>4. \A e, v : FoldStep("build", seq, e, v) = BuildFeature(v, seq[e])
  BY DEF FoldStep
<1>5. PICK run : /\ DOMAIN run = 0..Len(seq) /\ run[0] = base /\ run[Len(seq)] = iter[1..Len(seq)]
                 /\ \A k \in 1..Len(seq) : run[k] = FoldStep("build", seq, k, run[k - 1])
  BY <1>1, <1>2, FoldRuns
<1>6. \A k \in 1..Len(seq) : run[k] = BuildFeature(run[k - 1], seq[k])
  BY <1>4, <1>5
<1>7. QED  BY <1>1, <1>3, <1>5, <1>6

LEMMA VectorRuns ==
  ASSUME NEW kept, NEW X, NEW vector \in Seq(X)
  PROVE  \E run : /\ DOMAIN run = 0..Len(vector) /\ run[0] = <<>>
                  /\ run[Len(vector)] = VectorRenumbered(kept, vector)
                  /\ \A k \in 1..Len(vector) :
                       run[k] = IF vector[k] \in kept THEN Append(run[k - 1], Renumbered(kept, vector[k]))
                                ELSE run[k - 1]
<1> DEFINE arg == [vector |-> vector, kept |-> kept]
           iter == CHOOSE i : IsFold("vector", <<>>, arg, DOMAIN vector, i)
<1>1. DOMAIN vector = 1..Len(vector) /\ Len(vector) \in Nat
  OBVIOUS
<1>2. IsFold("vector", <<>>, arg, 1..Len(vector), iter)
  BY <1>1, SequenceFold
<1>3. VectorRenumbered(kept, vector) = iter[DOMAIN vector]
  BY DEF VectorRenumbered, FoldLeft, MapThenFoldSet, IsFold, FoldStep, FoldPick
<1>4. \A k, v : FoldStep("vector", arg, k, v) =
         IF vector[k] \in kept THEN Append(v, Renumbered(kept, vector[k])) ELSE v
  BY DEF FoldStep
<1> HIDE DEF iter, arg
<1>5. PICK run : /\ DOMAIN run = 0..Len(vector) /\ run[0] = <<>> /\ run[Len(vector)] = iter[1..Len(vector)]
                 /\ \A k \in 1..Len(vector) : run[k] = FoldStep("vector", arg, k, run[k - 1])
  BY <1>1, <1>2, FoldRuns
<1>6. \A k \in 1..Len(vector) :
        run[k] = IF vector[k] \in kept THEN Append(run[k - 1], Renumbered(kept, vector[k])) ELSE run[k - 1]
  BY <1>4, <1>5
<1>7. QED  BY <1>1, <1>3, <1>5, <1>6

IsNamesRun(ind, kept, names, run) ==
  /\ DOMAIN run = 0..Len(names) /\ run[0] = <<>>
  /\ run[Len(names)] = NumbersOf(ind, names, kept)
  /\ \A k \in 1..Len(names) :
       run[k] = IF names[k] \in kept THEN Append(run[k - 1], ind.dic[names[k]]) ELSE run[k - 1]

LEMMA NamesRuns ==
  ASSUME NEW ind, NEW kept, NEW names \in Seq(Features)
  PROVE  \E run : IsNamesRun(ind, kept, names, run)
<1> DEFINE arg == [names |-> names, kept |-> kept, dic |-> ind.dic]
           iter == CHOOSE i : IsFold("names", <<>>, arg, DOMAIN names, i)
<1>1. DOMAIN names = 1..Len(names) /\ Len(names) \in Nat
  OBVIOUS
<1>2. IsFold("names", <<>>, arg, 1..Len(names), iter)
  BY <1>1, SequenceFold
<1>3. NumbersOf(ind, names, kept) = iter[DOMAIN names]
  BY DEF NumbersOf, FoldLeft, MapThenFoldSet, IsFold, FoldStep, FoldPick
<1>4. \A k, v : FoldStep("names", arg, k, v) =
         IF names[k] \in kept THEN Append(v, ind.dic[names[k]]) ELSE v
  BY DEF FoldStep
<1> HIDE DEF iter, arg
<1>5. PICK run : /\ DOMAIN run = 0..Len(names) /\ run[0] = <<>> /\ run[Len(names)] = iter[1..Len(names)]
                 /\ \A k \in 1..Len(names) : run[k] = FoldStep("names", arg, k, run[k - 1])
  BY <1>1, <1>2, FoldRuns
<1>6. \A k \in 1..Len(names) :
        run[k] = IF names[k] \in kept THEN Append(run[k - 1], ind.dic[names[k]]) ELSE run[k - 1]
  BY <1>4, <1>5
<1>7. QED  BY <1>1, <1>3, <1>5, <1>6 DEF IsNamesRun

-----------------------------------------------------------------------------
(* Sums *)

Total(fun, T) == SumFunctionOnSet(fun, T)

LEMMA FoldUnique ==
  ASSUME NEW kind, NEW base, NEW arg, NEW T, NEW U, IsFiniteSet(T), U \subseteq T,
         \A s \in SUBSET T : s # {} => FoldPick(kind, s) \in s,
         NEW f, IsFold(kind, base, arg, T, f), NEW g, IsFold(kind, base, arg, U, g)
  PROVE  \A s \in SUBSET U : f[s] = g[s]
<1> DEFINE Good == { n \in Nat : \A s \in SUBSET U : Cardinality(s) <= n => f[s] = g[s] }
<1>1. \A s \in SUBSET T : IsFiniteSet(s) /\ Cardinality(s) \in Nat
  BY FS_Subset, FS_CardinalityType
<1>2. 0 \in Good
  <2>1. \A s \in SUBSET U : Cardinality(s) <= 0 => s = {}
    BY <1>1, FS_EmptySet
  <2>2. f[{}] = base /\ g[{}] = base
    BY DEF IsFold
  <2>3. QED  BY <2>1, <2>2
<1>3. ASSUME NEW n \in Nat, n \in Good PROVE n + 1 \in Good
  <2>1. ASSUME NEW s \in SUBSET U, Cardinality(s) <= n + 1, s # {} PROVE f[s] = g[s]
    <3> DEFINE r == s \ {FoldPick(kind, s)}
    <3>0. s \in SUBSET T /\ r \in SUBSET U
      OBVIOUS
    <3>1. FoldPick(kind, s) \in s /\ s \in SUBSET T /\ r \in SUBSET U
      BY <2>1, <3>0
    <3>2. Cardinality(r) <= n
      <4>1. Cardinality(r) = Cardinality(s) - 1
        BY <1>1, <3>1, FS_RemoveElement
      <4>2. QED  BY <1>1, <2>1, <3>1, <4>1
    <3>3. f[r] = g[r]
      BY <1>3, <3>1, <3>2
    <3>4. f[s] = FoldStep(kind, arg, FoldPick(kind, s), f[r]) /\ g[s] = FoldStep(kind, arg, FoldPick(kind, s), g[r])
      BY <2>1, <3>1 DEF IsFold
    <3>5. QED  BY <3>3, <3>4
  <2>2. f[{}] = g[{}]
    <3>1. {} \in SUBSET T /\ {} \in SUBSET U
      OBVIOUS
    <3>2. f[{}] = base /\ g[{}] = base
      BY <3>1 DEF IsFold
    <3>3. QED  BY <3>2
  <2>3. ASSUME NEW s \in SUBSET U, Cardinality(s) <= n + 1 PROVE f[s] = g[s]
    BY <2>1, <2>2, <2>3
  <2>4. QED  BY <2>3
<1>4. Nat \subseteq Good
  <2> HIDE DEF Good
  <2>1. QED  BY <1>2, <1>3, NatSetInduction
<1>5. QED
  <2>1. ASSUME NEW s \in SUBSET U PROVE f[s] = g[s]
    <3>1. Cardinality(s) \in Good /\ Cardinality(s) <= Cardinality(s)
      BY <1>1, <1>4
    <3>2. QED  BY <3>1
  <2>2. QED  BY <2>1

LEMMA SumPick ==
  ASSUME NEW s, s # {}
  PROVE  FoldPick("sum", s) \in s
BY DEF FoldPick

LEMMA SumIsFold ==
  ASSUME NEW fun, NEW T, IsFiniteSet(T)
  PROVE  \E iter : IsFold("sum", 0, fun, T, iter) /\ Total(fun, T) = iter[T]
<1> DEFINE iter == CHOOSE i : IsFold("sum", 0, fun, T, i)
<1>1. \A s \in SUBSET T : s # {} => FoldPick("sum", s) \in s
  BY SumPick
<1>2. IsFold("sum", 0, fun, T, iter)
  BY <1>1, FoldDefined
<1>3. Total(fun, T) = iter[T]
  BY DEF Total, SumFunctionOnSet, FoldFunctionOnSet, MapThenFoldSet, IsFold, FoldStep, FoldPick
<1>4. QED  BY <1>2, <1>3

LEMMA TotalEmpty ==
  ASSUME NEW fun
  PROVE  Total(fun, {}) = 0
<1>1. IsFiniteSet({})
  BY FS_EmptySet
<1>2. PICK iter : IsFold("sum", 0, fun, {}, iter) /\ Total(fun, {}) = iter[{}]
  BY <1>1, SumIsFold
<1>3. iter[{}] = 0
  <2>1. {} \in SUBSET {}
    OBVIOUS
  <2>2. QED  BY <1>2, <2>1 DEF IsFold
<1>4. QED  BY <1>2, <1>3

LEMMA TotalUnfolds ==
  ASSUME NEW fun, NEW T, IsFiniteSet(T), T # {}
  PROVE  \E p \in T : Total(fun, T) = fun[p] + Total(fun, T \ {p})
<1>1. PICK f : IsFold("sum", 0, fun, T, f) /\ Total(fun, T) = f[T]
  BY SumIsFold
<1>2. PICK p : p = FoldPick("sum", T)
  OBVIOUS
<1>3. p \in T
  BY <1>2, SumPick
<1>4. PICK U : U = T \ {p}
  OBVIOUS
<1>5. IsFiniteSet(U) /\ U \subseteq T
  BY <1>4, FS_Subset
<1>6. PICK g : IsFold("sum", 0, fun, U, g) /\ Total(fun, U) = g[U]
  BY <1>5, SumIsFold
<1>7. f[U] = g[U]
  BY <1>1, <1>5, <1>6, SumPick, FoldUnique
<1>8. f[T] = FoldStep("sum", fun, p, f[U])
  BY <1>1, <1>2, <1>4 DEF IsFold
<1>9. FoldStep("sum", fun, p, f[U]) = fun[p] + f[U]
  BY DEF FoldStep
<1>10. QED  BY <1>1, <1>3, <1>4, <1>6, <1>7, <1>8, <1>9

(* The order of the summands does not matter. *)
LEMMA TotalInserts ==
  ASSUME NEW D, IsFiniteSet(D), NEW fun, \A e \in D : fun[e] \in Int
  PROVE  /\ Total(fun, D) \in Int
         /\ \A y \in D : Total(fun, D) = fun[y] + Total(fun, D \ {y})
<1> DEFINE Holds(T) == /\ Total(fun, T) \in Int
                      /\ \A y \in T : Total(fun, T) = fun[y] + Total(fun, T \ {y})
           Good == { n \in Nat : \A T \in SUBSET D : IsFiniteSet(T) /\ Cardinality(T) <= n => Holds(T) }
<1>1. Holds({})
  BY TotalEmpty
<1>2. 0 \in Good
  <2>1. \A T \in SUBSET D : IsFiniteSet(T) /\ Cardinality(T) <= 0 => T = {}
    BY FS_EmptySet, FS_CardinalityType
  <2> HIDE DEF Holds
  <2>2. QED  BY <1>1, <2>1
<1>3. ASSUME NEW n \in Nat, n \in Good PROVE n + 1 \in Good
  <2>1. ASSUME NEW T \in SUBSET D, IsFiniteSet(T), Cardinality(T) <= n + 1, T # {}
        PROVE  Holds(T)
    <3>1. PICK p \in T : Total(fun, T) = fun[p] + Total(fun, T \ {p})
      BY <2>1, TotalUnfolds
    <3>2. ASSUME NEW q \in T PROVE Holds(T \ {q}) /\ IsFiniteSet(T \ {q})
      <4>1. Cardinality(T \ {q}) = Cardinality(T) - 1 /\ Cardinality(T) \in Nat /\ IsFiniteSet(T \ {q})
        BY <2>1, FS_RemoveElement, FS_CardinalityType, FS_Subset
      <4>2. QED
        <5>1. Cardinality(T \ {q}) <= n /\ T \ {q} \in SUBSET D
          BY <2>1, <4>1
        <5> HIDE DEF Holds
        <5>2. QED  BY <1>3, <4>1, <5>1
    <3>3. fun[p] \in Int /\ Total(fun, T \ {p}) \in Int
      BY <3>2
    <3>4. ASSUME NEW y \in T PROVE Total(fun, T) = fun[y] + Total(fun, T \ {y})
      <4>1. CASE y = p
        BY <3>1, <4>1
      <4>2. CASE y # p
        <5>1. PICK R : R = T \ {p, y}
          OBVIOUS
        <5>2. R = (T \ {p}) \ {y} /\ R = (T \ {y}) \ {p}
          BY <5>1
        <5>3. Total(fun, T \ {p}) = fun[y] + Total(fun, R)
          BY <3>2, <4>2, <5>2
        <5>4. Total(fun, T \ {y}) = fun[p] + Total(fun, R)
          BY <3>2, <4>2, <5>2
        <5>5. Total(fun, R) \in Int
          <6>1. Cardinality(R) <= n
            <7>1. R \subseteq T \ {p} /\ IsFiniteSet(T \ {p}) /\ Cardinality(T \ {p}) = Cardinality(T) - 1
              BY <2>1, <5>1, FS_RemoveElement, FS_Subset
            <7>2. Cardinality(R) <= Cardinality(T \ {p}) /\ Cardinality(R) \in Nat /\ Cardinality(T) \in Nat
              BY <2>1, <7>1, FS_Subset, FS_CardinalityType
            <7>3. QED  BY <2>1, <7>1, <7>2
          <6>2. IsFiniteSet(R) /\ R \in SUBSET D
            BY <2>1, <5>1, FS_Subset
          <6>3. Holds(R)
            <7> HIDE DEF Holds
            <7>1. QED  BY <1>3, <6>1, <6>2
          <6>4. QED  BY <6>3
        <5>6. fun[y] \in Int
          OBVIOUS
        <5>7. QED  BY <3>1, <3>3, <5>3, <5>4, <5>5, <5>6
      <4>3. QED  BY <4>1, <4>2
    <3>5. Total(fun, T) \in Int
      BY <3>1, <3>3
    <3>6. QED  BY <3>4, <3>5
  <2> HIDE DEF Holds
  <2>2. QED  BY <1>1, <2>1
<1>4. Nat \subseteq Good
  <2> HIDE DEF Good
  <2>1. QED  BY <1>2, <1>3, NatSetInduction
<1>5. ASSUME NEW T \in SUBSET D, IsFiniteSet(T) PROVE Holds(T)
  <2>1. Cardinality(T) \in Good /\ Cardinality(T) <= Cardinality(T)
    BY <1>4, <1>5, FS_CardinalityType
  <2> HIDE DEF Holds
  <2>2. QED  BY <1>5, <2>1
<1>6. Holds(D)
  <2>1. D \in SUBSET D
    OBVIOUS
  <2> HIDE DEF Holds
  <2>2. QED  BY <1>5, <2>1
<1>7. QED  BY <1>6

(* One summand more. *)
LEMMA TotalMore ==
  ASSUME NEW T, IsFiniteSet(T), NEW y, y \notin T, NEW fun, \A e \in T \union {y} : fun[e] \in Int
  PROVE  /\ Total(fun, T) \in Int
         /\ Total(fun, T \union {y}) = Total(fun, T) + fun[y]
<1>0. PICK D : D = T \union {y}
  OBVIOUS
<1>1. IsFiniteSet(D) /\ D \ {y} = T /\ y \in D
  BY <1>0, FS_AddElement
<1>2. fun[y] \in Int /\ \A e \in D : fun[e] \in Int
  BY <1>0
<1>3. Total(fun, T) \in Int
  BY TotalInserts
<1>4. \A z \in D : Total(fun, D) = fun[z] + Total(fun, D \ {z})
  BY <1>1, <1>2, TotalInserts
<1>5. Total(fun, D) = fun[y] + Total(fun, T)
  BY <1>1, <1>4
<1>6. QED  BY <1>0, <1>2, <1>3, <1>5

LEMMA TotalType ==
  ASSUME NEW T, IsFiniteSet(T), NEW fun, \A e \in T : fun[e] \in Int
  PROVE  Total(fun, T) \in Int
BY TotalInserts

LEMMA TotalSame ==
  ASSUME NEW T, IsFiniteSet(T), NEW f, NEW g, \A n \in T : f[n] \in Int /\ g[n] = f[n]
  PROVE  Total(g, T) = Total(f, T)
<1> DEFINE G == { S \in SUBSET T : Total(g, S) = Total(f, S) }
<1>1. {} \in G
  BY TotalEmpty
<1>2. ASSUME NEW S \in SUBSET T, NEW y \in T \ S, S \in G
      PROVE  S \union {y} \in G
  <2>1. IsFiniteSet(S) /\ y \notin S
    BY FS_Subset
  <2>2. \A n \in S \union {y} : f[n] \in Int /\ g[n] \in Int
    OBVIOUS
  <2>3. Total(f, S \union {y}) = Total(f, S) + f[y]
    BY <2>1, <2>2, TotalMore
  <2>4. Total(g, S \union {y}) = Total(g, S) + g[y]
    BY <2>1, <2>2, TotalMore
  <2>5. Total(g, S) = Total(f, S) /\ g[y] = f[y]
    BY <1>2
  <2> QED BY <2>3, <2>4, <2>5
<1>3. T \in G
  <2> HIDE DEF G
  <2> QED BY <1>1, <1>2, SubsetInduction
<1> QED BY <1>3

LEMMA TotalZero ==
  ASSUME NEW T, IsFiniteSet(T), NEW f, \A n \in T : f[n] = 0
  PROVE  Total(f, T) = 0
<1> DEFINE G == { S \in SUBSET T : Total(f, S) = 0 }
<1>1. {} \in G
  BY TotalEmpty
<1>2. ASSUME NEW S \in SUBSET T, NEW y \in T \ S, S \in G
      PROVE  S \union {y} \in G
  <2>1. IsFiniteSet(S) /\ y \notin S
    BY FS_Subset
  <2>2. \A n \in S \union {y} : f[n] \in Int
    OBVIOUS
  <2>3. Total(f, S \union {y}) = Total(f, S) + f[y]
    BY <2>1, <2>2, TotalMore
  <2>5. Total(f, S) = 0 /\ f[y] = 0
    BY <1>2
  <2> QED BY <2>3, <2>5
<1>3. T \in G
  <2> HIDE DEF G
  <2> QED BY <1>1, <1>2, SubsetInduction
<1> QED BY <1>3

LEMMA TotalPlus ==
  ASSUME NEW T, IsFiniteSet(T), NEW f, NEW g, NEW h,
         \A n \in T : f[n] \in Int /\ g[n] \in Int /\ h[n] = f[n] + g[n]
  PROVE  Total(h, T) = Total(f, T) + Total(g, T)
<1> DEFINE G == { S \in SUBSET T : Total(h, S) = Total(f, S) + Total(g, S) }
<1>1. {} \in G
  BY TotalEmpty
<1>2. ASSUME NEW S \in SUBSET T, NEW y \in T \ S, S \in G
      PROVE  S \union {y} \in G
  <2>1. IsFiniteSet(S) /\ y \notin S
    BY FS_Subset
  <2>2. \A n \in S \union {y} : f[n] \in Int /\ g[n] \in Int /\ h[n] \in Int
    <3>1. \A n \in S \union {y} : f[n] \in Int /\ g[n] \in Int /\ h[n] = f[n] + g[n]
      OBVIOUS
    <3> QED BY <3>1
  <2>3. Total(f, S \union {y}) = Total(f, S) + f[y] /\ Total(f, S) \in Int
    BY <2>1, <2>2, TotalMore
  <2>4. Total(g, S \union {y}) = Total(g, S) + g[y] /\ Total(g, S) \in Int
    BY <2>1, <2>2, TotalMore
  <2>5. Total(h, S \union {y}) = Total(h, S) + h[y]
    BY <2>1, <2>2, TotalMore
  <2>6. Total(h, S) = Total(f, S) + Total(g, S) /\ h[y] = f[y] + g[y]
    BY <1>2
  <2>7. f[y] \in Int /\ g[y] \in Int
    OBVIOUS
  <2>8. Total(h, S \union {y}) = Total(f, S \union {y}) + Total(g, S \union {y})
    BY <2>3, <2>4, <2>5, <2>6, <2>7, SMT
  <2> QED BY <2>8
<1>3. T \in G
  <2> HIDE DEF G
  <2> QED BY <1>1, <1>2, SubsetInduction
<1> QED BY <1>3

LEMMA TotalUnion ==
  ASSUME NEW A, IsFiniteSet(A), NEW B, IsFiniteSet(B), A \cap B = {},
         NEW f, \A n \in A \union B : f[n] \in Int
  PROVE  Total(f, A \union B) = Total(f, A) + Total(f, B)
<1> DEFINE G == { S \in SUBSET B : Total(f, A \union S) = Total(f, A) + Total(f, S) }
<1>0. Total(f, A) \in Int
  BY TotalType
<1>1. {} \in G
  <2>1. A \union {} = A /\ Total(f, {}) = 0
    BY TotalEmpty
  <2> QED BY <1>0, <2>1
<1>2. ASSUME NEW S \in SUBSET B, NEW y \in B \ S, S \in G
      PROVE  S \union {y} \in G
  <2>1. IsFiniteSet(S) /\ y \notin S /\ y \notin A \union S
    BY FS_Subset
  <2>2. IsFiniteSet(A \union S)
    BY <2>1, FS_Union
  <2>3. PICK U, V : U = A \union S /\ V = A \union (S \union {y})
    OBVIOUS
  <2>4. V = U \union {y} /\ \A n \in U \union {y} : f[n] \in Int
    BY <2>3
  <2>5. Total(f, V) = Total(f, U) + f[y]
    BY <2>1, <2>2, <2>3, <2>4, TotalMore
  <2>6. Total(f, S \union {y}) = Total(f, S) + f[y] /\ Total(f, S) \in Int
    <3>1. \A n \in S \union {y} : f[n] \in Int
      OBVIOUS
    <3> QED BY <2>1, <3>1, TotalMore
  <2>7. Total(f, U) = Total(f, A) + Total(f, S)
    BY <1>2, <2>3
  <2>8. f[y] \in Int
    OBVIOUS
  <2>9. Total(f, V) = Total(f, A) + Total(f, S \union {y})
    BY <1>0, <2>5, <2>6, <2>7, <2>8, SMT
  <2> QED BY <2>3, <2>9
<1>3. B \in G
  <2> HIDE DEF G
  <2> QED BY <1>1, <1>2, SubsetInduction
<1> QED BY <1>3

\* a value that grows by one summand at every step of a loop
LEMMA TotalSteps ==
  ASSUME NEW n \in Nat, NEW v, NEW f, v[0] \in Int,
         \A k \in 1..n : f[k] \in Int /\ v[k] = v[k - 1] + f[k]
  PROVE  v[n] \in Int /\ v[n] = v[0] + Total(f, 1..n)
<1> DEFINE G == { k \in Nat : k <= n => v[k] \in Int /\ v[k] = v[0] + Total(f, 1..k) }
<1>1. 0 \in G
  <2>1. 1..0 = {}
    OBVIOUS
  <2>2. Total(f, 1..0) = 0
    BY <2>1, TotalEmpty
  <2> QED BY <2>2
<1>2. ASSUME NEW k \in Nat, k \in G PROVE k + 1 \in G
  <2> SUFFICES ASSUME k + 1 <= n PROVE v[k + 1] \in Int /\ v[k + 1] = v[0] + Total(f, 1..k + 1)
    OBVIOUS
  <2>1. v[k] \in Int /\ v[k] = v[0] + Total(f, 1..k)
    BY <1>2
  <2>2. k + 1 \in 1..n /\ (k + 1) - 1 = k
    OBVIOUS
  <2>3. f[k + 1] \in Int /\ v[k + 1] = v[k] + f[k + 1]
    BY <2>2
  <2>4. 1..k + 1 = (1..k) \union {k + 1} /\ k + 1 \notin 1..k
    OBVIOUS
  <2>5. IsFiniteSet(1..k)
    BY FS_Interval
  <2>6. \A m \in (1..k) \union {k + 1} : f[m] \in Int
    <3>1. (1..k) \union {k + 1} \subseteq 1..n
      OBVIOUS
    <3> QED BY <3>1
  <2>7. PICK S, m : S = 1..k /\ m = k + 1
    OBVIOUS
  <2>8. Total(f, S) \in Int /\ Total(f, S \union {m}) = Total(f, S) + f[m]
    <3>1. IsFiniteSet(S) /\ m \notin S /\ \A j \in S \union {m} : f[j] \in Int
      BY <2>4, <2>5, <2>6, <2>7
    <3> QED BY <3>1, TotalMore
  <2>9. Total(f, 1..k + 1) = Total(f, 1..k) + f[k + 1] /\ Total(f, 1..k) \in Int
    BY <2>4, <2>7, <2>8
  <2> QED BY <2>1, <2>3, <2>9
<1>3. n \in G
  <2> HIDE DEF G
  <2>1. Nat \subseteq G
    BY <1>1, <1>2, NatSetInduction
  <2> QED BY <2>1
<1> QED BY <1>3

\* summands outside of a part count as zero
LEMMA TotalPart ==
  ASSUME NEW T, IsFiniteSet(T), NEW S \in SUBSET T, NEW f, NEW g,
         \A n \in T : f[n] \in Int /\ f[n] = IF n \in S THEN g[n] ELSE 0
  PROVE  Total(f, T) = Total(g, S)
<1>1. PICK R : R = T \ S
  OBVIOUS
<1>2. IsFiniteSet(S) /\ IsFiniteSet(R) /\ S \cap R = {} /\ S \union R = T /\ \A n \in S \union R : f[n] \in Int
  BY <1>1, FS_Subset
<1>3. Total(f, T) = Total(f, S) + Total(f, R)
  BY <1>2, TotalUnion
<1>4. Total(f, R) = 0
  <2>1. \A n \in R : f[n] = 0
    BY <1>1
  <2> QED BY <1>2, <2>1, TotalZero
<1>5. Total(f, S) \in Int
  BY <1>2, TotalType
<1>6. Total(f, S) = Total(g, S)
  <2>1. \A n \in S : g[n] \in Int /\ f[n] = g[n]
    OBVIOUS
  <2> QED BY <1>2, <2>1, TotalSame
<1> QED BY <1>3, <1>4, <1>5, <1>6

\* a function summed up where only one value changes
LEMMA TotalChange ==
  ASSUME NEW T, IsFiniteSet(T), NEW y \in T, NEW f, NEW g, NEW d \in Int,
         \A n \in T : f[n] \in Int /\ g[n] = IF n = y THEN f[n] + d ELSE f[n]
  PROVE  Total(g, T) = Total(f, T) + d
<1>1. PICK S : S = T \ {y}
  OBVIOUS
<1>2. IsFiniteSet(S) /\ y \notin S /\ T = S \union {y}
  BY <1>1, FS_Subset
<1>3. \A n \in S \union {y} : f[n] \in Int /\ g[n] \in Int
  BY <1>2
<1>4. Total(f, S \union {y}) = Total(f, S) + f[y] /\ Total(f, S) \in Int
  BY <1>2, <1>3, TotalMore
<1>5. Total(g, S \union {y}) = Total(g, S) + g[y]
  BY <1>2, <1>3, TotalMore
<1>6. Total(g, S) = Total(f, S)
  <2>1. \A n \in S : f[n] \in Int /\ g[n] = f[n]
    BY <1>1
  <2> QED BY <1>2, <2>1, TotalSame
<1>7. g[y] = f[y] + d /\ f[y] \in Int
  OBVIOUS
<1> QED BY <1>2, <1>4, <1>5, <1>6, <1>7, SMT

LEMMA SumIsTotal ==
  ASSUME NEW f
  PROVE  SumFunction(f) = Total(f, DOMAIN f)
BY DEF SumFunction, Total

-----------------------------------------------------------------------------
(* Renumbering.  The new numbers of shrink are again 0, 1, 2, ... without  *)
(* a gap, whatever is dropped.                                             *)

\* the numbers of the features are 0 .. maxid - 1, each given once
Dense(ind) ==
  /\ ind.maxid \in Nat
  /\ \A f \in DOMAIN ind.dic : ind.dic[f] \in 0 .. ind.maxid - 1
  /\ \A f, g \in DOMAIN ind.dic : ind.dic[f] = ind.dic[g] => f = g
  /\ \A i \in 0 .. ind.maxid - 1 : \E f \in DOMAIN ind.dic : ind.dic[f] = i

\* A set of numbers has finitely many below one of them, and fewer below a smaller one.
LEMMA RenumberedMonotone ==
  ASSUME NEW kept \in SUBSET Nat, IsFiniteSet(kept), NEW j \in kept
  PROVE  /\ Renumbered(kept, j) \in 0 .. Cardinality(kept) - 1
         /\ \A i \in kept : i < j => Renumbered(kept, i) < Renumbered(kept, j)
<1> DEFINE below(k) == { i \in kept : i < k }
<1>1. \A k : IsFiniteSet(below(k)) /\ Cardinality(below(k)) \in Nat
  BY FS_Subset, FS_CardinalityType
<1>2. Cardinality(kept) \in Nat
  BY FS_CardinalityType
<1>3. below(j) # kept /\ below(j) \in SUBSET kept
  <2>1. ~ (j < j)
    BY SMT
  <2> QED BY <2>1
<1>4. Cardinality(below(j)) <= Cardinality(kept) /\ Cardinality(below(j)) # Cardinality(kept)
  BY <1>3, FS_Subset
<1>5. ASSUME NEW i \in kept, i < j
      PROVE  Cardinality(below(i)) < Cardinality(below(j))
  <2>1. below(i) \in SUBSET below(j) /\ i \in below(j)
    <3>1. \A k \in kept : k < i => k < j
      BY <1>5, SMT
    <3> QED BY <1>5, <3>1
  <2>2. i \notin below(i)
    <3>1. ~ (i < i)
      BY SMT
    <3> QED BY <3>1
  <2>3. Cardinality(below(i)) <= Cardinality(below(j)) /\ Cardinality(below(i)) # Cardinality(below(j))
    <3>1. IsFiniteSet(below(j))
      BY <1>1
    <3> HIDE DEF below
    <3> QED BY <2>1, <2>2, <3>1, FS_Subset
  <2>4. Cardinality(below(i)) \in Nat /\ Cardinality(below(j)) \in Nat
    BY <1>1
  <2> HIDE DEF below
  <2> QED BY <2>3, <2>4, SMT
<1>6. \A k : Renumbered(kept, k) = Cardinality(below(k))
  BY DEF Renumbered
<1> HIDE DEF below
<1> QED BY <1>1, <1>2, <1>4, <1>5, <1>6, SMT

\* old2new never moves two features to one number, and leaves no number free
\* (feature_index.cpp:461-480): each new number comes from exactly one old one.
THEOREM RenumberingIsBijection ==
  ASSUME NEW kept \in SUBSET Nat, IsFiniteSet(kept)
  PROVE  /\ \A i, j \in kept : Renumbered(kept, i) = Renumbered(kept, j) => i = j
         /\ \A n \in 0 .. Cardinality(kept) - 1 : \E i \in kept : Renumbered(kept, i) = n
<1> DEFINE places == 0 .. Cardinality(kept) - 1
           f == [i \in kept |-> Renumbered(kept, i)]
<1>1. Cardinality(kept) \in Nat
  BY FS_CardinalityType
<1>2. \A i, j \in kept : Renumbered(kept, i) = Renumbered(kept, j) => i = j
  <2> SUFFICES ASSUME NEW i \in kept, NEW j \in kept, i # j
               PROVE  Renumbered(kept, i) # Renumbered(kept, j)
    OBVIOUS
  <2>1. Renumbered(kept, i) \in Int /\ Renumbered(kept, j) \in Int
    BY <1>1, RenumberedMonotone, SMT
  <2>2. i < j \/ j < i
    BY SMT
  <2>3. Renumbered(kept, i) < Renumbered(kept, j) \/ Renumbered(kept, j) < Renumbered(kept, i)
    BY <2>2, RenumberedMonotone
  <2> QED BY <2>1, <2>3, SMT
<1>3. f \in Injection(kept, places)
  <2>1. f \in [kept -> places]
    BY RenumberedMonotone
  <2> QED BY <1>2, <2>1 DEF Injection, IsInjective
<1>4. IsFiniteSet(places) /\ Cardinality(places) = Cardinality(kept)
  <2>1. 0 \in Int /\ Cardinality(kept) - 1 \in Int
    BY <1>1, SMT
  <2>2. /\ IsFiniteSet(places)
        /\ Cardinality(places) =
             IF 0 > Cardinality(kept) - 1 THEN 0 ELSE ((Cardinality(kept) - 1) - 0) + 1
    BY <2>1, FS_Interval
  <2> HIDE DEF places
  <2> QED BY <1>1, <2>2, SMT
<1>5. f \in Surjection(kept, places)
  <2> HIDE DEF f, places
  <2> QED BY <1>3, <1>4, FS_Injection
<1>6. \A n \in places : \E i \in kept : f[i] = n
  BY <1>5 DEF Surjection
<1> QED BY <1>2, <1>6

\* shrink keeps the numbers of the features without gaps or duplicates,
\* whichever features it drops: the weights of the trainer are as many.
THEOREM ShrinkKeepsDense ==
  ASSUME NEW ind, Dense(ind), NEW least
  PROVE  Dense(Shrink(ind, least))
<1> DEFINE kept == Kept(ind, least)
           new == Shrink(ind, least)
           left == { g \in DOMAIN ind.dic : ind.dic[g] \in kept }
<1>1. CASE least <= 1
  BY <1>1 DEF Shrink
<1>2. CASE ~ (least <= 1)
  <2>1. kept \in SUBSET Nat /\ IsFiniteSet(kept) /\ kept \subseteq 0 .. ind.maxid - 1
    <3>1. kept \subseteq 0 .. ind.maxid - 1
      BY DEF Kept
    <3>2. IsFiniteSet(0 .. ind.maxid - 1)
      <4>1. 0 \in Int /\ ind.maxid - 1 \in Int
        BY SMT DEF Dense
      <4> QED BY <4>1, FS_Interval
    <3>3. 0 .. ind.maxid - 1 \subseteq Nat
      BY SMT DEF Dense
    <3> HIDE DEF kept
    <3>4. IsFiniteSet(kept)
      BY <3>1, <3>2, FS_Subset
    <3> QED BY <3>1, <3>3, <3>4
  <2>2. /\ new.maxid = Cardinality(kept)
        /\ new.dic = [f \in left |-> Renumbered(kept, ind.dic[f])]
    BY <1>2 DEF Shrink
  <2>3. Cardinality(kept) \in Nat
    BY <2>1, FS_CardinalityType
  <2> HIDE DEF kept, new
  <2>4. \A f \in left : ind.dic[f] \in kept
    OBVIOUS
  <2>5. \A f \in left : new.dic[f] = Renumbered(kept, ind.dic[f]) /\ new.dic[f] \in 0 .. new.maxid - 1
    BY <2>1, <2>2, <2>4, RenumberedMonotone
  <2>6. \A f, g \in left : new.dic[f] = new.dic[g] => f = g
    BY <2>1, <2>4, <2>5, RenumberingIsBijection DEF Dense
  <2>7. \A n \in 0 .. new.maxid - 1 : \E f \in left : new.dic[f] = n
    <3> SUFFICES ASSUME NEW n \in 0 .. Cardinality(kept) - 1
                 PROVE  \E f \in left : new.dic[f] = n
      BY <2>2
    <3>1. PICK i \in kept : Renumbered(kept, i) = n
      BY <2>1, RenumberingIsBijection
    <3>2. PICK f \in DOMAIN ind.dic : ind.dic[f] = i
      BY <2>1, <3>1 DEF Dense
    <3> QED BY <2>5, <3>1, <3>2
  <2>8. DOMAIN new.dic = left
    BY <2>2
  <2>9. Dense(new)
    <3> HIDE DEF left
    <3> QED BY <2>2, <2>3, <2>5, <2>6, <2>7, <2>8 DEF Dense
  <2> QED BY <2>9 DEF new
<1> QED BY <1>1, <1>2
-----------------------------------------------------------------------------
(* Reading: what the index knows after some uses of keys.                  *)

IsIndex(ind) == ind = [dic |-> ind.dic, maxid |-> ind.maxid, cache |-> ind.cache]

Names(key) == { FeaturesOf[key][n] : n \in DOMAIN FeaturesOf[key] }

Vector(ind, key) == [n \in DOMAIN FeaturesOf[key] |-> ind.dic[FeaturesOf[key][n]]]

\* numbers stay with their features
Grows(ind, new) ==
  /\ DOMAIN ind.dic \subseteq DOMAIN new.dic
  /\ \A f \in DOMAIN ind.dic : new.dic[f] = ind.dic[f]
  /\ ind.maxid <= new.maxid

\* how often a feature was met, counted in the cache
Weighted(ind, f) == SumFunction([key \in DOMAIN ind.cache |-> ind.cache[key].count * Named(key, f)])

IndexWell(ind) ==
  /\ IsIndex(ind) /\ Dense(ind)
  /\ DOMAIN ind.cache \in SUBSET Keys /\ IsFiniteSet(DOMAIN ind.cache)
  /\ \A key \in DOMAIN ind.cache :
       /\ ind.cache[key] = [vector |-> Vector(ind, key), count |-> ind.cache[key].count]
       /\ ind.cache[key].count \in Nat
       /\ Names(key) \subseteq DOMAIN ind.dic

LEMMA NamedType ==
  ASSUME NEW key \in Keys, NEW f
  PROVE  /\ Named(key, f) \in Nat
         /\ IsFiniteSet(DOMAIN FeaturesOf[key]) /\ FeaturesOf[key] \in Seq(Features)
         /\ f \notin Names(key) => Named(key, f) = 0
<1>1. FeaturesOf[key] \in Seq(Features)
  BY FeaturesAssumption
<1>2. DOMAIN FeaturesOf[key] = 1..Len(FeaturesOf[key]) /\ Len(FeaturesOf[key]) \in Nat
  BY <1>1
<1>3. IsFiniteSet(DOMAIN FeaturesOf[key])
  BY <1>2, FS_Interval
<1>4. PICK S : S = { n \in DOMAIN FeaturesOf[key] : FeaturesOf[key][n] = f }
  OBVIOUS
<1>5. IsFiniteSet(S) /\ Cardinality(S) \in Nat
  BY <1>3, <1>4, FS_Subset, FS_CardinalityType
<1>6. f \notin Names(key) => S = {}
  BY <1>4 DEF Names
<1> QED BY <1>1, <1>3, <1>4, <1>5, <1>6, FS_EmptySet DEF Named

LEMMA NumberExtends ==
  ASSUME NEW ind, IsIndex(ind), Dense(ind), NEW f, NEW new, new = Number(ind, f)
  PROVE  /\ IsIndex(new) /\ Dense(new) /\ new.cache = ind.cache
         /\ DOMAIN new.dic = DOMAIN ind.dic \union {f}
         /\ Grows(ind, new)
<1>1. CASE f \in DOMAIN ind.dic
  <2>1. new = ind /\ ind.maxid \in Nat
    BY <1>1 DEF Number, Dense
  <2>2. Grows(ind, ind)
    BY <2>1 DEF Grows
  <2> QED BY <1>1, <2>1, <2>2
<1>2. CASE f \notin DOMAIN ind.dic
  <2>1. new = [dic |-> Extend(ind.dic, f, ind.maxid), maxid |-> ind.maxid + 1, cache |-> ind.cache]
    BY <1>2 DEF Number, IsIndex
  <2>2. /\ new.dic = Extend(ind.dic, f, ind.maxid) /\ new.maxid = ind.maxid + 1 /\ new.cache = ind.cache
        /\ IsIndex(new)
    BY <2>1 DEF IsIndex
  <2>3. /\ DOMAIN new.dic = DOMAIN ind.dic \union {f} /\ new.dic[f] = ind.maxid
        /\ \A g \in DOMAIN ind.dic : new.dic[g] = ind.dic[g]
    BY <1>2, <2>2 DEF Extend
  <2>4. Grows(ind, new)
    BY <2>2, <2>3 DEF Grows, Dense
  <2>5. Dense(new)
    <3>1. new.maxid \in Nat /\ ind.maxid \in Nat
      BY <2>2 DEF Dense
    <3>2. \A g \in DOMAIN new.dic : new.dic[g] \in 0 .. new.maxid - 1
      BY <2>2, <2>3, <3>1 DEF Dense
    <3>3. \A g, h \in DOMAIN new.dic : new.dic[g] = new.dic[h] => g = h
      <4>1. \A g \in DOMAIN ind.dic : ind.dic[g] # ind.maxid
        BY <3>1 DEF Dense
      <4> QED BY <2>3, <4>1 DEF Dense
    <3>4. \A i \in 0 .. new.maxid - 1 : \E g \in DOMAIN new.dic : new.dic[g] = i
      <4> SUFFICES ASSUME NEW i \in 0 .. new.maxid - 1
                   PROVE  \E g \in DOMAIN new.dic : new.dic[g] = i
        OBVIOUS
      <4>1. i = ind.maxid \/ i \in 0 .. ind.maxid - 1
        BY <2>2, <3>1
      <4>2. CASE i = ind.maxid
        BY <2>3, <4>2
      <4>3. CASE i \in 0 .. ind.maxid - 1
        <5>1. PICK g \in DOMAIN ind.dic : ind.dic[g] = i
          BY <4>3 DEF Dense
        <5> QED BY <2>3, <5>1
      <4> QED BY <4>1, <4>2, <4>3
    <3> QED BY <3>1, <3>2, <3>3, <3>4 DEF Dense
  <2> QED BY <2>2, <2>3, <2>4, <2>5
<1> QED BY <1>1, <1>2

LEMMA GrowsFurther ==
  ASSUME NEW a, NEW b, NEW c, Grows(a, b), Grows(b, c), a.maxid \in Nat, b.maxid \in Nat, c.maxid \in Nat
  PROVE  Grows(a, c)
BY DEF Grows

LEMMA NamesExtend ==
  ASSUME NEW ind, IsIndex(ind), Dense(ind), NEW X, NEW names \in Seq(X), NEW new,
         new = AllNumbered(ind, names)
  PROVE  /\ IsIndex(new) /\ Dense(new) /\ new.cache = ind.cache
         /\ DOMAIN new.dic = DOMAIN ind.dic \union { names[n] : n \in DOMAIN names }
         /\ Grows(ind, new)
<1>1. DOMAIN names = 1..Len(names) /\ Len(names) \in Nat
  OBVIOUS
<1>r. PICK run : /\ DOMAIN run = 0..Len(names) /\ run[0] = ind
                 /\ run[Len(names)] = AllNumbered(ind, names)
                 /\ \A k \in 1..Len(names) : run[k] = Number(run[k - 1], names[k])
  BY NumberRuns
<1>2. /\ run[0] = ind /\ run[Len(names)] = new
      /\ \A k \in 1..Len(names) : run[k] = Number(run[k - 1], names[k])
  BY <1>r
<1> DEFINE Good(k) == /\ IsIndex(run[k]) /\ Dense(run[k]) /\ run[k].cache = ind.cache
                      /\ DOMAIN run[k].dic = DOMAIN ind.dic \union { names[n] : n \in 1..k }
                      /\ Grows(ind, run[k])
           G == { k \in Nat : k <= Len(names) => Good(k) }
<1>3. 0 \in G
  <2>1. ind.maxid \in Nat /\ 1..0 = {}
    BY DEF Dense
  <2>2. Grows(ind, ind)
    BY <2>1 DEF Grows
  <2>3. Good(0)
    BY <1>2, <2>1, <2>2
  <2> QED BY <2>3
<1>4. ASSUME NEW k \in Nat, k \in G PROVE k + 1 \in G
  <2> SUFFICES ASSUME k + 1 <= Len(names) PROVE Good(k + 1)
    OBVIOUS
  <2>1. k + 1 \in 1..Len(names) /\ (k + 1) - 1 = k /\ k <= Len(names)
    BY <1>1
  <2>2. Good(k)
    <3> HIDE DEF Good
    <3> QED BY <1>4, <2>1
  <2>3. run[k + 1] = Number(run[k], names[k + 1])
    BY <1>2, <2>1
  <2>4. PICK a, b : a = run[k] /\ b = run[k + 1]
    OBVIOUS
  <2>5. /\ IsIndex(b) /\ Dense(b) /\ b.cache = a.cache
        /\ DOMAIN b.dic = DOMAIN a.dic \union {names[k + 1]}
        /\ Grows(a, b)
    BY <2>2, <2>3, <2>4, NumberExtends
  <2>6. Grows(ind, b)
    <3>1. Grows(ind, a) /\ Grows(a, b) /\ ind.maxid \in Nat /\ a.maxid \in Nat /\ b.maxid \in Nat
      BY <2>2, <2>4, <2>5 DEF Dense
    <3> QED BY <3>1, GrowsFurther
  <2>7. { names[n] : n \in 1..k + 1 } = { names[n] : n \in 1..k } \union {names[k + 1]}
    <3>1. 1..k + 1 = (1..k) \union {k + 1}
      OBVIOUS
    <3> QED BY <3>1
  <2>8. DOMAIN b.dic = DOMAIN ind.dic \union { names[n] : n \in 1..k + 1 }
    BY <2>2, <2>4, <2>5, <2>7
  <2> QED BY <2>2, <2>4, <2>5, <2>6, <2>8
<1>5. Nat \subseteq G
  <2> HIDE DEF G
  <2> QED BY <1>3, <1>4, NatSetInduction
<1>6. Good(Len(names))
  <2> HIDE DEF Good
  <2> QED BY <1>1, <1>5
<1> QED BY <1>1, <1>2, <1>6

NamesIn(K) == UNION { Names(key) : key \in K }

\* what some uses of the keys K make of the index
Used(ind, new, K) ==
  /\ IndexWell(new) /\ Grows(ind, new)
  /\ DOMAIN new.cache = DOMAIN ind.cache \union K
  /\ DOMAIN new.dic = DOMAIN ind.dic \union NamesIn(K)

WeightOf(ind, f) == [key \in DOMAIN ind.cache |-> ind.cache[key].count * Named(key, f)]

LEMMA OneMore ==
  ASSUME NEW c \in Int, NEW m \in Int
  PROVE  c * m \in Int /\ (c + 1) * m = c * m + m /\ 1 * m = m
BY SMT

LEMMA WeightedTotal ==
  ASSUME NEW ind, IndexWell(ind), NEW f
  PROVE  /\ Weighted(ind, f) = Total(WeightOf(ind, f), DOMAIN ind.cache)
         /\ \A key \in DOMAIN ind.cache : /\ WeightOf(ind, f)[key] = ind.cache[key].count * Named(key, f)
                                          /\ WeightOf(ind, f)[key] \in Int
         /\ Weighted(ind, f) \in Int
<1>1. Weighted(ind, f) = Total(WeightOf(ind, f), DOMAIN ind.cache)
  <2>1. Weighted(ind, f) = SumFunction(WeightOf(ind, f)) /\ DOMAIN WeightOf(ind, f) = DOMAIN ind.cache
    BY DEF Weighted, WeightOf
  <2> QED BY <2>1, SumIsTotal
<1>2. ASSUME NEW key \in DOMAIN ind.cache
      PROVE  /\ WeightOf(ind, f)[key] = ind.cache[key].count * Named(key, f)
             /\ WeightOf(ind, f)[key] \in Int
  <2>1. WeightOf(ind, f)[key] = ind.cache[key].count * Named(key, f)
    BY DEF WeightOf
  <2>2. ind.cache[key].count \in Int /\ key \in Keys
    <3>1. ind.cache[key].count \in Nat
      BY DEF IndexWell
    <3>2. key \in Keys
      BY DEF IndexWell
    <3> QED BY <3>1, <3>2
  <2>3. Named(key, f) \in Int
    BY <2>2, NamedType
  <2> QED BY <2>1, <2>2, <2>3, OneMore
<1>3. IsFiniteSet(DOMAIN ind.cache)
  BY DEF IndexWell
<1>4. Weighted(ind, f) \in Int
  BY <1>1, <1>2, <1>3, TotalType
<1> QED BY <1>1, <1>2, <1>4

LEMMA UseOldKey ==
  ASSUME NEW ind, IndexWell(ind), NEW key \in DOMAIN ind.cache, NEW new, new = Use(ind, key)
  PROVE  /\ Used(ind, new, {key})
         /\ \A f : Weighted(new, f) = Weighted(ind, f) + Named(key, f)
<1> DEFINE c == ind.cache[key].count
           cache == [k \in DOMAIN ind.cache |->
                       IF k = key THEN [vector |-> Vector(ind, key), count |-> c + 1] ELSE ind.cache[k]]
<1>1. new = [dic |-> ind.dic, maxid |-> ind.maxid, cache |-> cache]
  <2>1. new = [ind EXCEPT !.cache[key].count = @ + 1]
    BY DEF Use
  <2>2. ind = [dic |-> ind.dic, maxid |-> ind.maxid, cache |-> ind.cache]
    BY DEF IndexWell, IsIndex
  <2>3. new = [dic |-> ind.dic, maxid |-> ind.maxid,
               cache |-> [ind.cache EXCEPT ![key] = [ind.cache[key] EXCEPT !.count = @ + 1]]]
    BY <2>1, <2>2
  <2>4. [ind.cache[key] EXCEPT !.count = @ + 1] = [vector |-> Vector(ind, key), count |-> c + 1]
    <3>1. ind.cache[key] = [vector |-> Vector(ind, key), count |-> c]
      BY DEF IndexWell
    <3> QED BY <3>1
  <2>5. [ind.cache EXCEPT ![key] = [vector |-> Vector(ind, key), count |-> c + 1]] = cache
    OBVIOUS
  <2> QED BY <2>3, <2>4, <2>5
<1>2. /\ new.dic = ind.dic /\ new.maxid = ind.maxid /\ new.cache = cache /\ IsIndex(new)
      /\ DOMAIN new.cache = DOMAIN ind.cache
  BY <1>1 DEF IsIndex
<1>3. c \in Nat /\ ind.maxid \in Nat /\ key \in Keys
  BY DEF IndexWell, Dense
<1>4. \A k \in DOMAIN ind.cache : Vector(new, k) = Vector(ind, k)
  BY <1>2 DEF Vector
<1>5. IndexWell(new)
  <2>1. Dense(new)
    BY <1>2 DEF Dense, IndexWell
  <2>2. ASSUME NEW k \in DOMAIN new.cache
        PROVE  /\ new.cache[k] = [vector |-> Vector(new, k), count |-> new.cache[k].count]
               /\ new.cache[k].count \in Nat
               /\ Names(k) \subseteq DOMAIN new.dic
    <3>1. k \in DOMAIN ind.cache /\ Vector(new, k) = Vector(ind, k)
      BY <1>2, <1>4
    <3>2. Names(k) \subseteq DOMAIN new.dic
      BY <1>2, <3>1 DEF IndexWell
    <3>3. CASE k = key
      <4>1. new.cache[k] = [vector |-> Vector(ind, k), count |-> c + 1]
        BY <1>2, <3>1, <3>3
      <4> QED BY <1>3, <3>1, <3>2, <4>1
    <3>4. CASE k # key
      <4>1. new.cache[k] = ind.cache[k]
        BY <1>2, <3>1, <3>4
      <4> QED BY <3>1, <3>2, <4>1 DEF IndexWell
    <3> QED BY <3>3, <3>4
  <2> QED BY <1>2, <2>1, <2>2 DEF IndexWell
<1>6. Used(ind, new, {key})
  <2>1. Names(key) \subseteq DOMAIN ind.dic
    BY DEF IndexWell
  <2>2. Grows(ind, new)
    BY <1>2, <1>3 DEF Grows
  <2> QED BY <1>2, <1>5, <2>1, <2>2 DEF Used, NamesIn
<1>7. ASSUME NEW f PROVE Weighted(new, f) = Weighted(ind, f) + Named(key, f)
  <2>1. PICK a, b, d : a = WeightOf(ind, f) /\ b = WeightOf(new, f) /\ d = Named(key, f)
    OBVIOUS
  <2>2. PICK T : T = DOMAIN ind.cache
    OBVIOUS
  <2>3. Weighted(ind, f) = Total(a, T) /\ Weighted(new, f) = Total(b, T)
    BY <1>2, <1>5, <2>1, <2>2, WeightedTotal
  <2>4. d \in Int /\ IsFiniteSet(T) /\ key \in T
    BY <1>3, <2>1, <2>2, NamedType DEF IndexWell
  <2>5. ASSUME NEW k \in T PROVE a[k] \in Int /\ b[k] = IF k = key THEN a[k] + d ELSE a[k]
    <3>1. /\ a[k] \in Int /\ a[k] = ind.cache[k].count * Named(k, f)
          /\ b[k] = new.cache[k].count * Named(k, f)
      BY <1>2, <1>5, <2>1, <2>2, WeightedTotal
    <3>2. CASE k = key
      <4>1. new.cache[k].count = c + 1
        BY <1>2, <2>2, <3>2
      <4>2. b[k] = (c + 1) * d /\ a[k] = c * d
        BY <2>1, <3>1, <3>2, <4>1
      <4>3. (c + 1) * d = c * d + d
        BY <1>3, <2>4, OneMore
      <4> QED BY <3>1, <3>2, <4>2, <4>3
    <3>3. CASE k # key
      <4>1. new.cache[k] = ind.cache[k]
        BY <1>2, <2>2, <3>3
      <4> QED BY <3>1, <3>3, <4>1
    <3> QED BY <3>2, <3>3
  <2>6. Total(b, T) = Total(a, T) + d
    BY <2>4, <2>5, TotalChange
  <2> QED BY <2>1, <2>3, <2>6
<1> QED BY <1>6, <1>7

LEMMA UseNewKey ==
  ASSUME NEW ind, IndexWell(ind), NEW key \in Keys, key \notin DOMAIN ind.cache, NEW new, new = Use(ind, key)
  PROVE  /\ Used(ind, new, {key})
         /\ \A f : Weighted(new, f) = Weighted(ind, f) + Named(key, f)
<1>0. PICK named : named = AllNumbered(ind, FeaturesOf[key])
  OBVIOUS
<1>1. /\ IsIndex(named) /\ Dense(named) /\ named.cache = ind.cache /\ Grows(ind, named)
      /\ DOMAIN named.dic = DOMAIN ind.dic \union Names(key)
  <2>1. FeaturesOf[key] \in Seq(Features) /\ IsIndex(ind) /\ Dense(ind)
    BY NamedType DEF IndexWell
  <2> QED BY <1>0, <2>1, NamesExtend DEF Names
<1> DEFINE entry == [vector |-> Vector(named, key), count |-> 1]
<1>2. new = [dic |-> named.dic, maxid |-> named.maxid, cache |-> Extend(ind.cache, key, entry)]
  <2>1. new = [named EXCEPT !.cache = Extend(@, key, entry)]
    BY <1>0 DEF Use, AllNumbered, Vector
  <2>2. named = [dic |-> named.dic, maxid |-> named.maxid, cache |-> named.cache]
    BY <1>1 DEF IsIndex
  <2>3. new = [dic |-> named.dic, maxid |-> named.maxid, cache |-> Extend(named.cache, key, entry)]
    BY <2>1, <2>2
  <2> QED BY <1>1, <2>3
<1>3. /\ new.dic = named.dic /\ new.maxid = named.maxid /\ IsIndex(new)
      /\ DOMAIN new.cache = DOMAIN ind.cache \union {key} /\ new.cache[key] = entry
      /\ \A k \in DOMAIN ind.cache : new.cache[k] = ind.cache[k]
  <2>1. /\ new.dic = named.dic /\ new.maxid = named.maxid /\ new.cache = Extend(ind.cache, key, entry)
        /\ IsIndex(new)
    BY <1>2 DEF IsIndex
  <2> QED BY <2>1 DEF Extend
<1> HIDE DEF entry
<1>4. Vector(new, key) = Vector(named, key) /\ \A k \in DOMAIN ind.cache : Vector(new, k) = Vector(ind, k)
  <2>1. Vector(new, key) = Vector(named, key)
    BY <1>3 DEF Vector
  <2>2. ASSUME NEW k \in DOMAIN ind.cache PROVE Vector(new, k) = Vector(ind, k)
    <3>1. Names(k) \subseteq DOMAIN ind.dic
      BY DEF IndexWell
    <3>2. \A n \in DOMAIN FeaturesOf[k] : FeaturesOf[k][n] \in DOMAIN ind.dic
      BY <3>1 DEF Names
    <3>3. \A n \in DOMAIN FeaturesOf[k] : new.dic[FeaturesOf[k][n]] = ind.dic[FeaturesOf[k][n]]
      BY <1>1, <1>3, <3>2 DEF Grows
    <3> QED BY <3>3 DEF Vector
  <2> QED BY <2>1, <2>2
<1>5. IndexWell(new)
  <2>1. Dense(new)
    BY <1>1, <1>3 DEF Dense
  <2>2. ASSUME NEW k \in DOMAIN new.cache
        PROVE  /\ new.cache[k] = [vector |-> Vector(new, k), count |-> new.cache[k].count]
               /\ new.cache[k].count \in Nat
               /\ Names(k) \subseteq DOMAIN new.dic
    <3>1. CASE k = key
      <4>1. new.cache[k] = [vector |-> Vector(new, k), count |-> 1]
        BY <1>3, <1>4, <3>1 DEF entry
      <4>2. Names(k) \subseteq DOMAIN new.dic
        BY <1>1, <1>3, <3>1
      <4> QED BY <4>1, <4>2
    <3>2. CASE k # key
      <4>1. k \in DOMAIN ind.cache /\ new.cache[k] = ind.cache[k] /\ Vector(new, k) = Vector(ind, k)
        BY <1>3, <1>4, <3>2
      <4>2. DOMAIN ind.dic \subseteq DOMAIN new.dic
        BY <1>1, <1>3
      <4> QED BY <4>1, <4>2 DEF IndexWell
    <3> QED BY <3>1, <3>2
  <2>3. DOMAIN new.cache \in SUBSET Keys /\ IsFiniteSet(DOMAIN new.cache)
    BY <1>3, FS_AddElement DEF IndexWell
  <2> QED BY <1>3, <2>1, <2>2, <2>3 DEF IndexWell
<1>6. Used(ind, new, {key})
  <2>1. Grows(ind, new)
    BY <1>1, <1>3 DEF Grows
  <2>2. UNION { Names(k) : k \in {key} } = Names(key)
    OBVIOUS
  <2> QED BY <1>1, <1>3, <1>5, <2>1, <2>2 DEF Used, NamesIn
<1>7. ASSUME NEW f PROVE Weighted(new, f) = Weighted(ind, f) + Named(key, f)
  <2>1. PICK a, b, d : a = WeightOf(ind, f) /\ b = WeightOf(new, f) /\ d = Named(key, f)
    OBVIOUS
  <2>2. PICK T : T = DOMAIN ind.cache
    OBVIOUS
  <2>3. Weighted(ind, f) = Total(a, T) /\ Weighted(new, f) = Total(b, T \union {key})
    BY <1>3, <1>5, <2>1, <2>2, WeightedTotal
  <2>4. d \in Int /\ IsFiniteSet(T) /\ key \notin T
    BY <2>1, <2>2, NamedType DEF IndexWell
  <2>5. \A k \in T \union {key} : b[k] \in Int
    BY <1>3, <1>5, <2>1, <2>2, WeightedTotal
  <2>6. Total(b, T \union {key}) = Total(b, T) + b[key]
    BY <2>4, <2>5, TotalMore
  <2>7. b[key] = d
    <3>1. b[key] = new.cache[key].count * d
      BY <1>3, <1>5, <2>1, WeightedTotal
    <3>2. new.cache[key].count = 1
      BY <1>3 DEF entry
    <3> QED BY <2>4, <3>1, <3>2, OneMore
  <2>8. Total(b, T) = Total(a, T)
    <3>1. ASSUME NEW k \in T PROVE a[k] \in Int /\ b[k] = a[k]
      <4>1. a[k] \in Int /\ a[k] = ind.cache[k].count * Named(k, f)
        BY <2>1, <2>2, WeightedTotal
      <4>2. b[k] = new.cache[k].count * Named(k, f) /\ new.cache[k] = ind.cache[k]
        BY <1>3, <1>5, <2>1, <2>2, WeightedTotal
      <4> QED BY <4>1, <4>2
    <3> QED BY <2>4, <3>1, TotalSame
  <2> QED BY <2>1, <2>3, <2>6, <2>7, <2>8
<1> QED BY <1>6, <1>7


LEMMA UseExtends ==
  ASSUME NEW ind, IndexWell(ind), NEW key \in Keys, NEW new, new = Use(ind, key)
  PROVE  /\ Used(ind, new, {key})
         /\ \A f : Weighted(new, f) = Weighted(ind, f) + Named(key, f)
<1>1. CASE key \in DOMAIN ind.cache
  BY <1>1, UseOldKey
<1>2. CASE key \notin DOMAIN ind.cache
  BY <1>2, UseNewKey
<1> QED BY <1>1, <1>2

LEMMA UsedFurther ==
  ASSUME NEW a, NEW b, NEW c, NEW K, NEW L, IndexWell(a), Used(a, b, K), Used(b, c, L)
  PROVE  Used(a, c, K \union L)
<1>1. a.maxid \in Nat /\ b.maxid \in Nat /\ c.maxid \in Nat
  BY DEF Used, IndexWell, Dense
<1>2. Grows(a, c)
  BY <1>1, GrowsFurther DEF Used
<1>3. NamesIn(K \union L) = NamesIn(K) \union NamesIn(L)
  BY DEF NamesIn
<1> QED BY <1>2, <1>3 DEF Used

LEMMA BuildExtends ==
  ASSUME NEW ind, IndexWell(ind), NEW path, path.node \in Keys, path.link \in Keys,
         NEW new, new = BuildFeature(ind, path)
  PROVE  /\ Used(ind, new, {path.node, path.link})
         /\ \A f : Weighted(new, f) = Weighted(ind, f) + (Named(path.node, f) + Named(path.link, f))
<1>1. PICK half : half = Use(ind, path.node)
  OBVIOUS
<1>2. /\ Used(ind, half, {path.node})
      /\ \A f : Weighted(half, f) = Weighted(ind, f) + Named(path.node, f)
  BY <1>1, UseExtends
<1>3. IndexWell(half) /\ new = Use(half, path.link)
  BY <1>1, <1>2 DEF Used, BuildFeature
<1>4. /\ Used(half, new, {path.link})
      /\ \A f : Weighted(new, f) = Weighted(half, f) + Named(path.link, f)
  BY <1>3, UseExtends
<1>5. {path.node, path.link} = {path.node} \union {path.link}
  OBVIOUS
<1>6. Used(ind, new, {path.node, path.link})
  BY <1>2, <1>4, <1>5, UsedFurther
<1>7. ASSUME NEW f PROVE Weighted(new, f) = Weighted(ind, f) + (Named(path.node, f) + Named(path.link, f))
  <2>1. Weighted(ind, f) \in Int /\ Named(path.node, f) \in Int /\ Named(path.link, f) \in Int
    <3>1. Named(path.node, f) \in Nat /\ Named(path.link, f) \in Nat
      BY NamedType
    <3> QED BY <3>1, WeightedTotal
  <2>2. Weighted(half, f) = Weighted(ind, f) + Named(path.node, f) /\ Weighted(new, f) = Weighted(half, f) + Named(path.link, f)
    BY <1>2, <1>4
  <2> QED BY <2>1, <2>2
<1> QED BY <1>6, <1>7

\* the keys of the first paths of a sentence
KeysTo(sentence, k) == { sentence[n].node : n \in 1..k } \union { sentence[n].link : n \in 1..k }
KeysOf(sentence) == KeysTo(sentence, Len(sentence))

NamedIn(sentence, f) ==
  [n \in DOMAIN sentence |-> Named(sentence[n].node, f) + Named(sentence[n].link, f)]

LEMMA SentenceType ==
  ASSUME NEW sentence \in Sentence
  PROVE  /\ DOMAIN sentence = 1..Len(sentence) /\ Len(sentence) \in Nat /\ IsFiniteSet(DOMAIN sentence)
         /\ \A n \in DOMAIN sentence : /\ sentence[n].node \in Keys /\ sentence[n].link \in Keys
                                       /\ sentence[n].eos \in BOOLEAN /\ sentence[n].answer \in BOOLEAN
         /\ \A f : \A n \in DOMAIN sentence : NamedIn(sentence, f)[n] \in Nat
         /\ \A f : Total(NamedIn(sentence, f), DOMAIN sentence) \in Int
<1>1. DOMAIN sentence = 1..Len(sentence) /\ Len(sentence) \in Nat
  BY DEF Sentence
<1>2. IsFiniteSet(DOMAIN sentence)
  BY <1>1, FS_Interval
<1>3. ASSUME NEW n \in DOMAIN sentence
      PROVE  /\ sentence[n].node \in Keys /\ sentence[n].link \in Keys
             /\ sentence[n].eos \in BOOLEAN /\ sentence[n].answer \in BOOLEAN
  <2>1. PICK X : X = [node : Keys, link : Keys, eos : BOOLEAN, answer : BOOLEAN]
    OBVIOUS
  <2>2. sentence \in Seq(X)
    BY <2>1 DEF Sentence
  <2>3. sentence[n] \in X
    BY <1>1, <2>2
  <2> QED BY <2>1, <2>3
<1>4. \A f : \A n \in DOMAIN sentence : NamedIn(sentence, f)[n] \in Nat
  <2>1. ASSUME NEW f, NEW n \in DOMAIN sentence PROVE NamedIn(sentence, f)[n] \in Nat
    <3>1. Named(sentence[n].node, f) \in Nat /\ Named(sentence[n].link, f) \in Nat
      BY <1>3, NamedType
    <3> QED BY <3>1 DEF NamedIn
  <2> QED BY <2>1
<1>5. ASSUME NEW f PROVE Total(NamedIn(sentence, f), DOMAIN sentence) \in Int
  <2>1. \A n \in DOMAIN sentence : NamedIn(sentence, f)[n] \in Int
    BY <1>4
  <2> QED BY <1>2, <2>1, TotalType
<1> QED BY <1>1, <1>2, <1>3, <1>4, <1>5

LEMMA SentenceExtends ==
  ASSUME NEW ind, IndexWell(ind), NEW sentence \in Sentence, NEW new, new = AllBuilt(ind, sentence)
  PROVE  /\ Used(ind, new, KeysOf(sentence))
         /\ \A f : Weighted(new, f) = Weighted(ind, f) + Total(NamedIn(sentence, f), DOMAIN sentence)
<1>1. DOMAIN sentence = 1..Len(sentence) /\ Len(sentence) \in Nat
  BY SentenceType
<1>2. PICK run : /\ DOMAIN run = 0..Len(sentence) /\ run[0] = ind
                 /\ run[Len(sentence)] = AllBuilt(ind, sentence)
                 /\ \A k \in 1..Len(sentence) : run[k] = BuildFeature(run[k - 1], sentence[k])
  <2>1. sentence \in Seq([node : Keys, link : Keys, eos : BOOLEAN, answer : BOOLEAN])
    BY DEF Sentence
  <2> QED BY <2>1, BuildRuns
<1> DEFINE Good(k) == Used(ind, run[k], KeysTo(sentence, k))
           Step(k) == \A f : Weighted(run[k], f) = Weighted(run[k - 1], f) + NamedIn(sentence, f)[k]
           G == { k \in Nat : k <= Len(sentence) => Good(k) /\ (k # 0 => Step(k)) }
<1>3. 0 \in G
  <2>1. KeysTo(sentence, 0) = {}
    BY DEF KeysTo
  <2>2. ind.maxid \in Nat
    BY DEF IndexWell, Dense
  <2>3. Used(ind, ind, {})
    BY <2>2 DEF Used, Grows, NamesIn
  <2>4. Good(0)
    BY <1>2, <2>1, <2>3
  <2> QED BY <2>4
<1>4. ASSUME NEW k \in Nat, k \in G PROVE k + 1 \in G
  <2> SUFFICES ASSUME k + 1 <= Len(sentence) PROVE Good(k + 1) /\ Step(k + 1)
    <3> HIDE DEF Good, Step
    <3> QED OBVIOUS
  <2>1. k + 1 \in 1..Len(sentence) /\ (k + 1) - 1 = k /\ k <= Len(sentence)
    BY <1>1
  <2>2. Good(k)
    <3> HIDE DEF Good, Step
    <3> QED BY <1>4, <2>1
  <2>3. PICK path : path = sentence[k + 1]
    OBVIOUS
  <2>4. path.node \in Keys /\ path.link \in Keys
    BY <1>1, <2>1, <2>3, SentenceType
  <2>5. PICK a, b : a = run[k] /\ b = run[k + 1]
    OBVIOUS
  <2>6. b = BuildFeature(a, path) /\ IndexWell(a)
    BY <1>2, <2>1, <2>2, <2>3, <2>5 DEF Used
  <2>7. /\ Used(a, b, {path.node, path.link})
        /\ \A f : Weighted(b, f) = Weighted(a, f) + (Named(path.node, f) + Named(path.link, f))
    BY <2>4, <2>6, BuildExtends
  <2>8. KeysTo(sentence, k + 1) = KeysTo(sentence, k) \union {path.node, path.link}
    <3>1. 1..k + 1 = (1..k) \union {k + 1}
      OBVIOUS
    <3> QED BY <2>3, <3>1 DEF KeysTo
  <2>9. Good(k + 1)
    <3>1. Used(ind, a, KeysTo(sentence, k))
      BY <2>2, <2>5
    <3>2. Used(ind, b, KeysTo(sentence, k) \union {path.node, path.link})
      BY <2>7, <3>1, UsedFurther
    <3> QED BY <2>5, <2>8, <3>2
  <2>10. Step(k + 1)
    <3>1. \A f : NamedIn(sentence, f)[k + 1] = Named(path.node, f) + Named(path.link, f)
      BY <1>1, <2>1, <2>3 DEF NamedIn
    <3> QED BY <2>1, <2>5, <2>7, <3>1
  <2> QED BY <2>9, <2>10
<1>5. Nat \subseteq G
  <2> HIDE DEF G
  <2> QED BY <1>3, <1>4, NatSetInduction
<1>6. \A k \in 0..Len(sentence) : Good(k) /\ (k # 0 => Step(k))
  <2> HIDE DEF Good, Step
  <2> QED BY <1>5
<1>7. Used(ind, new, KeysOf(sentence))
  <2>1. Good(Len(sentence))
    <3> HIDE DEF Good, Step
    <3> QED BY <1>1, <1>6
  <2> QED BY <1>2, <2>1 DEF KeysOf
<1>8. ASSUME NEW f PROVE Weighted(new, f) = Weighted(ind, f) + Total(NamedIn(sentence, f), DOMAIN sentence)
  <2>1. PICK v : v = [k \in 0..Len(sentence) |-> Weighted(run[k], f)]
    OBVIOUS
  <2>2. PICK g : g = NamedIn(sentence, f)
    OBVIOUS
  <2>3. v[0] = Weighted(ind, f) /\ v[Len(sentence)] = Weighted(new, f)
    BY <1>1, <1>2, <2>1
  <2>4. v[0] \in Int
    BY <2>3, WeightedTotal
  <2>5. ASSUME NEW k \in 1..Len(sentence) PROVE g[k] \in Int /\ v[k] = v[k - 1] + g[k]
    <3>1. Step(k)
      <4>1. k \in 0..Len(sentence) /\ k # 0
        BY <1>1
      <4> HIDE DEF Good, Step
      <4> QED BY <1>6, <4>1
    <3>2. Weighted(run[k], f) = Weighted(run[k - 1], f) + g[k]
      BY <2>2, <3>1
    <3>3. v[k] = Weighted(run[k], f) /\ v[k - 1] = Weighted(run[k - 1], f)
      BY <1>1, <2>1
    <3>4. g[k] \in Int
      BY <1>1, <2>2, SentenceType
    <3> QED BY <3>2, <3>3, <3>4
  <2>6. v[Len(sentence)] = v[0] + Total(g, 1..Len(sentence))
    BY <1>1, <2>4, <2>5, TotalSteps
  <2> QED BY <1>1, <2>2, <2>3, <2>6
<1> QED BY <1>7, <1>8

-----------------------------------------------------------------------------
(* Counting: the frequency of a number is that of its feature, and what an *)
(* answer adds to the observed counts is that of its paths.                *)

LEMMA VectorCounts ==
  ASSUME NEW ind, IndexWell(ind), NEW key \in DOMAIN ind.cache, NEW f \in DOMAIN ind.dic
  PROVE  Occurrences(ind.cache[key].vector, ind.dic[f]) = Named(key, f)
<1>1. ind.cache[key].vector = Vector(ind, key) /\ Names(key) \subseteq DOMAIN ind.dic
  <2>1. PICK entry : entry = ind.cache[key]
    OBVIOUS
  <2>2. entry = [vector |-> Vector(ind, key), count |-> entry.count]
    BY <2>1 DEF IndexWell
  <2>3. entry.vector = Vector(ind, key)
    BY <2>2
  <2> QED BY <2>1, <2>3 DEF IndexWell
<1>2. DOMAIN Vector(ind, key) = DOMAIN FeaturesOf[key]
  BY DEF Vector
<1>3. \A n \in DOMAIN FeaturesOf[key] : Vector(ind, key)[n] = ind.dic[f] <=> FeaturesOf[key][n] = f
  <2> SUFFICES ASSUME NEW n \in DOMAIN FeaturesOf[key]
               PROVE  Vector(ind, key)[n] = ind.dic[f] <=> FeaturesOf[key][n] = f
    OBVIOUS
  <2>1. Vector(ind, key)[n] = ind.dic[FeaturesOf[key][n]]
    BY DEF Vector
  <2>2. FeaturesOf[key][n] \in DOMAIN ind.dic
    BY <1>1 DEF Names
  <2> QED BY <2>1, <2>2 DEF IndexWell, Dense
<1>4. { n \in DOMAIN Vector(ind, key) : Vector(ind, key)[n] = ind.dic[f] }
        = { n \in DOMAIN FeaturesOf[key] : FeaturesOf[key][n] = f }
  BY <1>2, <1>3
<1> QED BY <1>1, <1>4 DEF Occurrences, Named

LEMMA FrequencyIsWeighted ==
  ASSUME NEW ind, IndexWell(ind), NEW f \in DOMAIN ind.dic
  PROVE  Frequency(ind, ind.dic[f]) = Weighted(ind, f)
<1>1. [key \in DOMAIN ind.cache |-> ind.cache[key].count * Occurrences(ind.cache[key].vector, ind.dic[f])]
        = [key \in DOMAIN ind.cache |-> ind.cache[key].count * Named(key, f)]
  BY VectorCounts
<1> QED BY <1>1 DEF Frequency, Weighted

\* what the paths of the answer add to the count of a feature
AnsweredIn(sentence, f) ==
  [n \in DOMAIN sentence |->
     IF ~ sentence[n].answer THEN 0
     ELSE Named(sentence[n].link, f) + IF sentence[n].eos THEN 0 ELSE Named(sentence[n].node, f)]

LEMMA AnsweredType ==
  ASSUME NEW sentence \in Sentence, NEW f
  PROVE  /\ \A n \in DOMAIN sentence : AnsweredIn(sentence, f)[n] \in Int
         /\ Total(AnsweredIn(sentence, f), DOMAIN sentence) \in Int
         /\ f \notin NamesIn(KeysOf(sentence)) =>
              /\ Total(AnsweredIn(sentence, f), DOMAIN sentence) = 0
              /\ Total(NamedIn(sentence, f), DOMAIN sentence) = 0
<1>1. ASSUME NEW n \in DOMAIN sentence PROVE AnsweredIn(sentence, f)[n] \in Int
  <2>1. Named(sentence[n].node, f) \in Nat /\ Named(sentence[n].link, f) \in Nat
    BY SentenceType, NamedType
  <2> QED BY <2>1 DEF AnsweredIn
<1>2. Total(AnsweredIn(sentence, f), DOMAIN sentence) \in Int
  BY <1>1, SentenceType, TotalType
<1>3. ASSUME f \notin NamesIn(KeysOf(sentence))
      PROVE  /\ Total(AnsweredIn(sentence, f), DOMAIN sentence) = 0
             /\ Total(NamedIn(sentence, f), DOMAIN sentence) = 0
  <2>1. ASSUME NEW n \in DOMAIN sentence
        PROVE  Named(sentence[n].node, f) = 0 /\ Named(sentence[n].link, f) = 0
    <3>1. sentence[n].node \in KeysOf(sentence) /\ sentence[n].link \in KeysOf(sentence)
      BY SentenceType DEF KeysOf, KeysTo
    <3>2. f \notin Names(sentence[n].node) /\ f \notin Names(sentence[n].link)
      BY <1>3, <3>1 DEF NamesIn
    <3> QED BY <3>2, SentenceType, NamedType
  <2>2. \A n \in DOMAIN sentence : AnsweredIn(sentence, f)[n] = 0 /\ NamedIn(sentence, f)[n] = 0
    BY <2>1 DEF AnsweredIn, NamedIn
  <2> QED BY <2>2, SentenceType, TotalZero
<1> QED BY <1>1, <1>2, <1>3

LEMMA AnswerCounts ==
  ASSUME NEW ind, IndexWell(ind), NEW sentence \in Sentence, KeysOf(sentence) \subseteq DOMAIN ind.cache,
         NEW f \in DOMAIN ind.dic
  PROVE  Count(ind, Answer(sentence))[ind.dic[f]] = Total(AnsweredIn(sentence, f), DOMAIN sentence)
<1>1. PICK S : S = { n \in DOMAIN sentence : sentence[n].answer }
  OBVIOUS
<1>2. DOMAIN Answer(sentence) = S /\ \A n \in S : Answer(sentence)[n] = sentence[n]
  BY <1>1 DEF Answer, Restrict
<1>3. PICK g : g = [n \in S |-> PathCount(ind, sentence[n], ind.dic[f])]
  OBVIOUS
<1>4. [n \in DOMAIN Answer(sentence) |-> PathCount(ind, Answer(sentence)[n], ind.dic[f])] = g
  BY <1>2, <1>3
<1>5. Count(ind, Answer(sentence))[ind.dic[f]] = Total(g, S)
  <2>1. ind.dic[f] \in 0 .. ind.maxid - 1
    BY DEF IndexWell, Dense
  <2>2. Count(ind, Answer(sentence))[ind.dic[f]] = SumFunction(g)
    BY <1>4, <2>1 DEF Count
  <2> QED BY <1>3, <2>2, SumIsTotal
<1>6. PICK h : h = AnsweredIn(sentence, f)
  OBVIOUS
<1>7. ASSUME NEW n \in DOMAIN sentence PROVE h[n] \in Int /\ h[n] = IF n \in S THEN g[n] ELSE 0
  <2>1. h[n] \in Int
    BY <1>6, AnsweredType
  <2>2. CASE n \in S
    <3>1. sentence[n].node \in DOMAIN ind.cache /\ sentence[n].link \in DOMAIN ind.cache
      BY SentenceType DEF KeysOf, KeysTo
    <3>2. /\ Occurrences(ind.cache[sentence[n].node].vector, ind.dic[f]) = Named(sentence[n].node, f)
          /\ Occurrences(ind.cache[sentence[n].link].vector, ind.dic[f]) = Named(sentence[n].link, f)
      BY <3>1, VectorCounts
    <3>3. g[n] = Named(sentence[n].link, f) + IF sentence[n].eos THEN 0 ELSE Named(sentence[n].node, f)
      BY <1>3, <2>2, <3>2 DEF PathCount
    <3>4. h[n] = Named(sentence[n].link, f) + IF sentence[n].eos THEN 0 ELSE Named(sentence[n].node, f)
      BY <1>1, <1>6, <2>2 DEF AnsweredIn
    <3> QED BY <2>1, <2>2, <3>3, <3>4
  <2>3. CASE n \notin S
    BY <1>1, <1>6, <2>1, <2>3 DEF AnsweredIn
  <2> QED BY <2>2, <2>3
<1>8. S \in SUBSET DOMAIN sentence /\ IsFiniteSet(DOMAIN sentence)
  BY <1>1, SentenceType
<1>9. Total(h, DOMAIN sentence) = Total(g, S)
  BY <1>7, <1>8, TotalPart
<1> QED BY <1>5, <1>6, <1>9

KeysIn(xs) == UNION { KeysOf(xs[s]) : s \in DOMAIN xs }
UsesIn(xs, f) == [s \in DOMAIN xs |-> Total(NamedIn(xs[s], f), DOMAIN xs[s])]
AnswersIn(xs, f) == [s \in DOMAIN xs |-> Total(AnsweredIn(xs[s], f), DOMAIN xs[s])]

LEMMA CountsType ==
  ASSUME NEW xs \in Seq(Sentence), NEW f
  PROVE  /\ IsFiniteSet(DOMAIN xs)
         /\ \A s \in DOMAIN xs : xs[s] \in Sentence
         /\ \A s \in DOMAIN xs : UsesIn(xs, f)[s] \in Int /\ AnswersIn(xs, f)[s] \in Int
         /\ Total(UsesIn(xs, f), DOMAIN xs) \in Int /\ Total(AnswersIn(xs, f), DOMAIN xs) \in Int
         /\ f \notin NamesIn(KeysIn(xs)) =>
              Total(UsesIn(xs, f), DOMAIN xs) = 0 /\ Total(AnswersIn(xs, f), DOMAIN xs) = 0
<1>1. IsFiniteSet(DOMAIN xs)
  <2>1. DOMAIN xs = 1..Len(xs) /\ Len(xs) \in Nat
    OBVIOUS
  <2> QED BY <2>1, FS_Interval
<1>2. \A s \in DOMAIN xs : xs[s] \in Sentence
  OBVIOUS
<1>3. \A s \in DOMAIN xs : UsesIn(xs, f)[s] \in Int /\ AnswersIn(xs, f)[s] \in Int
  BY <1>2, SentenceType, AnsweredType DEF UsesIn, AnswersIn
<1>4. Total(UsesIn(xs, f), DOMAIN xs) \in Int /\ Total(AnswersIn(xs, f), DOMAIN xs) \in Int
  BY <1>1, <1>3, TotalType
<1>5. ASSUME f \notin NamesIn(KeysIn(xs))
      PROVE  Total(UsesIn(xs, f), DOMAIN xs) = 0 /\ Total(AnswersIn(xs, f), DOMAIN xs) = 0
  <2>1. ASSUME NEW s \in DOMAIN xs PROVE UsesIn(xs, f)[s] = 0 /\ AnswersIn(xs, f)[s] = 0
    <3>1. f \notin NamesIn(KeysOf(xs[s]))
      BY <1>5 DEF NamesIn, KeysIn
    <3> QED BY <1>2, <3>1, AnsweredType DEF UsesIn, AnswersIn
  <2> QED BY <1>1, <2>1, TotalZero
<1> QED BY <1>1, <1>2, <1>3, <1>4, <1>5

LEMMA CountsAppend ==
  ASSUME NEW xs \in Seq(Sentence), NEW sentence \in Sentence
  PROVE  /\ KeysIn(Append(xs, sentence)) = KeysIn(xs) \union KeysOf(sentence)
         /\ \A f : Total(UsesIn(Append(xs, sentence), f), DOMAIN Append(xs, sentence))
                     = Total(UsesIn(xs, f), DOMAIN xs) + Total(NamedIn(sentence, f), DOMAIN sentence)
         /\ \A f : Total(AnswersIn(Append(xs, sentence), f), DOMAIN Append(xs, sentence))
                     = Total(AnswersIn(xs, f), DOMAIN xs) + Total(AnsweredIn(sentence, f), DOMAIN sentence)
<1>0. PICK new : new = Append(xs, sentence)
  OBVIOUS
<1>t. PICK m, T, D : m = Len(xs) + 1 /\ T = DOMAIN xs /\ D = DOMAIN new
  OBVIOUS
<1>1. /\ D = DOMAIN new /\ D = T \union {m} /\ m \notin T /\ new[m] = sentence /\ T = DOMAIN xs /\ IsFiniteSet(T)
      /\ \A s \in DOMAIN xs : new[s] = xs[s]
  <2>1. DOMAIN xs = 1..Len(xs) /\ Len(xs) \in Nat /\ DOMAIN new = 1..Len(xs) + 1
    BY <1>0
  <2>2. IsFiniteSet(T)
    BY <1>t, CountsType
  <2> QED BY <1>0, <1>t, <2>1, <2>2
<1>2. KeysIn(new) = KeysIn(xs) \union KeysOf(sentence)
  <2>1. KeysIn(new) = UNION { KeysOf(new[s]) : s \in T \union {m} }
    BY <1>1 DEF KeysIn
  <2>2. { KeysOf(new[s]) : s \in T \union {m} } = { KeysOf(xs[s]) : s \in DOMAIN xs } \union {KeysOf(sentence)}
    BY <1>1
  <2> QED BY <2>1, <2>2 DEF KeysIn
<1>3. ASSUME NEW f
      PROVE  Total(UsesIn(new, f), DOMAIN new)
               = Total(UsesIn(xs, f), DOMAIN xs) + Total(NamedIn(sentence, f), DOMAIN sentence)
  <2>1. PICK g, h : g = UsesIn(xs, f) /\ h = UsesIn(new, f)
    OBVIOUS
  <2>2. /\ \A s \in T : g[s] \in Int /\ h[s] = g[s]
        /\ h[m] = Total(NamedIn(sentence, f), DOMAIN sentence)
    BY <1>1, <2>1, CountsType DEF UsesIn
  <2>3. h[m] \in Int
    BY <2>2, SentenceType
  <2>4. Total(h, D) = Total(g, T) + h[m]
    <3>1. IsFiniteSet(T) /\ m \notin T /\ D = T \union {m}
      BY <1>1
    <3>2. \A s \in T : g[s] \in Int /\ h[s] = g[s]
      BY <2>2
    <3>3. \A s \in T \union {m} : h[s] \in Int
      BY <2>3, <3>2
    <3>4. Total(h, T \union {m}) = Total(h, T) + h[m]
      BY <3>1, <3>3, TotalMore
    <3>5. Total(h, T) = Total(g, T)
      BY <3>1, <3>2, TotalSame
    <3> QED BY <3>1, <3>4, <3>5
  <2> QED BY <1>1, <2>1, <2>2, <2>4
<1>4. ASSUME NEW f
      PROVE  Total(AnswersIn(new, f), DOMAIN new)
               = Total(AnswersIn(xs, f), DOMAIN xs) + Total(AnsweredIn(sentence, f), DOMAIN sentence)
  <2>1. PICK g, h : g = AnswersIn(xs, f) /\ h = AnswersIn(new, f)
    OBVIOUS
  <2>2. /\ \A s \in T : g[s] \in Int /\ h[s] = g[s]
        /\ h[m] = Total(AnsweredIn(sentence, f), DOMAIN sentence)
    BY <1>1, <2>1, CountsType DEF AnswersIn
  <2>3. h[m] \in Int
    BY <2>2, AnsweredType
  <2>4. Total(h, D) = Total(g, T) + h[m]
    <3>1. IsFiniteSet(T) /\ m \notin T /\ D = T \union {m}
      BY <1>1
    <3>2. \A s \in T : g[s] \in Int /\ h[s] = g[s]
      BY <2>2
    <3>3. \A s \in T \union {m} : h[s] \in Int
      BY <2>3, <3>2
    <3>4. Total(h, T \union {m}) = Total(h, T) + h[m]
      BY <3>1, <3>3, TotalMore
    <3>5. Total(h, T) = Total(g, T)
      BY <3>1, <3>2, TotalSame
    <3> QED BY <3>1, <3>4, <3>5
  <2> QED BY <1>1, <2>1, <2>2, <2>4
<1> QED BY <1>0, <1>1, <1>2, <1>3, <1>4

-----------------------------------------------------------------------------
(* Reading: the index and the observed counts are those of the sentences   *)
(* read so far.                                                            *)

Indexed(ind, xs, names) ==
  /\ IndexWell(ind)
  /\ DOMAIN ind.cache = KeysIn(xs)
  /\ DOMAIN ind.dic = NamesIn(KeysIn(xs)) \union names
  /\ \A f \in Features : Weighted(ind, f) = Total(UsesIn(xs, f), DOMAIN xs)

Observed(ind, xs, obs) ==
  /\ (xs = <<>> /\ obs = Zero(0)) \/ DOMAIN obs = 0 .. ind.maxid - 1
  /\ \A f \in DOMAIN ind.dic :
       Resized(obs, ind.maxid)[ind.dic[f]] = Total(AnswersIn(xs, f), DOMAIN xs)

LEMMA NamesType ==
  ASSUME NEW K \in SUBSET Keys
  PROVE  NamesIn(K) \subseteq Features
<1> SUFFICES ASSUME NEW key \in K, NEW n \in DOMAIN FeaturesOf[key]
             PROVE  FeaturesOf[key][n] \in Features
  BY DEF NamesIn, Names
<1>1. FeaturesOf[key] \in Seq(Features)
  BY NamedType
<1> QED BY <1>1

LEMMA KeysType ==
  ASSUME NEW xs \in Seq(Sentence)
  PROVE  KeysIn(xs) \in SUBSET Keys
<1> SUFFICES ASSUME NEW s \in DOMAIN xs PROVE KeysOf(xs[s]) \subseteq Keys
  BY DEF KeysIn
<1>1. xs[s] \in Sentence
  OBVIOUS
<1> QED BY <1>1, SentenceType DEF KeysOf, KeysTo

LEMMA ReadIndexes ==
  ASSUME NEW xs \in Seq(Sentence), NEW names \in SUBSET Features, NEW ind, Indexed(ind, xs, names),
         NEW sentence \in Sentence, NEW new, new = AllBuilt(ind, sentence)
  PROVE  /\ Indexed(new, Append(xs, sentence), names) /\ Grows(ind, new)
         /\ KeysOf(sentence) \subseteq DOMAIN new.cache
<1>1. IndexWell(ind)
  BY DEF Indexed
<1>2. /\ Used(ind, new, KeysOf(sentence))
      /\ \A f : Weighted(new, f) = Weighted(ind, f) + Total(NamedIn(sentence, f), DOMAIN sentence)
  BY <1>1, SentenceExtends
<1>3. PICK ys : ys = Append(xs, sentence)
  OBVIOUS
<1>4. /\ KeysIn(ys) = KeysIn(xs) \union KeysOf(sentence)
      /\ \A f : Total(UsesIn(ys, f), DOMAIN ys)
                  = Total(UsesIn(xs, f), DOMAIN xs) + Total(NamedIn(sentence, f), DOMAIN sentence)
  <2>1. /\ KeysIn(Append(xs, sentence)) = KeysIn(xs) \union KeysOf(sentence)
        /\ \A f : Total(UsesIn(Append(xs, sentence), f), DOMAIN Append(xs, sentence))
                    = Total(UsesIn(xs, f), DOMAIN xs) + Total(NamedIn(sentence, f), DOMAIN sentence)
    BY CountsAppend, Zenon
  <2> QED BY <1>3, <2>1, Zenon
<1>5. NamesIn(KeysIn(ys)) = NamesIn(KeysIn(xs)) \union NamesIn(KeysOf(sentence))
  BY <1>4 DEF NamesIn
<1>6. \A f \in Features : Weighted(new, f) = Total(UsesIn(ys, f), DOMAIN ys)
  BY <1>2, <1>4 DEF Indexed
<1> QED BY <1>2, <1>3, <1>4, <1>5, <1>6 DEF Used, Indexed

LEMMA ReadObserves ==
  ASSUME NEW xs \in Seq(Sentence), NEW names \in SUBSET Features, NEW ind, Indexed(ind, xs, names),
         NEW sentence \in Sentence, NEW new, new = AllBuilt(ind, sentence),
         NEW obs, Observed(ind, xs, obs)
  PROVE  Observed(new, Append(xs, sentence), Plus(Resized(obs, new.maxid), Count(new, Answer(sentence))))
<1>1. /\ Indexed(new, Append(xs, sentence), names) /\ Grows(ind, new)
      /\ KeysOf(sentence) \subseteq DOMAIN new.cache
  BY ReadIndexes
<1>2. IndexWell(ind) /\ Dense(ind) /\ IndexWell(new) /\ Dense(new)
  BY <1>1 DEF Indexed, IndexWell
<1>3. ind.maxid \in Nat /\ new.maxid \in Nat /\ ind.maxid <= new.maxid
  BY <1>1, <1>2 DEF Dense, Grows
<1>4. PICK last : last = Plus(Resized(obs, new.maxid), Count(new, Answer(sentence)))
  OBVIOUS
<1>5. PICK ys : ys = Append(xs, sentence)
  OBVIOUS
<1>6. DOMAIN last = 0 .. new.maxid - 1
  BY <1>4 DEF Plus, Resized
<1>7. \A n \in DOMAIN obs : n \in 0 .. ind.maxid - 1
  <2>1. DOMAIN Zero(0) = {}
    BY DEF Zero
  <2> QED BY <2>1 DEF Observed
<1>8. ASSUME NEW f \in DOMAIN new.dic
      PROVE  Resized(last, new.maxid)[new.dic[f]] = Total(AnswersIn(ys, f), DOMAIN ys)
  <2>1. PICK id : id = new.dic[f]
    OBVIOUS
  <2>2. id \in 0 .. new.maxid - 1
    BY <1>2, <2>1 DEF Dense
  <2>3. Resized(last, new.maxid)[id] = Resized(obs, new.maxid)[id] + Count(new, Answer(sentence))[id]
    <3>1. Resized(last, new.maxid)[id] = last[id]
      BY <1>6, <2>2 DEF Resized
    <3>2. last[id] = Resized(obs, new.maxid)[id] + Count(new, Answer(sentence))[id]
      BY <1>4, <2>2 DEF Plus, Resized
    <3> QED BY <3>1, <3>2
  <2>4. Count(new, Answer(sentence))[id] = Total(AnsweredIn(sentence, f), DOMAIN sentence)
    BY <1>1, <1>2, <2>1, AnswerCounts
  <2>5. Resized(obs, new.maxid)[id] = Total(AnswersIn(xs, f), DOMAIN xs)
    <3>1. Resized(obs, new.maxid)[id] = IF id \in DOMAIN obs THEN obs[id] ELSE 0
      BY <2>2 DEF Resized
    <3>2. CASE f \in DOMAIN ind.dic
      <4>1. id = ind.dic[f] /\ id \in 0 .. ind.maxid - 1
        BY <1>1, <1>2, <2>1, <3>2 DEF Grows, Dense
      <4>2. Resized(obs, ind.maxid)[id] = IF id \in DOMAIN obs THEN obs[id] ELSE 0
        BY <4>1 DEF Resized
      <4>3. Resized(obs, ind.maxid)[ind.dic[f]] = Total(AnswersIn(xs, f), DOMAIN xs)
        BY <3>2 DEF Observed
      <4> QED BY <3>1, <4>1, <4>2, <4>3
    <3>3. CASE f \notin DOMAIN ind.dic
      <4>1. id \notin 0 .. ind.maxid - 1
        <5> SUFFICES ASSUME id \in 0 .. ind.maxid - 1 PROVE FALSE
          OBVIOUS
        <5>1. PICK g \in DOMAIN ind.dic : ind.dic[g] = id
          BY <1>2 DEF Dense
        <5>2. g \in DOMAIN new.dic /\ new.dic[g] = id
          BY <1>1, <5>1 DEF Grows
        <5>3. g = f
          BY <1>2, <2>1, <5>2 DEF Dense
        <5> QED BY <3>3, <5>1, <5>3
      <4>2. id \notin DOMAIN obs
        BY <1>7, <4>1
      <4>3. f \notin NamesIn(KeysIn(xs))
        BY <3>3 DEF Indexed
      <4>4. Total(AnswersIn(xs, f), DOMAIN xs) = 0
        BY <4>3, CountsType
      <4> QED BY <3>1, <4>2, <4>4
    <3> QED BY <3>2, <3>3
  <2>6. Total(AnswersIn(ys, f), DOMAIN ys)
          = Total(AnswersIn(xs, f), DOMAIN xs) + Total(AnsweredIn(sentence, f), DOMAIN sentence)
    <3>1. Total(AnswersIn(Append(xs, sentence), f), DOMAIN Append(xs, sentence))
            = Total(AnswersIn(xs, f), DOMAIN xs) + Total(AnsweredIn(sentence, f), DOMAIN sentence)
      BY CountsAppend, Zenon
    <3> QED BY <1>5, <3>1, Zenon
  <2> QED BY <2>1, <2>3, <2>4, <2>5, <2>6
<1> QED BY <1>4, <1>5, <1>6, <1>8 DEF Observed

\* the old model, reopened
LEMMA ReopenIndexes ==
  ASSUME NEW saved \in OldModels, NEW ind, ind = Reopen(saved), NEW names,
         names = { saved[n].feature : n \in DOMAIN saved }
  PROVE  /\ Indexed(ind, <<>>, names) /\ Observed(ind, <<>>, Zero(0)) /\ names \in SUBSET Features
         /\ \A n \in DOMAIN saved : ind.dic[saved[n].feature] = n - 1
<1>1. PICK X : X = [feature : Features, weight : Int]
  OBVIOUS
<1>2. /\ saved \in Seq(X)
      /\ \A m, n \in DOMAIN saved : saved[m].feature = saved[n].feature => m = n
  BY <1>1, TrainingAssumption
<1>3. DOMAIN saved = 1..Len(saved) /\ Len(saved) \in Nat
  BY <1>2
<1>4. names \in SUBSET Features
  <2>1. \A n \in DOMAIN saved : saved[n] \in X
    BY <1>2, <1>3
  <2> QED BY <1>1, <2>1
<1>5. /\ ind.maxid = Len(saved) /\ ind.cache = NoFunction /\ IsIndex(ind)
      /\ ind.dic = [f \in names |->
                      CHOOSE i \in 0 .. Len(saved) - 1 :
                        /\ saved[i + 1].feature = f
                        /\ \A j \in 0 .. i - 1 : saved[j + 1].feature # f]
  BY DEF Reopen, NewIndex, IsIndex
<1>6. ASSUME NEW n \in DOMAIN saved PROVE ind.dic[saved[n].feature] = n - 1
  <2>1. PICK f : f = saved[n].feature
    OBVIOUS
  <2>2. \A i \in 0 .. Len(saved) - 1 :
          (saved[i + 1].feature = f /\ \A j \in 0 .. i - 1 : saved[j + 1].feature # f) <=> i = n - 1
    <3>1. n - 1 \in 0 .. Len(saved) - 1 /\ n = (n - 1) + 1
      BY <1>3
    <3>2. \A i \in 0 .. Len(saved) - 1 : saved[i + 1].feature = f => i = n - 1
      <4>1. \A i \in 0 .. Len(saved) - 1 : i + 1 \in DOMAIN saved
        BY <1>3
      <4>2. \A i \in 0 .. Len(saved) - 1 : saved[i + 1].feature = f => i + 1 = n
        BY <1>2, <2>1, <4>1
      <4> QED BY <1>3, <4>2
    <3>3. \A j \in 0 .. (n - 1) - 1 : saved[j + 1].feature # f
      BY <1>3, <3>2
    <3> QED BY <2>1, <3>1, <3>2, <3>3
  <2>3. n - 1 \in 0 .. Len(saved) - 1
    BY <1>3
  <2>4. f \in names
    BY <2>1
  <2>5. ind.dic[f] = CHOOSE i \in 0 .. Len(saved) - 1 :
                       saved[i + 1].feature = f /\ \A j \in 0 .. i - 1 : saved[j + 1].feature # f
    BY <1>5, <2>4
  <2>6. ind.dic[f] = n - 1
    BY <2>2, <2>3, <2>5
  <2> QED BY <2>1, <2>6
<1>7. Dense(ind)
  <2>1. DOMAIN ind.dic = names
    BY <1>5
  <2>2. \A f \in names : ind.dic[f] \in 0 .. ind.maxid - 1
    <3> SUFFICES ASSUME NEW n \in DOMAIN saved PROVE n - 1 \in 0 .. ind.maxid - 1
      BY <1>6
    <3> QED BY <1>3, <1>5
  <2>3. \A f, g \in names : ind.dic[f] = ind.dic[g] => f = g
    <3> SUFFICES ASSUME NEW m \in DOMAIN saved, NEW n \in DOMAIN saved, m - 1 = n - 1
                 PROVE  saved[m].feature = saved[n].feature
      BY <1>6
    <3> QED BY <1>3
  <2>4. \A i \in 0 .. ind.maxid - 1 : \E f \in names : ind.dic[f] = i
    <3> SUFFICES ASSUME NEW i \in 0 .. ind.maxid - 1 PROVE \E f \in names : ind.dic[f] = i
      OBVIOUS
    <3>1. i + 1 \in DOMAIN saved /\ (i + 1) - 1 = i
      BY <1>3, <1>5
    <3> QED BY <1>6, <3>1
  <2> QED BY <1>3, <1>5, <2>1, <2>2, <2>3, <2>4 DEF Dense
<1>8. KeysIn(<<>>) = {} /\ NamesIn({}) = {} /\ DOMAIN <<>> = {}
  BY DEF KeysIn, NamesIn
<1>9. IndexWell(ind)
  <2>1. DOMAIN ind.cache = {} /\ IsFiniteSet({})
    BY <1>5, FS_EmptySet DEF NoFunction
  <2> QED BY <1>5, <1>7, <2>1 DEF IndexWell
<1>10. \A f : Weighted(ind, f) = 0 /\ Total(UsesIn(<<>>, f), {}) = 0 /\ Total(AnswersIn(<<>>, f), {}) = 0
  <2>1. DOMAIN ind.cache = {}
    BY <1>5 DEF NoFunction
  <2> QED BY <1>9, <2>1, WeightedTotal, TotalEmpty
<1>11. Indexed(ind, <<>>, names)
  <2>1. DOMAIN ind.dic = names /\ DOMAIN ind.cache = {}
    BY <1>5 DEF NoFunction
  <2> QED BY <1>8, <1>9, <1>10, <2>1 DEF Indexed
<1>12. Observed(ind, <<>>, Zero(0))
  <2>1. \A f \in DOMAIN ind.dic : Resized(Zero(0), ind.maxid)[ind.dic[f]] = 0
    BY <1>7 DEF Resized, Zero, Dense
  <2> QED BY <1>8, <1>10, <2>1 DEF Observed
<1> QED BY <1>4, <1>6, <1>11, <1>12

-----------------------------------------------------------------------------
(* After shrink: one numbering of the names that are kept.                 *)

KeptNames(xs, names, least) ==
  IF least <= 1 THEN NamesIn(KeysIn(xs)) \union names
  ELSE { f \in NamesIn(KeysIn(xs)) : Total(UsesIn(xs, f), DOMAIN xs) >= least }

Aligned(ind, obs, xs, kept) ==
  /\ Dense(ind)
  /\ DOMAIN ind.dic = kept
  /\ DOMAIN ind.cache = KeysIn(xs)
  /\ \A key \in DOMAIN ind.cache : ind.cache[key].vector = NumbersOf(ind, FeaturesOf[key], kept)
  /\ \A f \in kept : obs[ind.dic[f]] = Total(AnswersIn(xs, f), DOMAIN xs)

LEMMA DenseCardinality ==
  ASSUME NEW ind, Dense(ind), NEW names, names = DOMAIN ind.dic
  PROVE  ind.maxid = Cardinality(names) /\ { ind.dic[f] : f \in names } = 0 .. Cardinality(names) - 1
<1>1. PICK g, places : g = [f \in names |-> ind.dic[f]] /\ places = 0 .. ind.maxid - 1
  OBVIOUS
<1>2. ind.maxid \in Nat
  BY DEF Dense
<1>3. g \in [names -> places]
  BY <1>1 DEF Dense
<1>4. g \in Injection(names, places)
  <2>1. \A a, b \in names : g[a] = g[b] => a = b
    BY <1>1 DEF Dense
  <2> QED BY <1>3, <2>1 DEF Injection, IsInjective
<1>5. g \in Surjection(names, places)
  <2>1. \A p \in places : \E f \in names : g[f] = p
    BY <1>1 DEF Dense
  <2> QED BY <1>3, <2>1 DEF Surjection
<1>6. IsFiniteSet(places) /\ Cardinality(places) = ind.maxid
  <2>1. 0 \in Int /\ ind.maxid - 1 \in Int
    BY <1>2
  <2>2. /\ IsFiniteSet(places)
        /\ Cardinality(places) = IF 0 > ind.maxid - 1 THEN 0 ELSE ((ind.maxid - 1) - 0) + 1
    BY <1>1, <2>1, FS_Interval
  <2> QED BY <1>2, <2>2
<1>7. Cardinality(names) = ind.maxid
  BY <1>4, <1>5, <1>6, FS_Injection
<1>8. { ind.dic[f] : f \in names } = places
  <2>1. \A f \in names : ind.dic[f] \in places
    BY <1>1, <1>3
  <2>2. \A p \in places : \E f \in names : ind.dic[f] = p
    BY <1>1 DEF Dense
  <2> QED BY <2>1, <2>2
<1> QED BY <1>1, <1>7, <1>8

\* a vector of which nothing is dropped
LEMMA VectorComplete ==
  ASSUME NEW ind, NEW key \in Keys, NEW kept, Names(key) \subseteq kept
  PROVE  Vector(ind, key) = NumbersOf(ind, FeaturesOf[key], kept)
<1>1. PICK names : names = FeaturesOf[key]
  OBVIOUS
<1>2. names \in Seq(Features) /\ DOMAIN names = 1..Len(names) /\ Len(names) \in Nat
  <2>1. names \in Seq(Features)
    BY <1>1, NamedType
  <2> QED BY <2>1
<1>3. PICK run : /\ DOMAIN run = 0..Len(names) /\ run[0] = <<>>
                 /\ run[Len(names)] = NumbersOf(ind, names, kept)
                 /\ \A k \in 1..Len(names) :
                      run[k] = IF names[k] \in kept THEN Append(run[k - 1], ind.dic[names[k]]) ELSE run[k - 1]
  <2>1. PICK run : IsNamesRun(ind, kept, names, run)
    BY <1>2, NamesRuns
  <2> QED BY <2>1 DEF IsNamesRun
<1> DEFINE Part(k) == [n \in 1..k |-> ind.dic[names[n]]]
           G == { k \in Nat : k <= Len(names) => run[k] = Part(k) }
<1>4. 0 \in G
  BY <1>3
<1>5. ASSUME NEW k \in Nat, k \in G PROVE k + 1 \in G
  <2> SUFFICES ASSUME k + 1 <= Len(names) PROVE run[k + 1] = Part(k + 1)
    OBVIOUS
  <2>1. k + 1 \in 1..Len(names) /\ (k + 1) - 1 = k /\ k <= Len(names)
    BY <1>2
  <2>2. run[k] = Part(k)
    <3> HIDE DEF Part
    <3> QED BY <1>5, <2>1
  <2>3. names[k + 1] \in kept
    BY <1>1, <1>2, <2>1 DEF Names
  <2>4. run[k + 1] = Append(Part(k), ind.dic[names[k + 1]])
    <3>1. run[k + 1] = Append(run[k], ind.dic[names[k + 1]])
      BY <1>3, <2>1, <2>3
    <3> QED BY <2>2, <3>1
  <2>5. PICK value : value = [n \in 1..k + 1 |-> ind.dic[names[n]]]
    OBVIOUS
  <2>6. Append(Part(k), ind.dic[names[k + 1]]) = Part(k + 1)
    OBVIOUS
  <2> QED BY <2>4, <2>6
<1>6. Nat \subseteq G
  <2> HIDE DEF G
  <2> QED BY <1>4, <1>5, NatSetInduction
<1>7. run[Len(names)] = Part(Len(names))
  <2> HIDE DEF Part
  <2> QED BY <1>2, <1>6
<1>8. Vector(ind, key) = Part(Len(names))
  BY <1>1, <1>2 DEF Vector
<1> QED BY <1>1, <1>3, <1>7, <1>8

Renumbers(ind, new, ids, kept) ==
  /\ \A f \in DOMAIN ind.dic : ind.dic[f] \in ids <=> f \in kept
  /\ \A f \in DOMAIN ind.dic : f \in kept => new.dic[f] = Renumbered(ids, ind.dic[f])

\* a vector that is renumbered
LEMMA VectorShrinks ==
  ASSUME NEW ind, NEW new, NEW key \in Keys, NEW ids, NEW kept, Names(key) \subseteq DOMAIN ind.dic,
         Renumbers(ind, new, ids, kept)
  PROVE  VectorRenumbered(ids, Vector(ind, key)) = NumbersOf(new, FeaturesOf[key], kept)
<1>1. PICK names : names = FeaturesOf[key]
  OBVIOUS
<1>2. names \in Seq(Features) /\ DOMAIN names = 1..Len(names) /\ Len(names) \in Nat
  <2>1. names \in Seq(Features)
    BY <1>1, NamedType
  <2> QED BY <2>1
<1>3. PICK run : /\ DOMAIN run = 0..Len(names) /\ run[0] = <<>>
                 /\ run[Len(names)] = NumbersOf(new, names, kept)
                 /\ \A k \in 1..Len(names) :
                      run[k] = IF names[k] \in kept THEN Append(run[k - 1], new.dic[names[k]]) ELSE run[k - 1]
  <2>1. PICK run : IsNamesRun(new, kept, names, run)
    BY <1>2, NamesRuns
  <2> QED BY <2>1 DEF IsNamesRun
<1>4. PICK vector : vector = Vector(ind, key)
  OBVIOUS
<1>5. \A k \in 1..Len(names) : names[k] \in DOMAIN ind.dic /\ vector[k] = ind.dic[names[k]]
  BY <1>1, <1>2, <1>4 DEF Vector, Names
<1>6. vector \in Seq({ ind.dic[f] : f \in DOMAIN ind.dic }) /\ Len(vector) = Len(names)
  <2>1. vector = [k \in 1..Len(names) |-> ind.dic[names[k]]]
    BY <1>1, <1>2, <1>4 DEF Vector
  <2>2. \A k \in 1..Len(names) : ind.dic[names[k]] \in { ind.dic[f] : f \in DOMAIN ind.dic }
    BY <1>5
  <2> QED BY <1>2, <2>1, <2>2
<1>7. PICK other : /\ DOMAIN other = 0..Len(vector) /\ other[0] = <<>>
                   /\ other[Len(vector)] = VectorRenumbered(ids, vector)
                   /\ \A k \in 1..Len(vector) :
                        other[k] = IF vector[k] \in ids THEN Append(other[k - 1], Renumbered(ids, vector[k]))
                                   ELSE other[k - 1]
  BY <1>6, VectorRuns
<1>8. ASSUME NEW k \in 1..Len(names), other[k - 1] = run[k - 1] PROVE other[k] = run[k]
  <2>1. PICK f : f = names[k]
    OBVIOUS
  <2>2. f \in DOMAIN ind.dic /\ vector[k] = ind.dic[f]
    BY <1>5, <2>1
  <2>3. other[k] = IF vector[k] \in ids THEN Append(other[k - 1], Renumbered(ids, vector[k])) ELSE other[k - 1]
    BY <1>6, <1>7
  <2>4. run[k] = IF f \in kept THEN Append(run[k - 1], new.dic[f]) ELSE run[k - 1]
    BY <1>3, <2>1
  <2>5. CASE f \in kept
    <3>1. vector[k] \in ids /\ new.dic[f] = Renumbered(ids, vector[k])
      BY <2>2, <2>5 DEF Renumbers
    <3> QED BY <1>8, <2>3, <2>4, <2>5, <3>1
  <2>6. CASE f \notin kept
    <3>1. vector[k] \notin ids
      BY <2>2, <2>6 DEF Renumbers
    <3> QED BY <1>8, <2>3, <2>4, <2>6, <3>1
  <2> QED BY <2>5, <2>6
<1> DEFINE G == { k \in Nat : k <= Len(names) => other[k] = run[k] }
<1>9. 0 \in G
  BY <1>3, <1>7
<1>10. ASSUME NEW k \in Nat, k \in G PROVE k + 1 \in G
  <2> SUFFICES ASSUME k + 1 <= Len(names) PROVE other[k + 1] = run[k + 1]
    OBVIOUS
  <2>1. k + 1 \in 1..Len(names) /\ (k + 1) - 1 = k /\ k <= Len(names)
    BY <1>2
  <2>2. other[(k + 1) - 1] = run[(k + 1) - 1]
    BY <1>10, <2>1
  <2> QED BY <1>8, <2>1, <2>2
<1>11. Nat \subseteq G
  <2> HIDE DEF G
  <2> QED BY <1>9, <1>10, NatSetInduction
<1>12. other[Len(names)] = run[Len(names)]
  BY <1>2, <1>11
<1> QED BY <1>1, <1>3, <1>4, <1>6, <1>7, <1>12

LEMMA KeepAligns ==
  ASSUME NEW xs \in Seq(Sentence), NEW names \in SUBSET Features, NEW ind, Indexed(ind, xs, names),
         NEW obs, Observed(ind, xs, obs), NEW least \in Int, least <= 1
  PROVE  Aligned(ind, Resized(obs, ind.maxid), xs, KeptNames(xs, names, least))
<1>1. PICK kept : kept = KeptNames(xs, names, least)
  OBVIOUS
<1>2. kept = DOMAIN ind.dic
  BY <1>1 DEF KeptNames, Indexed
<1>3. ASSUME NEW key \in DOMAIN ind.cache
      PROVE  ind.cache[key].vector = NumbersOf(ind, FeaturesOf[key], kept)
  <2>1. PICK entry : entry = ind.cache[key]
    OBVIOUS
  <2>2. entry = [vector |-> Vector(ind, key), count |-> entry.count] /\ key \in Keys /\ Names(key) \subseteq kept
    BY <1>2, <2>1 DEF Indexed, IndexWell
  <2>3. Vector(ind, key) = NumbersOf(ind, FeaturesOf[key], kept)
    BY <2>2, VectorComplete
  <2> QED BY <2>1, <2>2, <2>3
<1> QED BY <1>1, <1>2, <1>3 DEF Aligned, Indexed, IndexWell, Observed

LEMMA ShrinkAligns ==
  ASSUME NEW xs \in Seq(Sentence), NEW names \in SUBSET Features, NEW ind, Indexed(ind, xs, names),
         NEW obs, Observed(ind, xs, obs), NEW least \in Int, least > 1,
         NEW new, new = Shrink(ind, least)
  PROVE  Aligned(new, Resized(ShrinkObserved(ind, least, obs), new.maxid), xs, KeptNames(xs, names, least))
<1>1. PICK kept, ids : kept = KeptNames(xs, names, least) /\ ids = Kept(ind, least)
  OBVIOUS
<1>2. IndexWell(ind) /\ Dense(ind) /\ Dense(new) /\ ind.maxid \in Nat
  BY ShrinkKeepsDense DEF Indexed, IndexWell, Dense
<1>3. \A f \in DOMAIN ind.dic : f \in Features
  <2>1. NamesIn(KeysIn(xs)) \subseteq Features
    BY KeysType, NamesType
  <2> QED BY <2>1 DEF Indexed
<1>4. ASSUME NEW f \in DOMAIN ind.dic PROVE ind.dic[f] \in ids <=> f \in kept
  <2>1. ind.dic[f] \in 0 .. ind.maxid - 1
    BY <1>2 DEF Dense
  <2>2. Frequency(ind, ind.dic[f]) = Total(UsesIn(xs, f), DOMAIN xs)
    BY <1>2, <1>3, FrequencyIsWeighted DEF Indexed
  <2>3. ind.dic[f] \in ids <=> Total(UsesIn(xs, f), DOMAIN xs) >= least
    BY <1>1, <2>1, <2>2 DEF Kept
  <2>4. Total(UsesIn(xs, f), DOMAIN xs) >= least => f \in NamesIn(KeysIn(xs))
    BY CountsType
  <2>5. f \in kept <=> f \in NamesIn(KeysIn(xs)) /\ Total(UsesIn(xs, f), DOMAIN xs) >= least
    BY <1>1 DEF KeptNames
  <2> QED BY <2>3, <2>4, <2>5
<1>5. kept \subseteq DOMAIN ind.dic
  BY <1>1 DEF KeptNames, Indexed
<1>6. new = [maxid |-> Cardinality(ids),
             dic |-> [f \in { g \in DOMAIN ind.dic : ind.dic[g] \in ids } |-> Renumbered(ids, ind.dic[f])],
             cache |-> [key \in DOMAIN ind.cache |->
                          [ind.cache[key] EXCEPT !.vector = VectorRenumbered(ids, @)]]]
  BY <1>1 DEF Shrink
<1>7. /\ new.maxid = Cardinality(ids) /\ DOMAIN new.dic = kept /\ DOMAIN new.cache = DOMAIN ind.cache
      /\ \A f \in kept : new.dic[f] = Renumbered(ids, ind.dic[f])
      /\ \A key \in DOMAIN ind.cache :
           new.cache[key] = [ind.cache[key] EXCEPT !.vector = VectorRenumbered(ids, @)]
  <2>1. { g \in DOMAIN ind.dic : ind.dic[g] \in ids } = kept
    BY <1>4, <1>5
  <2>2. new.dic = [f \in kept |-> Renumbered(ids, ind.dic[f])]
    BY <1>6, <2>1
  <2>3. new.cache = [key \in DOMAIN ind.cache |->
                       [ind.cache[key] EXCEPT !.vector = VectorRenumbered(ids, @)]]
    BY <1>6
  <2>4. new.maxid = Cardinality(ids)
    BY <1>6
  <2> QED BY <2>2, <2>3, <2>4
<1>8. ASSUME NEW key \in DOMAIN new.cache
      PROVE  new.cache[key].vector = NumbersOf(new, FeaturesOf[key], kept)
  <2>1. PICK entry : entry = ind.cache[key]
    OBVIOUS
  <2>2. key \in DOMAIN ind.cache /\ key \in Keys /\ Names(key) \subseteq DOMAIN ind.dic
    BY <1>2, <1>7 DEF IndexWell
  <2>3. entry = [vector |-> Vector(ind, key), count |-> entry.count]
    BY <1>2, <2>1, <2>2 DEF IndexWell
  <2>4. new.cache[key].vector = VectorRenumbered(ids, Vector(ind, key))
    <3>1. new.cache[key] = [entry EXCEPT !.vector = VectorRenumbered(ids, @)]
      BY <1>7, <2>1, <2>2
    <3>2. [entry EXCEPT !.vector = VectorRenumbered(ids, @)].vector = VectorRenumbered(ids, entry.vector)
      BY <2>3
    <3>3. entry.vector = Vector(ind, key)
      BY <2>3
    <3> QED BY <3>1, <3>2, <3>3
  <2>5. VectorRenumbered(ids, Vector(ind, key)) = NumbersOf(new, FeaturesOf[key], kept)
    <3>1. \A f \in DOMAIN ind.dic : ind.dic[f] \in ids <=> f \in kept
      BY <1>4
    <3>2. \A f \in DOMAIN ind.dic : f \in kept => new.dic[f] = Renumbered(ids, ind.dic[f])
      BY <1>7
    <3>3. key \in Keys /\ Names(key) \subseteq DOMAIN ind.dic
      BY <2>2
    <3>4. Renumbers(ind, new, ids, kept)
      BY <3>1, <3>2 DEF Renumbers
    <3> QED BY <3>3, <3>4, VectorShrinks
  <2> QED BY <2>4, <2>5
<1>9. ids \in SUBSET Nat /\ IsFiniteSet(ids) /\ ids \subseteq 0 .. ind.maxid - 1
  <2>1. ids \subseteq 0 .. ind.maxid - 1
    BY <1>1 DEF Kept
  <2>2. IsFiniteSet(0 .. ind.maxid - 1)
    <3>1. 0 \in Int /\ ind.maxid - 1 \in Int
      BY <1>2
    <3> QED BY <3>1, FS_Interval
  <2>3. 0 .. ind.maxid - 1 \subseteq Nat
    BY <1>2
  <2> QED BY <2>1, <2>2, <2>3, FS_Subset
<1>10. ASSUME NEW f \in kept
       PROVE  Resized(ShrinkObserved(ind, least, obs), new.maxid)[new.dic[f]] = Total(AnswersIn(xs, f), DOMAIN xs)
  <2>1. PICK id, n : id = ind.dic[f] /\ n = new.dic[f]
    OBVIOUS
  <2>2. id \in ids /\ n = Renumbered(ids, id) /\ n \in 0 .. new.maxid - 1
    <3>1. id \in ids /\ n = Renumbered(ids, id)
      BY <1>4, <1>5, <1>7, <2>1
    <3>2. n \in 0 .. new.maxid - 1
      BY <1>2, <1>7, <2>1 DEF Dense
    <3> QED BY <3>1, <3>2
  <2>3. ShrinkObserved(ind, least, obs)
          = [m \in 0 .. Cardinality(ids) - 1 |-> obs[CHOOSE i \in ids : Renumbered(ids, i) = m]]
    BY <1>1 DEF ShrinkObserved
  <2>4. (CHOOSE i \in ids : Renumbered(ids, i) = n) = id
    <3>1. \A i \in ids : Renumbered(ids, i) = n => i = id
      BY <1>9, <2>2, RenumberingIsBijection
    <3> QED BY <2>2, <3>1
  <2>5. n \in DOMAIN ShrinkObserved(ind, least, obs) /\ ShrinkObserved(ind, least, obs)[n] = obs[id]
    BY <1>7, <2>2, <2>3, <2>4
  <2>6. Resized(ShrinkObserved(ind, least, obs), new.maxid)[n] = obs[id]
    BY <2>2, <2>5 DEF Resized
  <2>7. DOMAIN obs = 0 .. ind.maxid - 1
    <3>1. Total(UsesIn(xs, f), DOMAIN xs) >= least
      BY <1>1 DEF KeptNames
    <3>2. xs # <<>>
      <4> SUFFICES ASSUME xs = <<>> PROVE FALSE
        OBVIOUS
      <4>1. DOMAIN xs = {}
        OBVIOUS
      <4>2. Total(UsesIn(xs, f), DOMAIN xs) = 0
        BY <4>1, TotalEmpty
      <4> QED BY <3>1, <4>2
    <3> QED BY <3>2 DEF Observed
  <2>8. Resized(obs, ind.maxid)[id] = obs[id]
    BY <1>9, <2>2, <2>7 DEF Resized
  <2>9. Resized(obs, ind.maxid)[id] = Total(AnswersIn(xs, f), DOMAIN xs)
    BY <1>5, <2>1 DEF Observed
  <2> QED BY <2>1, <2>6, <2>8, <2>9
<1> QED BY <1>1, <1>2, <1>7, <1>8, <1>10 DEF Aligned, Indexed

-----------------------------------------------------------------------------
(* The invariant of the index: what was read is indexed and observed, and  *)
(* from Prepare on everything speaks of the names that are kept.           *)

Entries == {Empty, Unended} \union Sentence

Prepared == {"iterate", "start", "sum", "join", "judge", "saved"}

SettingsWell ==
  /\ old \in OldModels /\ freq \in Freqs /\ threads \in ThreadNums
  /\ corpus \in Seq(Entries) /\ x \in Seq(Sentence)
  /\ phase \in {"read", "dead"} \union Prepared

WeightsOld ==
  /\ old_alpha = [i \in 0 .. Len(old) - 1 |-> old[i + 1].weight]
  /\ \A n \in DOMAIN old :
       old[n].feature \in DOMAIN index.dic /\ index.dic[old[n].feature] = n - 1

WeightsKept == freq <= 1 => \A n \in DOMAIN old : old_alpha[index.dic[old[n].feature]] = old[n].weight

IndexInv ==
  /\ SettingsWell
  /\ phase = "read" =>
       Indexed(index, x, FeaturesOld) /\ Observed(index, x, observed) /\ WeightsOld
  /\ phase \in Prepared =>
       Aligned(index, observed, x, KeptNames(x, FeaturesOld, freq)) /\ WeightsKept

LEMMA OldType ==
  ASSUME NEW saved \in OldModels
  PROVE  /\ DOMAIN saved = 1..Len(saved) /\ Len(saved) \in Nat
         /\ \A n \in DOMAIN saved : saved[n].feature \in Features /\ saved[n].weight \in Int
         /\ { saved[n].feature : n \in DOMAIN saved } \in SUBSET Features
<1>1. PICK X : X = [feature : Features, weight : Int]
  OBVIOUS
<1>2. saved \in Seq(X)
  BY <1>1, TrainingAssumption
<1>3. DOMAIN saved = 1..Len(saved) /\ Len(saved) \in Nat
  BY <1>2
<1>4. \A n \in DOMAIN saved : saved[n] \in X
  BY <1>2, <1>3
<1>5. \A n \in DOMAIN saved : saved[n].feature \in Features /\ saved[n].weight \in Int
  BY <1>1, <1>4
<1> QED BY <1>3, <1>5

LEMMA IndexInit == Init => IndexInv
<1> SUFFICES ASSUME Init PROVE IndexInv
  OBVIOUS
<1>1. old \in OldModels /\ index = Reopen(old) /\ x = <<>> /\ observed = Zero(0) /\ phase = "read"
  BY DEF Init
<1>2. /\ Indexed(index, <<>>, FeaturesOld) /\ Observed(index, <<>>, Zero(0))
      /\ \A n \in DOMAIN old : index.dic[old[n].feature] = n - 1
  BY <1>1, ReopenIndexes DEF FeaturesOld
<1>3. \A n \in DOMAIN old : old[n].feature \in DOMAIN index.dic
  BY <1>2 DEF Indexed, FeaturesOld
<1>4. SettingsWell
  <2>1. corpus \in Seq(Entries)
    BY TrainingAssumption DEF Init, Entries
  <2>2. x \in Seq(Sentence)
    BY <1>1
  <2> QED BY <1>1, <2>1, <2>2 DEF SettingsWell, Init
<1>5. WeightsOld
  BY <1>2, <1>3 DEF WeightsOld, Init
<1> QED BY <1>1, <1>2, <1>4, <1>5 DEF IndexInv, Prepared

LEMMA ReadSentenceKeepsIndex == IndexInv /\ ReadSentence => IndexInv'
<1> SUFFICES ASSUME IndexInv, ReadSentence PROVE IndexInv'
  OBVIOUS
<1>1. PICK sentence : sentence = Head(corpus)
  OBVIOUS
<1>2. /\ phase = "read" /\ corpus # <<>> /\ sentence \notin {Empty, Unended}
      /\ index' = AllBuilt(index, sentence)
      /\ observed' = Plus(Resized(observed, index'.maxid), Count(index', Answer(sentence)))
      /\ x' = Append(x, sentence) /\ corpus' = Tail(corpus)
      /\ UNCHANGED <<setting, phase, old_alpha>>
  BY <1>1 DEF ReadSentence, Reading, AllBuilt
<1>3. /\ old \in OldModels /\ corpus \in Seq(Entries) /\ x \in Seq(Sentence)
      /\ Indexed(index, x, FeaturesOld) /\ Observed(index, x, observed) /\ WeightsOld
  BY <1>2 DEF IndexInv, SettingsWell
<1>4. sentence \in Sentence /\ corpus' \in Seq(Entries)
  <2>1. sentence \in Entries /\ Tail(corpus) \in Seq(Entries)
    BY <1>1, <1>2, <1>3
  <2> QED BY <1>2, <2>1 DEF Entries
<1>5. x' \in Seq(Sentence)
  BY <1>2, <1>3, <1>4
<1>6. FeaturesOld \in SUBSET Features /\ FeaturesOld' = FeaturesOld /\ old' = old
  BY <1>2, <1>3, OldType DEF FeaturesOld, setting
<1>7. Indexed(index', Append(x, sentence), FeaturesOld) /\ Grows(index, index')
  BY <1>2, <1>3, <1>4, <1>6, ReadIndexes
<1>8. Observed(index', Append(x, sentence), observed')
  BY <1>2, <1>3, <1>4, <1>6, ReadObserves
<1>9. WeightsOld'
  BY <1>2, <1>3, <1>6, <1>7 DEF WeightsOld, Grows
<1>10. SettingsWell'
  BY <1>2, <1>4, <1>5 DEF IndexInv, SettingsWell, setting
<1>11. (Indexed(index, x, FeaturesOld) /\ Observed(index, x, observed))'
  BY <1>2, <1>6, <1>7, <1>8
<1> QED BY <1>2, <1>9, <1>10, <1>11 DEF IndexInv, Prepared

LEMMA PrepareKeepsIndex == IndexInv /\ Prepare => IndexInv'
<1> SUFFICES ASSUME IndexInv, Prepare PROVE IndexInv'
  OBVIOUS
<1>1. PICK least : least = freq
  OBVIOUS
<1>2. /\ phase = "read" /\ phase' = "iterate" /\ index' = Shrink(index, least)
      /\ observed' = Resized(ShrinkObserved(index, least, observed), index'.maxid)
      /\ old_alpha' = Resized(old_alpha, index'.maxid)
      /\ UNCHANGED <<corpus, setting, x>>
  BY <1>1 DEF Prepare
<1>3. /\ old \in OldModels /\ least \in Freqs /\ x \in Seq(Sentence)
      /\ Indexed(index, x, FeaturesOld) /\ Observed(index, x, observed) /\ WeightsOld
  BY <1>1, <1>2 DEF IndexInv, SettingsWell
<1>4. least \in Int
  BY <1>3, TrainingAssumption
<1>5. /\ FeaturesOld \in SUBSET Features /\ FeaturesOld' = FeaturesOld /\ old' = old /\ freq' = least
      /\ x' = x
  BY <1>1, <1>2, <1>3, OldType DEF FeaturesOld, setting
<1>6. Aligned(index', observed', x, KeptNames(x, FeaturesOld, least))
  <2>1. CASE least <= 1
    <3>1. index' = index /\ observed' = Resized(observed, index.maxid)
      BY <1>2, <2>1 DEF Shrink, ShrinkObserved
    <3> QED BY <1>3, <1>4, <1>5, <2>1, <3>1, KeepAligns
  <2>2. CASE least > 1
    BY <1>2, <1>3, <1>4, <1>5, <2>2, ShrinkAligns
  <2> QED BY <1>4, <2>1, <2>2
<1>7. WeightsKept'
  <2> SUFFICES ASSUME least <= 1, NEW n \in DOMAIN old
               PROVE  old_alpha'[index'.dic[old[n].feature]] = old[n].weight
    BY <1>5 DEF WeightsKept
  <2>1. index' = index
    BY <1>2 DEF Shrink
  <2>2. PICK i : i = index.dic[old[n].feature]
    OBVIOUS
  <2>3. DOMAIN old = 1..Len(old) /\ Len(old) \in Nat
    BY <1>3, OldType
  <2>4. i = n - 1 /\ i \in 0 .. Len(old) - 1 /\ i + 1 = n
    BY <1>3, <2>2, <2>3 DEF WeightsOld
  <2>5. i \in 0 .. index.maxid - 1
    BY <1>3, <2>2 DEF WeightsOld, Indexed, IndexWell, Dense
  <2>6. old_alpha[i] = old[n].weight /\ i \in DOMAIN old_alpha
    BY <1>3, <2>4 DEF WeightsOld
  <2>7. Resized(old_alpha, index.maxid)[i] = old_alpha[i]
    BY <2>5, <2>6 DEF Resized
  <2> QED BY <1>2, <2>1, <2>2, <2>6, <2>7
<1>8. SettingsWell'
  BY <1>2, <1>5 DEF IndexInv, SettingsWell, setting, Prepared
<1>9. Aligned(index, observed, x, KeptNames(x, FeaturesOld, freq))'
  BY <1>5, <1>6
<1> QED BY <1>2, <1>7, <1>8, <1>9 DEF IndexInv, Prepared

\* steps that leave the index and the sentences alone
LEMMA OthersKeepIndex ==
  ASSUME IndexInv, UNCHANGED <<setting, data>>, corpus' \in {corpus, <<>>},
         \/ phase' = phase
         \/ phase' = "dead"
         \/ phase \in Prepared /\ phase' \in Prepared
  PROVE  IndexInv'
<1>1. /\ old' = old /\ freq' = freq /\ threads' = threads /\ index' = index /\ x' = x
      /\ observed' = observed /\ old_alpha' = old_alpha
  BY DEF setting, data
<1>2. FeaturesOld' = FeaturesOld /\ WeightsOld' = WeightsOld /\ WeightsKept' = WeightsKept
  BY <1>1 DEF FeaturesOld, WeightsOld, WeightsKept
<1>3. SettingsWell'
  <2>1. corpus' \in Seq(Entries)
    <3>1. PICK E : E = Entries
      OBVIOUS
    <3>2. corpus \in Seq(E) /\ <<>> \in Seq(E)
      BY <3>1 DEF IndexInv, SettingsWell
    <3> QED BY <3>1, <3>2
  <2> QED BY <1>1, <2>1 DEF IndexInv, SettingsWell, Prepared
<1>4. phase' = "read" => phase = "read"
  BY DEF Prepared
<1>5. phase' \in Prepared => phase \in Prepared
  BY DEF Prepared
<1> QED BY <1>1, <1>2, <1>3, <1>4, <1>5 DEF IndexInv

LEMMA IndexStep == IndexInv /\ [Next]_vars => IndexInv'
<1> SUFFICES ASSUME IndexInv, [Next]_vars PROVE IndexInv'
  OBVIOUS
<1>1. CASE ReadSentence
  BY <1>1, ReadSentenceKeepsIndex
<1>2. CASE Prepare
  BY <1>2, PrepareKeepsIndex
<1>3. CASE Die \/ ReadUnended
  BY <1>3, OthersKeepIndex DEF Die, ReadUnended
<1>4. CASE Iterate \/ WithoutThreads \/ Reduce
  BY <1>4, OthersKeepIndex DEF Iterate, WithoutThreads, Reduce, Prepared
<1>5. ASSUME NEW i \in DOMAIN worker, Start(i) PROVE IndexInv'
  BY <1>5, OthersKeepIndex DEF Start, Prepared
<1>6. CASE Judge
  <2>1. phase = "judge" /\ UNCHANGED <<corpus, setting, data>>
    BY <1>6 DEF Judge
  <2>2. phase' \in {"saved", "iterate", "dead"}
    BY <1>6 DEF Judge, Save, Optimize
  <2> QED BY <2>1, <2>2, OthersKeepIndex DEF Prepared
<1>7. ASSUME NEW i \in DOMAIN worker, WorkerStep(i) PROVE IndexInv'
  <2>1. UNCHANGED <<corpus, setting, phase, data>>
    BY <1>7 DEF WorkerStep, RunBegin, Gradient, RunEnd
  <2> QED BY <2>1, OthersKeepIndex
<1>8. CASE UNCHANGED vars
  BY <1>8, OthersKeepIndex DEF vars
<1> QED BY <1>1, <1>2, <1>3, <1>4, <1>5, <1>6, <1>7, <1>8 DEF Next, MainStep

\* the invariant in the words of the property
LEMMA CountsAre ==
  ASSUME NEW f, x \in Seq(Sentence)
  PROVE  UsesOf(f) = Total(UsesIn(x, f), DOMAIN x) /\ AnswersOf(f) = Total(AnswersIn(x, f), DOMAIN x)
<1>1. ASSUME NEW s \in DOMAIN x
      PROVE  /\ SumFunction([n \in DOMAIN x[s] |-> Named(x[s][n].node, f) + Named(x[s][n].link, f)])
                  = UsesIn(x, f)[s]
             /\ SumFunction([n \in DOMAIN x[s] |->
                     IF ~ x[s][n].answer THEN 0
                     ELSE Named(x[s][n].link, f) + IF x[s][n].eos THEN 0 ELSE Named(x[s][n].node, f)])
                  = AnswersIn(x, f)[s]
  <2>1. UsesIn(x, f)[s] = Total(NamedIn(x[s], f), DOMAIN x[s]) /\ AnswersIn(x, f)[s] = Total(AnsweredIn(x[s], f), DOMAIN x[s])
    BY DEF UsesIn, AnswersIn
  <2>2. DOMAIN NamedIn(x[s], f) = DOMAIN x[s] /\ DOMAIN AnsweredIn(x[s], f) = DOMAIN x[s]
    BY DEF NamedIn, AnsweredIn
  <2>3. SumFunction(NamedIn(x[s], f)) = Total(NamedIn(x[s], f), DOMAIN x[s])
    BY <2>2, SumIsTotal
  <2>4. SumFunction(AnsweredIn(x[s], f)) = Total(AnsweredIn(x[s], f), DOMAIN x[s])
    BY <2>2, SumIsTotal
  <2> QED BY <2>1, <2>3, <2>4 DEF NamedIn, AnsweredIn
<1>2. UsesOf(f) = SumFunction(UsesIn(x, f))
  <2>1. UsesIn(x, f) = [s \in DOMAIN x |-> UsesIn(x, f)[s]]
    BY DEF UsesIn
  <2>2. UsesOf(f) = SumFunction([s \in DOMAIN x |-> UsesIn(x, f)[s]])
    BY <1>1 DEF UsesOf, Sentences
  <2> QED BY <2>1, <2>2
<1>3. AnswersOf(f) = SumFunction(AnswersIn(x, f))
  <2>1. AnswersIn(x, f) = [s \in DOMAIN x |-> AnswersIn(x, f)[s]]
    BY DEF AnswersIn
  <2>2. AnswersOf(f) = SumFunction([s \in DOMAIN x |-> AnswersIn(x, f)[s]])
    BY <1>1 DEF AnswersOf, Sentences
  <2> QED BY <2>1, <2>2
<1>4. DOMAIN UsesIn(x, f) = DOMAIN x /\ DOMAIN AnswersIn(x, f) = DOMAIN x
  BY DEF UsesIn, AnswersIn
<1> QED BY <1>2, <1>3, <1>4, SumIsTotal

LEMMA KeysAre ==
  ASSUME x \in Seq(Sentence)
  PROVE  KeysUsed = KeysIn(x) /\ FeaturesUsed = NamesIn(KeysIn(x))
<1>1. ASSUME NEW s \in DOMAIN x
      PROVE  { x[s][n].node : n \in DOMAIN x[s] } \union { x[s][n].link : n \in DOMAIN x[s] } = KeysOf(x[s])
  <2>1. x[s] \in Sentence
    OBVIOUS
  <2>2. DOMAIN x[s] = 1..Len(x[s])
    BY <2>1, SentenceType
  <2> QED BY <2>2 DEF KeysOf, KeysTo
<1>2. KeysUsed = KeysIn(x)
  BY <1>1 DEF KeysUsed, KeysIn, Sentences
<1> QED BY <1>2 DEF FeaturesUsed, NamesIn, Names

LEMMA InvAligns == IndexInv => FeaturesAligned
<1> SUFFICES ASSUME IndexInv, phase = "iterate"
             PROVE  FeaturesAligned
  BY DEF FeaturesAligned
<1>1. /\ x \in Seq(Sentence) /\ Aligned(index, observed, x, KeptNames(x, FeaturesOld, freq)) /\ WeightsKept
  BY DEF IndexInv, SettingsWell, Prepared
<1>2. PICK kept : kept = KeptNames(x, FeaturesOld, freq)
  OBVIOUS
<1>3. kept = IF freq <= 1 THEN FeaturesUsed \union FeaturesOld
             ELSE { f \in FeaturesUsed : UsesOf(f) >= freq }
  <2>1. \A f : UsesOf(f) = Total(UsesIn(x, f), DOMAIN x)
    BY <1>1, CountsAre
  <2>2. FeaturesUsed = NamesIn(KeysIn(x))
    BY <1>1, KeysAre
  <2> QED BY <1>2, <2>1, <2>2 DEF KeptNames
<1>4. /\ DOMAIN index.dic = kept /\ Dense(index) /\ DOMAIN index.cache = KeysUsed
      /\ \A k \in KeysUsed : index.cache[k].vector = NumbersOf(index, FeaturesOf[k], kept)
      /\ \A f \in kept : observed[index.dic[f]] = AnswersOf(f)
  <2>1. \A f : AnswersOf(f) = Total(AnswersIn(x, f), DOMAIN x)
    BY <1>1, CountsAre
  <2>2. KeysUsed = KeysIn(x)
    BY <1>1, KeysAre
  <2> QED BY <1>1, <1>2, <2>1, <2>2 DEF Aligned
<1>5. index.maxid = Cardinality(kept) /\ { index.dic[f] : f \in kept } = 0 .. Cardinality(kept) - 1
  BY <1>4, DenseCardinality
<1>6. freq <= 1 => \A n \in DOMAIN old : old_alpha[index.dic[old[n].feature]] = old[n].weight
  BY <1>1 DEF WeightsKept
<1> HIDE DEF IndexInv
<1> QED BY <1>3, <1>4, <1>5, <1>6 DEF FeaturesAligned

\* The dictionary, the vectors of the nodes and paths and the observed counts
\* number the same features after shrink, those that occur often enough, and
\* the old weights stay with theirs (feature_index.cpp:461-526,
\* learner.cpp:136-145): for every corpus, every old model and every --freq.
THEOREM FeaturesStayAligned == Spec => []FeaturesAligned
<1>1. Spec => []IndexInv
  BY IndexInit, IndexStep, PTL DEF Spec
<1>2. QED
  BY <1>1, InvAligns, PTL

-----------------------------------------------------------------------------
(* Turns: thread i of t takes the sentences i + 1, i + t + 1, i + 2t + 1 ... *)

Turn(i, t) == { s \in Nat : \E k \in Nat : s = i + k * t + 1 }

LEMMA SameMultiple ==
  ASSUME NEW t \in Nat \ {0}, NEW p \in Int, NEW q \in Int, p * t < q * t + t, q * t < p * t + t
  PROVE  p = q
BY SMTT(30)

LEMMA NextMultiple ==
  ASSUME NEW t \in Nat, NEW p \in Nat
  PROVE  p * t \in Nat /\ (p + 1) * t = p * t + t /\ 0 * t = 0
BY SMT

LEMMA TurnFirst ==
  ASSUME NEW t \in Nat \ {0}, NEW i \in 0 .. t - 1
  PROVE  i + 1 \in Turn(i, t) /\ \A s \in Turn(i, t) : s >= i + 1
<1>1. i + 1 \in Nat /\ i + 1 = i + 0 * t + 1
  BY NextMultiple
<1>2. \A k \in Nat : i + k * t + 1 >= i + 1
  BY NextMultiple
<1> QED BY <1>1, <1>2 DEF Turn

LEMMA TurnNext ==
  ASSUME NEW t \in Nat \ {0}, NEW i \in 0 .. t - 1, NEW a \in Turn(i, t)
  PROVE  /\ a + t \in Turn(i, t)
         /\ \A s \in Turn(i, t) : s >= a /\ s < a + t => s = a
<1>1. PICK k \in Nat : a = i + k * t + 1
  BY DEF Turn
<1>2. PICK m : m = k * t
  OBVIOUS
<1>3. m \in Nat /\ (k + 1) * t = m + t
  BY <1>2, NextMultiple
<1>4. a + t \in Turn(i, t)
  <2>1. a + t = i + (k + 1) * t + 1
    BY <1>1, <1>2, <1>3
  <2>2. a + t \in Nat /\ k + 1 \in Nat
    BY <1>1, <1>2, <1>3
  <2> QED BY <2>1, <2>2 DEF Turn
<1>5. ASSUME NEW s \in Turn(i, t), s >= a, s < a + t PROVE s = a
  <2>1. PICK j \in Nat : s = i + j * t + 1
    BY DEF Turn
  <2>2. PICK n : n = j * t
    OBVIOUS
  <2>3. n \in Nat
    BY <2>2, NextMultiple
  <2>4. n < m + t /\ m < n + t
    BY <1>1, <1>2, <1>3, <1>5, <2>1, <2>2, <2>3
  <2>5. j = k
    BY <1>2, <2>2, <2>4, SameMultiple
  <2> QED BY <1>1, <2>1, <2>5
<1> QED BY <1>4, <1>5

LEMMA TurnsDisjoint ==
  ASSUME NEW t \in Nat \ {0}, NEW i \in 0 .. t - 1, NEW j \in 0 .. t - 1, NEW s, s \in Turn(i, t), s \in Turn(j, t)
  PROVE  i = j
<1>1. PICK k \in Nat : s = i + k * t + 1
  BY DEF Turn
<1>2. PICK l \in Nat : s = j + l * t + 1
  BY DEF Turn
<1>3. PICK m, n : m = k * t /\ n = l * t
  OBVIOUS
<1>4. m \in Nat /\ n \in Nat
  BY <1>3, NextMultiple
<1>5. i + m + 1 = j + n + 1
  BY <1>1, <1>2, <1>3
<1>6. n < m + t /\ m < n + t
  BY <1>4, <1>5
<1>7. k = l
  BY <1>3, <1>6, SameMultiple
<1> QED BY <1>3, <1>4, <1>5, <1>7

LEMMA TurnsCover ==
  ASSUME NEW t \in Nat \ {0}, NEW s \in Nat \ {0}
  PROVE  \E i \in 0 .. t - 1 : s \in Turn(i, t)
<1> DEFINE G == { n \in Nat : \E i \in 0 .. t - 1 : n + 1 \in Turn(i, t) }
<1>1. 0 \in G
  <2>1. 0 \in 0 .. t - 1
    OBVIOUS
  <2>2. 0 + 1 \in Turn(0, t)
    BY <2>1, TurnFirst
  <2> QED BY <2>1, <2>2
<1>2. ASSUME NEW n \in Nat, n \in G PROVE n + 1 \in G
  <2>1. PICK i \in 0 .. t - 1 : n + 1 \in Turn(i, t)
    BY <1>2
  <2>2. PICK k \in Nat : n + 1 = i + k * t + 1
    BY <2>1 DEF Turn
  <2>3. PICK m : m = k * t
    OBVIOUS
  <2>4. m \in Nat /\ (k + 1) * t = m + t
    BY <2>3, NextMultiple
  <2>5. CASE i + 1 \in 0 .. t - 1
    <3>1. (n + 1) + 1 = (i + 1) + k * t + 1
      BY <2>2, <2>3, <2>4
    <3>2. (n + 1) + 1 \in Turn(i + 1, t)
      BY <3>1 DEF Turn
    <3> QED BY <2>5, <3>2
  <2>6. CASE i + 1 \notin 0 .. t - 1
    <3>1. i + 1 = t /\ 0 \in 0 .. t - 1
      BY <2>6
    <3>p. PICK l : l = k + 1
      OBVIOUS
    <3>2. (n + 1) + 1 = 0 + l * t + 1 /\ l \in Nat /\ (n + 1) + 1 \in Nat
      BY <2>2, <2>3, <2>4, <3>1, <3>p
    <3>3. (n + 1) + 1 \in Turn(0, t)
      BY <3>2 DEF Turn
    <3> QED BY <3>1, <3>3
  <2> QED BY <2>5, <2>6
<1>3. Nat \subseteq G
  <2> HIDE DEF G
  <2> QED BY <1>1, <1>2, NatSetInduction
<1>4. s - 1 \in G /\ (s - 1) + 1 = s
  BY <1>3
<1> QED BY <1>4

Apart(part, I, T) ==
  /\ \A i \in I : part[i] \in SUBSET T
  /\ \A i, j \in I : i # j => part[i] \cap part[j] = {}

\* a sum taken in parts
LEMMA TotalParts ==
  ASSUME NEW I, IsFiniteSet(I), NEW part, NEW T, IsFiniteSet(T), Apart(part, I, T),
         NEW f, \A n \in T : f[n] \in Int, NEW g, \A i \in I : g[i] = Total(f, part[i])
  PROVE  Total(g, I) = Total(f, UNION { part[i] : i \in I })
<1> DEFINE All(S) == UNION { part[i] : i \in S }
           G == { S \in SUBSET I : Total(g, S) = Total(f, All(S)) }
<1>1. {} \in G
  <2>1. All({}) = {}
    OBVIOUS
  <2> QED BY <2>1, TotalEmpty
<1>2. ASSUME NEW S \in SUBSET I, NEW y \in I \ S, S \in G PROVE S \union {y} \in G
  <2>1. PICK A, B, C : A = All(S) /\ B = part[y] /\ C = All(S \union {y})
    OBVIOUS
  <2>2. C = A \union B /\ A \cap B = {} /\ A \subseteq T /\ B \subseteq T
    <3>1. C = A \union B
      BY <2>1
    <3>2. A \cap B = {}
      BY <2>1 DEF Apart
    <3>3. A \subseteq T /\ B \subseteq T
      BY <2>1 DEF Apart
    <3> QED BY <3>1, <3>2, <3>3
  <2>3. IsFiniteSet(A) /\ IsFiniteSet(B) /\ \A n \in A \union B : f[n] \in Int
    BY <2>2, FS_Subset
  <2>4. Total(f, C) = Total(f, A) + Total(f, B)
    BY <2>2, <2>3, TotalUnion
  <2>5. IsFiniteSet(S) /\ y \notin S /\ \A i \in S \union {y} : g[i] \in Int
    <3>1. IsFiniteSet(S) /\ y \notin S
      BY FS_Subset
    <3>2. ASSUME NEW i \in I PROVE g[i] \in Int
      <4>1. IsFiniteSet(part[i]) /\ \A n \in part[i] : f[n] \in Int
        BY FS_Subset DEF Apart
      <4> QED BY <4>1, TotalType
    <3> QED BY <3>1, <3>2
  <2>6. Total(g, S \union {y}) = Total(g, S) + g[y]
    BY <2>5, TotalMore
  <2>7. Total(g, S) = Total(f, A) /\ g[y] = Total(f, B)
    BY <1>2, <2>1
  <2>8. Total(g, S \union {y}) = Total(f, C)
    BY <2>4, <2>6, <2>7
  <2> QED BY <2>1, <2>8
<1>3. I \in G
  <2> HIDE DEF G
  <2> QED BY <1>1, <1>2, SubsetInduction
<1> QED BY <1>3

-----------------------------------------------------------------------------
(* The invariant of the threads: a thread that runs has added up the       *)
(* sentences of its turns up to the next, with this iteration's weights.   *)

CostIn(ind, weights, path) ==
  [id \in DOMAIN weights |-> weights[id] * PathCount(ind, path, id)]
LossIn(ind, weights, sentence) ==
  [n \in DOMAIN Wrong(sentence) |-> SumFunction(CostIn(ind, weights, Wrong(sentence)[n]))]
LossesIn(ind, weights, xs) == [s \in DOMAIN xs |-> SumFunction(LossIn(ind, weights, xs[s]))]
CountsIn(ind, xs, id) == [s \in DOMAIN xs |-> Count(ind, xs[s])[id]]

\* the sentences of a thread before the place next
Share(xs, i, t, next) == { s \in DOMAIN xs : s <= next /\ s \in Turn(i, t) }

IsWorker(w) == w = [state |-> w.state, next |-> w.next, f |-> w.f, expected |-> w.expected]

Added(ind, weights, xs, t, i, w) ==
  /\ w.next \in Nat /\ w.next + 1 \in Turn(i, t)
  /\ w.f = Total(LossesIn(ind, weights, xs), Share(xs, i, t, w.next))
  /\ w.expected = [id \in 0 .. ind.maxid - 1 |-> Total(CountsIn(ind, xs, id), Share(xs, i, t, w.next))]

WorkerWell(i) ==
  /\ IsWorker(worker[i]) /\ worker[i].state \in {"idle", "started", "running", "done"}
  /\ phase \notin {"start", "join"} => worker[i].state = "idle"
  /\ worker[i].state \in {"running", "done"} => Added(index, alpha, x, threads, i, worker[i])
  /\ worker[i].state = "done" => worker[i].next >= Len(x)

\* vectors are finite, so counts and weights are numbers
NumbersWell(ind, weights) ==
  /\ ind.maxid \in Nat
  /\ DOMAIN weights = 0 .. ind.maxid - 1 /\ \A id \in DOMAIN weights : weights[id] \in Int
  /\ \A key \in DOMAIN ind.cache : IsFiniteSet(DOMAIN ind.cache[key].vector)

Summed(ind, weights, xs, objective, counts) ==
  /\ objective = Total(LossesIn(ind, weights, xs), DOMAIN xs)
  /\ counts = [id \in 0 .. ind.maxid - 1 |-> Total(CountsIn(ind, xs, id), DOMAIN xs)]

ThreadsInv ==
  /\ IndexInv
  /\ phase \in Prepared =>
       /\ NumbersWell(index, alpha)
       /\ DOMAIN expected = 0 .. index.maxid - 1
       /\ worker = [i \in 0 .. threads - 1 |-> worker[i]]
       /\ \A i \in 0 .. threads - 1 : WorkerWell(i)
  /\ phase = "judge" => Summed(index, alpha, x, obj, expected)

LEMMA LossesAre ==
  LossesIn(index, alpha, x) = [s \in DOMAIN x |-> Loss(x[s])]
<1>1. \A path : Cost(path) = SumFunction(CostIn(index, alpha, path))
  BY DEF Cost, CostIn
<1>2. \A sentence : Loss(sentence) = SumFunction(LossIn(index, alpha, sentence))
  BY <1>1 DEF Loss, LossIn
<1> QED BY <1>2 DEF LossesIn

LEMMA LossesType ==
  ASSUME NEW ind, NEW weights, NumbersWell(ind, weights), NEW xs \in Seq(Sentence),
         DOMAIN ind.cache = KeysIn(xs)
  PROVE  /\ \A s \in DOMAIN xs : LossesIn(ind, weights, xs)[s] \in Int
         /\ \A id \in 0 .. ind.maxid - 1 : \A s \in DOMAIN xs : CountsIn(ind, xs, id)[s] \in Int
<1>1. ASSUME NEW s \in DOMAIN xs, NEW n \in DOMAIN xs[s], NEW id
      PROVE  PathCount(ind, xs[s][n], id) \in Int
  <2>1. PICK path : path = xs[s][n]
    OBVIOUS
  <2>2. path.node \in DOMAIN ind.cache /\ path.link \in DOMAIN ind.cache
    <3>1. xs[s] \in Sentence
      OBVIOUS
    <3>2. path.node \in KeysOf(xs[s]) /\ path.link \in KeysOf(xs[s])
      BY <2>1, <3>1, SentenceType DEF KeysOf, KeysTo
    <3> QED BY <3>2 DEF KeysIn
  <2>3. ASSUME NEW key \in DOMAIN ind.cache PROVE Occurrences(ind.cache[key].vector, id) \in Nat
    <3>1. PICK vector, S : vector = ind.cache[key].vector /\ S = { m \in DOMAIN vector : vector[m] = id }
      OBVIOUS
    <3>2. IsFiniteSet(S)
      <4>1. IsFiniteSet(DOMAIN vector) /\ S \subseteq DOMAIN vector
        BY <3>1 DEF NumbersWell
      <4> QED BY <4>1, FS_Subset
    <3>3. Cardinality(S) \in Nat
      BY <3>2, FS_CardinalityType
    <3> QED BY <3>1, <3>3 DEF Occurrences
  <2>4. PICK a, b : a = Occurrences(ind.cache[path.link].vector, id) /\ b = Occurrences(ind.cache[path.node].vector, id)
    OBVIOUS
  <2>5. a \in Nat /\ b \in Nat
    BY <2>2, <2>3, <2>4
  <2>6. PathCount(ind, path, id) = a + IF path.eos THEN 0 ELSE b
    BY <2>4 DEF PathCount
  <2> QED BY <2>1, <2>5, <2>6
<1>2. ASSUME NEW s \in DOMAIN xs PROVE LossesIn(ind, weights, xs)[s] \in Int
  <2>1. PICK w : w = Wrong(xs[s])
    OBVIOUS
  <2>2. /\ DOMAIN w \subseteq DOMAIN xs[s] /\ \A n \in DOMAIN w : w[n] = xs[s][n]
    BY <2>1 DEF Wrong, Restrict
  <2>3. IsFiniteSet(DOMAIN w)
    <3>1. xs[s] \in Sentence
      OBVIOUS
    <3>2. IsFiniteSet(DOMAIN xs[s])
      BY <3>1, SentenceType
    <3> QED BY <2>2, <3>2, FS_Subset
  <2>4. ASSUME NEW n \in DOMAIN w PROVE SumFunction(CostIn(ind, weights, w[n])) \in Int
    <3>1. PICK g : g = CostIn(ind, weights, w[n])
      OBVIOUS
    <3>2. DOMAIN g = DOMAIN weights /\ \A id \in DOMAIN g : g[id] = weights[id] * PathCount(ind, w[n], id)
      BY <3>1 DEF CostIn
    <3>3. IsFiniteSet(DOMAIN g)
      <4>1. DOMAIN g = 0 .. ind.maxid - 1 /\ 0 \in Int /\ ind.maxid - 1 \in Int
        BY <3>2 DEF NumbersWell
      <4> QED BY <4>1, FS_Interval
    <3>4. ASSUME NEW id \in DOMAIN g PROVE g[id] \in Int
      <4>1. weights[id] \in Int /\ PathCount(ind, w[n], id) \in Int
        BY <1>1, <2>2, <3>2 DEF NumbersWell
      <4> QED BY <3>2, <4>1, OneMore
    <3>5. Total(g, DOMAIN g) \in Int
      BY <3>3, <3>4, TotalType
    <3> QED BY <3>1, <3>5, SumIsTotal
  <2>5. PICK h : h = LossIn(ind, weights, xs[s])
    OBVIOUS
  <2>6. DOMAIN h = DOMAIN w /\ \A n \in DOMAIN h : h[n] \in Int
    BY <2>1, <2>4, <2>5 DEF LossIn
  <2>7. SumFunction(h) \in Int
    BY <2>3, <2>6, SumIsTotal, TotalType
  <2> QED BY <2>5, <2>7 DEF LossesIn
<1>3. ASSUME NEW id \in 0 .. ind.maxid - 1, NEW s \in DOMAIN xs PROVE CountsIn(ind, xs, id)[s] \in Int
  <2>1. PICK g : g = [n \in DOMAIN xs[s] |-> PathCount(ind, xs[s][n], id)]
    OBVIOUS
  <2>2. CountsIn(ind, xs, id)[s] = SumFunction(g)
    BY <2>1 DEF CountsIn, Count
  <2>3. DOMAIN g = DOMAIN xs[s] /\ \A n \in DOMAIN g : g[n] \in Int
    BY <1>1, <2>1
  <2>4. IsFiniteSet(DOMAIN g)
    <3>1. xs[s] \in Sentence
      OBVIOUS
    <3> QED BY <2>3, <3>1, SentenceType
  <2>5. Total(g, DOMAIN g) \in Int
    BY <2>3, <2>4, TotalType
  <2> QED BY <2>2, <2>5, SumIsTotal
<1> QED BY <1>2, <1>3

\* the vectors left by shrink are sequences
LEMMA NumbersFinite ==
  ASSUME NEW ind, NEW kept, NEW names \in Seq(Features)
  PROVE  IsFiniteSet(DOMAIN NumbersOf(ind, names, kept))
<1>1. PICK run : IsNamesRun(ind, kept, names, run)
  BY NamesRuns
<1>2. PICK X : X = { ind.dic[names[k]] : k \in 1..Len(names) }
  OBVIOUS
<1> DEFINE G == { k \in Nat : k <= Len(names) => run[k] \in Seq(X) }
<1>3. 0 \in G
  <2>1. run[0] = <<>>
    BY <1>1 DEF IsNamesRun
  <2>2. <<>> \in Seq(X)
    OBVIOUS
  <2> QED BY <2>1, <2>2
<1>4. ASSUME NEW k \in Nat, k \in G PROVE k + 1 \in G
  <2> SUFFICES ASSUME k + 1 <= Len(names) PROVE run[k + 1] \in Seq(X)
    OBVIOUS
  <2>1. k + 1 \in 1..Len(names) /\ (k + 1) - 1 = k /\ k <= Len(names)
    OBVIOUS
  <2>2. run[k] \in Seq(X)
    BY <1>4, <2>1
  <2>3. run[k + 1] = IF names[k + 1] \in kept THEN Append(run[k], ind.dic[names[k + 1]]) ELSE run[k]
    BY <1>1, <2>1 DEF IsNamesRun
  <2>4. ind.dic[names[k + 1]] \in X
    BY <1>2, <2>1
  <2> QED BY <2>2, <2>3, <2>4
<1>5. Nat \subseteq G
  <2> HIDE DEF G
  <2> QED BY <1>3, <1>4, NatSetInduction
<1>6. PICK vector : vector = NumbersOf(ind, names, kept)
  OBVIOUS
<1>7. vector \in Seq(X)
  <2>1. vector = run[Len(names)] /\ Len(names) \in Nat
    BY <1>1, <1>6 DEF IsNamesRun
  <2> QED BY <1>5, <2>1
<1>8. DOMAIN vector = 1..Len(vector) /\ Len(vector) \in Nat
  BY <1>7
<1> QED BY <1>6, <1>8, FS_Interval

LEMMA PreparedData ==
  ASSUME ThreadsInv, phase \in Prepared
  PROVE  /\ threads \in Nat \ {0} /\ x \in Seq(Sentence) /\ Len(x) \in Nat /\ DOMAIN x = 1..Len(x)
         /\ IsFiniteSet(DOMAIN x)
         /\ NumbersWell(index, alpha) /\ index.maxid \in Nat
         /\ \A s \in DOMAIN x : LossesIn(index, alpha, x)[s] \in Int
         /\ \A id \in 0 .. index.maxid - 1 : \A s \in DOMAIN x : CountsIn(index, x, id)[s] \in Int
<1>1. x \in Seq(Sentence) /\ threads \in Nat \ {0}
  BY TrainingAssumption DEF ThreadsInv, IndexInv, SettingsWell
<1>2. NumbersWell(index, alpha) /\ DOMAIN index.cache = KeysIn(x)
  BY DEF ThreadsInv, IndexInv, Aligned
<1>3. Len(x) \in Nat /\ DOMAIN x = 1..Len(x)
  BY <1>1
<1>4. IsFiniteSet(DOMAIN x)
  BY <1>3, FS_Interval
<1>5. index.maxid \in Nat
  BY <1>2 DEF NumbersWell
<1> QED BY <1>1, <1>2, <1>3, <1>4, <1>5, LossesType

LEMMA PrepareStarts == ThreadsInv /\ Prepare => ThreadsInv'
<1> SUFFICES ASSUME ThreadsInv, Prepare PROVE ThreadsInv'
  OBVIOUS
<1>1. IndexInv'
  BY PrepareKeepsIndex DEF ThreadsInv
<1>2. /\ phase = "read" /\ phase' = "iterate" /\ alpha' = old_alpha' /\ expected' = Zero(index'.maxid)
      /\ old_alpha' = Resized(old_alpha, index'.maxid)
      /\ worker' = [i \in 0 .. threads - 1 |-> Idle(index'.maxid)] /\ UNCHANGED <<old, threads>>
  BY DEF Prepare, setting
<1>3. Aligned(index', observed', x', KeptNames(x', FeaturesOld', freq')) /\ x' \in Seq(Sentence)
  BY <1>1, <1>2 DEF IndexInv, Prepared, SettingsWell
<1>4. index'.maxid \in Nat
  BY <1>3 DEF Aligned, Dense
<1>5. NumbersWell(index', alpha')
  <2>1. \A i \in DOMAIN old_alpha : old_alpha[i] \in Int
    <3>1. old \in OldModels /\ old_alpha = [i \in 0 .. Len(old) - 1 |-> old[i + 1].weight]
      BY <1>2 DEF ThreadsInv, IndexInv, SettingsWell, WeightsOld
    <3>2. \A i \in 0 .. Len(old) - 1 : old[i + 1].weight \in Int
      <4> SUFFICES ASSUME NEW i \in 0 .. Len(old) - 1 PROVE old[i + 1].weight \in Int
        OBVIOUS
      <4>1. DOMAIN old = 1..Len(old) /\ Len(old) \in Nat
        BY <3>1, OldType
      <4>2. i + 1 \in DOMAIN old
        BY <4>1
      <4>3. old[i + 1].weight \in Int
        BY <3>1, <4>2, OldType
      <4> QED BY <4>3
    <3> QED BY <3>1, <3>2
  <2>2. DOMAIN alpha' = 0 .. index'.maxid - 1 /\ \A id \in DOMAIN alpha' : alpha'[id] \in Int
    BY <1>2, <2>1 DEF Resized
  <2>3. ASSUME NEW key \in DOMAIN index'.cache PROVE IsFiniteSet(DOMAIN index'.cache[key].vector)
    <3>1. PICK kept : kept = KeptNames(x', FeaturesOld', freq')
      OBVIOUS
    <3>2. index'.cache[key].vector = NumbersOf(index', FeaturesOf[key], kept) /\ key \in KeysIn(x')
      BY <1>3, <3>1 DEF Aligned
    <3>3. FeaturesOf[key] \in Seq(Features)
      BY <1>3, <3>2, KeysType, NamedType
    <3> QED BY <3>2, <3>3, NumbersFinite
  <2> QED BY <1>4, <2>2, <2>3 DEF NumbersWell
<1>6. /\ DOMAIN expected' = 0 .. index'.maxid - 1
      /\ worker' = [i \in 0 .. threads' - 1 |-> worker'[i]]
      /\ \A i \in 0 .. threads' - 1 : WorkerWell(i)'
  <2>1. ASSUME NEW i \in 0 .. threads' - 1 PROVE WorkerWell(i)'
    <3>1. worker'[i] = [state |-> "idle", next |-> 0, f |-> 0, expected |-> Zero(index'.maxid)]
      BY <1>2 DEF Idle
    <3> QED BY <1>2, <3>1 DEF WorkerWell, IsWorker
  <2> QED BY <1>2, <2>1 DEF Zero
<1> QED BY <1>1, <1>2, <1>5, <1>6 DEF ThreadsInv, Prepared

\* a step that changes neither what is added up nor the workers
LEMMA OthersKeepThreads ==
  ASSUME ThreadsInv, IndexInv', UNCHANGED <<setting, data, alpha, worker>>,
         DOMAIN expected' = DOMAIN expected,
         phase' = phase \/ (phase \notin {"start", "join"} /\ phase' \in Prepared \ {"join"}),
         phase' = "judge" => Summed(index, alpha, x, obj', expected'), phase' # "dead", phase \in Prepared
  PROVE  ThreadsInv'
<1>1. /\ index' = index /\ alpha' = alpha /\ x' = x /\ threads' = threads /\ worker' = worker
  BY DEF setting, data
<1>2. ASSUME NEW i \in 0 .. threads - 1 PROVE WorkerWell(i)'
  <2>1. WorkerWell(i)
    BY DEF ThreadsInv
  <2> QED BY <1>1, <2>1 DEF WorkerWell
<1>3. phase' \in Prepared
  OBVIOUS
<1>4. (NumbersWell(index, alpha) /\ DOMAIN expected = 0 .. index.maxid - 1
         /\ worker = [i \in 0 .. threads - 1 |-> worker[i]] /\ \A i \in 0 .. threads - 1 : WorkerWell(i))'
  BY <1>1, <1>2 DEF ThreadsInv
<1>5. (phase = "judge" => Summed(index, alpha, x, obj, expected))'
  BY <1>1
<1> QED BY <1>4, <1>5 DEF ThreadsInv

LEMMA IterateKeepsThreads == ThreadsInv /\ Iterate => ThreadsInv'
<1> SUFFICES ASSUME ThreadsInv, Iterate PROVE ThreadsInv'
  OBVIOUS
<1>1. IndexInv'
  BY IndexStep DEF ThreadsInv, Next, MainStep
<1>2. /\ phase = "iterate" /\ phase' \in {"start", "sum"} /\ expected' = Zero(index.maxid)
      /\ UNCHANGED <<setting, data, alpha, worker>>
  BY DEF Iterate
<1>3. DOMAIN expected' = DOMAIN expected
  BY <1>2 DEF ThreadsInv, Prepared, Zero
<1> QED BY <1>1, <1>2, <1>3, OthersKeepThreads DEF Prepared

LEMMA WithoutThreadsSums == ThreadsInv /\ WithoutThreads => ThreadsInv'
<1> SUFFICES ASSUME ThreadsInv, WithoutThreads PROVE ThreadsInv'
  OBVIOUS
<1>1. IndexInv'
  BY IndexStep DEF ThreadsInv, Next, MainStep
<1>2. /\ phase = "sum" /\ phase' = "judge"
      /\ obj' = SumFunction([s \in Sentences |-> Loss(x[s])])
      /\ expected' = [id \in DOMAIN expected |-> SumFunction([s \in Sentences |-> Expectation(x[s])[id]])]
      /\ UNCHANGED <<setting, data, alpha, worker>>
  BY DEF WithoutThreads
<1>3. DOMAIN expected = 0 .. index.maxid - 1
  BY <1>2 DEF ThreadsInv, Prepared
<1>4. Summed(index, alpha, x, obj', expected')
  <2>1. obj' = Total(LossesIn(index, alpha, x), DOMAIN x)
    <3>1. obj' = SumFunction(LossesIn(index, alpha, x)) /\ DOMAIN LossesIn(index, alpha, x) = DOMAIN x
      BY <1>2, LossesAre DEF Sentences
    <3> QED BY <3>1, SumIsTotal
  <2>2. ASSUME NEW id
        PROVE  SumFunction([s \in Sentences |-> Expectation(x[s])[id]]) = Total(CountsIn(index, x, id), DOMAIN x)
    <3>1. /\ [s \in Sentences |-> Expectation(x[s])[id]] = CountsIn(index, x, id)
          /\ DOMAIN CountsIn(index, x, id) = DOMAIN x
      BY DEF CountsIn, Expectation, Sentences
    <3> QED BY <3>1, SumIsTotal
  <2> QED BY <1>2, <1>3, <2>1, <2>2 DEF Summed
<1> QED BY <1>1, <1>2, <1>4, OthersKeepThreads DEF Prepared

\* a step of one worker
LEMMA WorkerKeepsThreads ==
  ASSUME ThreadsInv, IndexInv', NEW i \in DOMAIN worker, NEW w, worker' = [worker EXCEPT ![i] = w],
         UNCHANGED <<setting, data, alpha, obj, expected>>, phase \in {"start", "join"},
         phase' \in {"start", "join"}, IsWorker(w), w.state \in {"started", "running", "done"},
         w.state # "started" => Added(index, alpha, x, threads, i, w),
         w.state = "done" => w.next >= Len(x)
  PROVE  ThreadsInv'
<1>1. index' = index /\ alpha' = alpha /\ x' = x /\ threads' = threads /\ expected' = expected
  BY DEF setting, data
<1>2. DOMAIN worker = 0 .. threads - 1 /\ worker' = [j \in 0 .. threads - 1 |-> worker'[j]]
  <2>1. worker = [j \in 0 .. threads - 1 |-> worker[j]]
    BY DEF ThreadsInv, Prepared
  <2>2. DOMAIN worker = 0 .. threads - 1
    BY <2>1
  <2> QED BY <2>2
<1>3. ASSUME NEW j \in 0 .. threads - 1 PROVE WorkerWell(j)'
  <2>1. WorkerWell(j)
    BY DEF ThreadsInv, Prepared
  <2>2. worker'[j] = IF j = i THEN w ELSE worker[j]
    BY <1>2
  <2>3. CASE j = i
    BY <1>1, <2>2, <2>3 DEF WorkerWell
  <2>4. CASE j # i
    BY <1>1, <2>1, <2>2, <2>4 DEF WorkerWell
  <2> QED BY <2>3, <2>4
<1>4. (NumbersWell(index, alpha) /\ DOMAIN expected = 0 .. index.maxid - 1
         /\ worker = [j \in 0 .. threads - 1 |-> worker[j]] /\ \A j \in 0 .. threads - 1 : WorkerWell(j))'
  BY <1>1, <1>2, <1>3 DEF ThreadsInv, Prepared
<1> QED BY <1>4 DEF ThreadsInv

\* the state of a worker is set
LEMMA StateIsSet ==
  ASSUME NEW v, IsWorker(v), NEW state, NEW w, w = [v EXCEPT !.state = state]
  PROVE  IsWorker(w) /\ w.state = state /\ w.next = v.next /\ w.f = v.f /\ w.expected = v.expected
<1>1. w = [state |-> state, next |-> v.next, f |-> v.f, expected |-> v.expected]
  BY DEF IsWorker
<1> QED BY <1>1 DEF IsWorker

LEMMA WorkerOf ==
  ASSUME ThreadsInv, NEW i \in DOMAIN worker, phase \in Prepared
  PROVE  i \in 0 .. threads - 1 /\ WorkerWell(i) /\ IsWorker(worker[i])
<1>1. worker = [j \in 0 .. threads - 1 |-> worker[j]]
  BY DEF ThreadsInv
<1>2. i \in 0 .. threads - 1
  BY <1>1
<1> QED BY <1>2 DEF ThreadsInv, WorkerWell

LEMMA StartKeepsThreads ==
  ASSUME ThreadsInv, NEW i \in DOMAIN worker, Start(i)
  PROVE  ThreadsInv'
<1>1. IndexInv'
  BY IndexStep DEF ThreadsInv, Next, MainStep
<1>2. /\ phase = "start" /\ phase' \in {"start", "join"}
      /\ worker' = [worker EXCEPT ![i].state = "started"]
      /\ UNCHANGED <<setting, data, alpha, obj, expected>>
  BY DEF Start
<1>3. IsWorker(worker[i])
  BY <1>2, WorkerOf DEF Prepared
<1>4. PICK w : w = [worker[i] EXCEPT !.state = "started"]
  OBVIOUS
<1>5. IsWorker(w) /\ w.state = "started"
  BY <1>3, <1>4, StateIsSet
<1>6. worker' = [worker EXCEPT ![i] = w]
  BY <1>2, <1>4
<1> QED BY <1>1, <1>2, <1>5, <1>6, WorkerKeepsThreads

LEMMA RunningPhase ==
  ASSUME ThreadsInv, NEW i \in DOMAIN worker, phase \in Prepared, worker[i].state # "idle"
  PROVE  phase \in {"start", "join"}
BY WorkerOf DEF WorkerWell

LEMMA RunBeginKeepsThreads ==
  ASSUME ThreadsInv, NEW i \in DOMAIN worker, RunBegin(i), phase \in Prepared
  PROVE  ThreadsInv'
<1>1. IndexInv'
  BY IndexStep DEF ThreadsInv, Next, WorkerStep
<1>2. PICK w : w = [state |-> "running", next |-> i, f |-> 0, expected |-> Zero(index.maxid)]
  OBVIOUS
<1>3. /\ worker[i].state = "started" /\ worker' = [worker EXCEPT ![i] = w]
      /\ UNCHANGED <<setting, phase, data, alpha, obj, expected>>
  BY <1>2 DEF RunBegin
<1>4. phase \in {"start", "join"}
  BY <1>3, RunningPhase
<1>5. IsWorker(w) /\ w.state = "running"
  BY <1>2 DEF IsWorker
<1>6. Added(index, alpha, x, threads, i, w)
  <2>1. i \in 0 .. threads - 1 /\ threads \in Nat \ {0} /\ DOMAIN x = 1..Len(x) /\ Len(x) \in Nat
    BY WorkerOf, PreparedData
  <2>2. Share(x, i, threads, i) = {}
    <3>1. \A s \in Turn(i, threads) : s >= i + 1
      BY <2>1, TurnFirst
    <3>2. \A s \in DOMAIN x : ~ (s <= i /\ s >= i + 1)
      BY <2>1
    <3> QED BY <3>1, <3>2 DEF Share
  <2>3. \A f : Total(f, Share(x, i, threads, i)) = 0
    BY <2>2, TotalEmpty
  <2>4. i + 1 \in Turn(i, threads)
    BY <2>1, TurnFirst
  <2>5. w.next = i /\ w.f = 0 /\ w.expected = [id \in 0 .. index.maxid - 1 |-> 0]
    BY <1>2 DEF Zero
  <2>6. i \in Nat
    BY <2>1
  <2> QED BY <2>3, <2>4, <2>5, <2>6 DEF Added
<1> QED BY <1>1, <1>3, <1>4, <1>5, <1>6, WorkerKeepsThreads

\* the next sentence is added
LEMMA GradientAdds ==
  ASSUME ThreadsInv, NEW i \in DOMAIN worker, Gradient(i), phase \in Prepared,
         NEW v, v = worker[i], NEW w, w.next = v.next + threads, w.f = v.f + Loss(x[v.next + 1]),
         w.expected = Plus(v.expected, Expectation(x[v.next + 1]))
  PROVE  Added(index, alpha, x, threads, i, w)
<1>1. IsWorker(v) /\ v.state = "running" /\ v.next < Len(x) /\ Added(index, alpha, x, threads, i, v)
      /\ i \in 0 .. threads - 1
  <2>1. v.state = "running" /\ v.next < Len(x)
    BY DEF Gradient
  <2>2. i \in 0 .. threads - 1 /\ WorkerWell(i)
    BY WorkerOf
  <2> QED BY <2>1, <2>2 DEF WorkerWell
<1>2. /\ threads \in Nat \ {0} /\ DOMAIN x = 1..Len(x) /\ Len(x) \in Nat /\ IsFiniteSet(DOMAIN x)
      /\ \A s \in DOMAIN x : LossesIn(index, alpha, x)[s] \in Int
      /\ \A id \in 0 .. index.maxid - 1 : \A s \in DOMAIN x : CountsIn(index, x, id)[s] \in Int
  BY PreparedData
<1>3. PICK s, done : s = v.next + 1 /\ done = Share(x, i, threads, v.next)
  OBVIOUS
<1>4. /\ w.next = v.next + threads /\ w.f = v.f + Loss(x[s])
      /\ w.expected = Plus(v.expected, Expectation(x[s]))
  BY <1>3
<1>5. s \in DOMAIN x /\ s \notin done /\ IsFiniteSet(done) /\ v.next \in Nat /\ done \in SUBSET DOMAIN x
  <2>1. v.next \in Nat
    BY <1>1 DEF Added
  <2>2. s \in DOMAIN x
    BY <1>1, <1>2, <1>3, <2>1
  <2>3. s \notin done
    BY <1>3, <2>1 DEF Share
  <2>4. done \in SUBSET DOMAIN x
    BY <1>3 DEF Share
  <2> QED BY <1>2, <2>1, <2>2, <2>3, <2>4, FS_Subset
<1>6. Share(x, i, threads, v.next + threads) = done \union {s}
  <2>1. s \in Turn(i, threads)
    BY <1>1, <1>3 DEF Added
  <2>2. \A r \in Turn(i, threads) : r >= s /\ r < s + threads => r = s
    BY <1>1, <1>2, <2>1, TurnNext
  <2>3. ASSUME NEW r \in DOMAIN x
        PROVE  r <= v.next + threads /\ r \in Turn(i, threads)
                 <=> r = s \/ (r <= v.next /\ r \in Turn(i, threads))
    <3>1. r \in Nat
      BY <1>2
    <3>2. r <= v.next + threads <=> r < s + threads
      BY <1>2, <1>3, <1>5, <3>1
    <3>3. r >= s \/ r <= v.next
      BY <1>3, <1>5, <3>1
    <3>4. r <= v.next => r < s + threads
      BY <1>2, <1>3, <1>5, <3>1
    <3>5. s < s + threads
      BY <1>2, <1>3, <1>5
    <3> QED BY <2>1, <2>2, <3>2, <3>3, <3>4, <3>5
  <2> QED BY <1>3, <1>5, <2>3 DEF Share
<1>7. v.next + threads \in Nat /\ (v.next + threads) + 1 \in Turn(i, threads)
  <2>1. s \in Turn(i, threads)
    BY <1>1, <1>3 DEF Added
  <2>2. s + threads \in Turn(i, threads)
    BY <1>1, <1>2, <2>1, TurnNext
  <2>3. s + threads = (v.next + threads) + 1
    BY <1>2, <1>3, <1>5
  <2> QED BY <1>2, <1>5, <2>2, <2>3
<1>8. w.f = Total(LossesIn(index, alpha, x), Share(x, i, threads, v.next + threads))
  <2>1. PICK g : g = LossesIn(index, alpha, x)
    OBVIOUS
  <2>2. \A r \in done \union {s} : g[r] \in Int
    BY <1>2, <1>5, <2>1
  <2>3. Total(g, done \union {s}) = Total(g, done) + g[s]
    BY <1>5, <2>2, TotalMore
  <2>4. g[s] = Loss(x[s]) /\ v.f = Total(g, done)
    BY <1>1, <1>3, <1>5, <2>1, LossesAre DEF Added
  <2> QED BY <1>4, <1>6, <2>1, <2>3, <2>4
<1>9. ASSUME NEW id \in 0 .. index.maxid - 1
      PROVE  v.expected[id] + Expectation(x[s])[id]
               = Total(CountsIn(index, x, id), Share(x, i, threads, v.next + threads))
  <2>1. PICK g : g = CountsIn(index, x, id)
    OBVIOUS
  <2>2. \A r \in done \union {s} : g[r] \in Int
    BY <1>2, <1>5, <2>1
  <2>3. Total(g, done \union {s}) = Total(g, done) + g[s]
    BY <1>5, <2>2, TotalMore
  <2>4. g[s] = Expectation(x[s])[id]
    BY <1>5, <2>1 DEF CountsIn, Expectation
  <2>5. v.expected[id] = Total(g, done)
    BY <1>1, <1>3, <2>1 DEF Added
  <2> QED BY <1>6, <2>1, <2>3, <2>4, <2>5
<1>10. w.expected = [id \in 0 .. index.maxid - 1 |->
                       Total(CountsIn(index, x, id), Share(x, i, threads, v.next + threads))]
  <2>1. DOMAIN v.expected = 0 .. index.maxid - 1
    BY <1>1 DEF Added
  <2>2. w.expected = [id \in 0 .. index.maxid - 1 |-> v.expected[id] + Expectation(x[s])[id]]
    BY <1>4, <2>1 DEF Plus
  <2> QED BY <1>9, <2>2
<1> QED BY <1>4, <1>7, <1>8, <1>10 DEF Added

LEMMA GradientKeepsThreads ==
  ASSUME ThreadsInv, NEW i \in DOMAIN worker, Gradient(i), phase \in Prepared
  PROVE  ThreadsInv'
<1>1. IndexInv'
  BY IndexStep DEF ThreadsInv, Next, WorkerStep
<1>2. PICK v, s : v = worker[i] /\ s = x[v.next + 1]
  OBVIOUS
<1>3. PICK w : w = [v EXCEPT !.f = @ + Loss(s), !.expected = Plus(@, Expectation(s)), !.next = @ + threads]
  OBVIOUS
<1>4. /\ v.state = "running"
      /\ worker' = [worker EXCEPT ![i].f = @ + Loss(s), ![i].expected = Plus(@, Expectation(s)),
                                  ![i].next = @ + threads]
      /\ UNCHANGED <<setting, phase, data, alpha, obj, expected>>
  BY <1>2 DEF Gradient
<1>5. worker' = [worker EXCEPT ![i] = w]
  BY <1>2, <1>3, <1>4
<1>6. IsWorker(w) /\ w.state = "running" /\ Added(index, alpha, x, threads, i, w)
  <2>1. IsWorker(v)
    BY <1>2, WorkerOf
  <2>2. w = [state |-> "running", next |-> v.next + threads, f |-> v.f + Loss(s),
             expected |-> Plus(v.expected, Expectation(s))]
    BY <1>3, <1>4, <2>1 DEF IsWorker
  <2>3. /\ IsWorker(w) /\ w.state = "running" /\ w.next = v.next + threads /\ w.f = v.f + Loss(s)
        /\ w.expected = Plus(v.expected, Expectation(s))
    BY <2>2 DEF IsWorker
  <2> QED BY <1>2, <2>3, GradientAdds
<1>7. phase \in {"start", "join"}
  BY <1>2, <1>4, RunningPhase
<1> QED BY <1>1, <1>4, <1>5, <1>6, <1>7, WorkerKeepsThreads

LEMMA RunEndKeepsThreads ==
  ASSUME ThreadsInv, NEW i \in DOMAIN worker, RunEnd(i), phase \in Prepared
  PROVE  ThreadsInv'
<1>1. IndexInv'
  BY IndexStep DEF ThreadsInv, Next, WorkerStep
<1>2. PICK v : v = worker[i]
  OBVIOUS
<1>3. /\ v.state = "running" /\ v.next >= Len(x) /\ worker' = [worker EXCEPT ![i].state = "done"]
      /\ UNCHANGED <<setting, phase, data, alpha, obj, expected>>
  BY <1>2 DEF RunEnd
<1>4. PICK w : w = [v EXCEPT !.state = "done"]
  OBVIOUS
<1>5. IsWorker(v) /\ Added(index, alpha, x, threads, i, v)
  BY <1>2, <1>3, WorkerOf DEF WorkerWell
<1>6. IsWorker(w) /\ w.state = "done" /\ w.next = v.next /\ w.f = v.f /\ w.expected = v.expected
  BY <1>4, <1>5, StateIsSet
<1>7. worker' = [worker EXCEPT ![i] = w]
  BY <1>2, <1>3, <1>4
<1>8. Added(index, alpha, x, threads, i, w)
  BY <1>5, <1>6 DEF Added
<1>9. phase \in {"start", "join"}
  BY <1>2, <1>3, RunningPhase
<1> QED BY <1>1, <1>3, <1>6, <1>7, <1>8, <1>9, WorkerKeepsThreads

\* the shares of the threads that are done are all sentences, each once
LEMMA SharesSum ==
  ASSUME ThreadsInv, phase = "join", \A i \in DOMAIN worker : worker[i].state = "done",
         NEW f, \A s \in DOMAIN x : f[s] \in Int,
         NEW g, \A i \in DOMAIN worker : g[i] = Total(f, Share(x, i, threads, worker[i].next))
  PROVE  Total(g, DOMAIN worker) = Total(f, DOMAIN x)
<1>1. /\ threads \in Nat \ {0} /\ Len(x) \in Nat /\ DOMAIN x = 1..Len(x) /\ IsFiniteSet(DOMAIN x)
  BY PreparedData DEF Prepared
<1>2. PICK I, part : I = DOMAIN worker /\ part = [i \in DOMAIN worker |-> Share(x, i, threads, worker[i].next)]
  OBVIOUS
<1>3. I = 0 .. threads - 1
  <2>1. worker = [j \in 0 .. threads - 1 |-> worker[j]]
    BY DEF ThreadsInv, Prepared
  <2> QED BY <1>2, <2>1
<1>4. IsFiniteSet(I)
  <2>1. 0 \in Int /\ threads - 1 \in Int
    BY <1>1
  <2> QED BY <1>3, <2>1, FS_Interval
<1>5. \A i \in I : part[i] \in SUBSET DOMAIN x
  BY <1>2 DEF Share
<1>6. \A i, j \in I : i # j => part[i] \cap part[j] = {}
  <2> SUFFICES ASSUME NEW i \in I, NEW j \in I, NEW s, s \in part[i], s \in part[j] PROVE i = j
    OBVIOUS
  <2>1. s \in Turn(i, threads) /\ s \in Turn(j, threads)
    BY <1>2 DEF Share
  <2> QED BY <1>1, <1>3, <2>1, TurnsDisjoint
<1>7. UNION { part[i] : i \in I } = DOMAIN x
  <2>1. ASSUME NEW s \in DOMAIN x PROVE \E i \in I : s \in part[i]
    <3>1. s \in Nat \ {0} /\ s <= Len(x)
      BY <1>1
    <3>2. PICK i \in 0 .. threads - 1 : s \in Turn(i, threads)
      BY <1>1, <3>1, TurnsCover
    <3>3. i \in DOMAIN worker /\ WorkerWell(i) /\ worker[i].state = "done"
      BY <1>2, <1>3, WorkerOf DEF Prepared
    <3>4. worker[i].next >= Len(x) /\ worker[i].next \in Nat
      BY <3>3 DEF WorkerWell, Added
    <3>5. s <= worker[i].next
      BY <1>1, <3>1, <3>4
    <3>6. s \in Share(x, i, threads, worker[i].next)
      BY <3>2, <3>5 DEF Share
    <3> QED BY <1>2, <3>3, <3>6
  <2> QED BY <1>5, <2>1
<1>8. \A i \in I : g[i] = Total(f, part[i])
  BY <1>2
<1>9. Total(g, I) = Total(f, UNION { part[i] : i \in I })
  <2>1. PICK T : T = DOMAIN x
    OBVIOUS
  <2>2. Apart(part, I, T)
    BY <1>5, <1>6, <2>1 DEF Apart
  <2>3. IsFiniteSet(T) /\ \A s \in T : f[s] \in Int
    BY <1>1, <2>1
  <2> QED BY <1>4, <1>8, <2>2, <2>3, TotalParts
<1> QED BY <1>2, <1>7, <1>9

LEMMA ReduceSums == ThreadsInv /\ Reduce => ThreadsInv'
<1> SUFFICES ASSUME ThreadsInv, Reduce PROVE ThreadsInv'
  OBVIOUS
<1>1. IndexInv'
  BY IndexStep DEF ThreadsInv, Next, MainStep
<1>2. /\ phase = "join" /\ phase' = "judge" /\ \A i \in DOMAIN worker : worker[i].state = "done"
      /\ obj' = SumFunction([i \in DOMAIN worker |-> worker[i].f])
      /\ expected' = [id \in DOMAIN expected |->
                        SumFunction([i \in DOMAIN worker |-> worker[i].expected[id]])]
      /\ worker' = [i \in DOMAIN worker |-> [worker[i] EXCEPT !.state = "idle"]]
      /\ UNCHANGED <<setting, data, alpha>>
  BY DEF Reduce
<1>3. index' = index /\ alpha' = alpha /\ x' = x /\ threads' = threads
  BY <1>2 DEF setting, data
<1>4. /\ DOMAIN worker = 0 .. threads - 1 /\ DOMAIN expected = 0 .. index.maxid - 1
      /\ \A i \in DOMAIN worker : IsWorker(worker[i]) /\ Added(index, alpha, x, threads, i, worker[i])
  <2>1. worker = [j \in 0 .. threads - 1 |-> worker[j]] /\ DOMAIN expected = 0 .. index.maxid - 1
    BY <1>2 DEF ThreadsInv, Prepared
  <2>2. DOMAIN worker = 0 .. threads - 1
    BY <2>1
  <2>3. ASSUME NEW i \in DOMAIN worker PROVE IsWorker(worker[i]) /\ Added(index, alpha, x, threads, i, worker[i])
    <3>1. WorkerWell(i) /\ worker[i].state = "done"
      BY <1>2, WorkerOf DEF Prepared
    <3> QED BY <3>1 DEF WorkerWell
  <2> QED BY <2>1, <2>2, <2>3
<1>5. obj' = Total(LossesIn(index, alpha, x), DOMAIN x)
  <2>1. PICK g, f : g = [i \in DOMAIN worker |-> worker[i].f] /\ f = LossesIn(index, alpha, x)
    OBVIOUS
  <2>2. \A i \in DOMAIN worker : g[i] = Total(f, Share(x, i, threads, worker[i].next))
    BY <1>4, <2>1 DEF Added
  <2>3. \A s \in DOMAIN x : f[s] \in Int
    BY <1>2, <2>1, PreparedData DEF Prepared
  <2>4. Total(g, DOMAIN worker) = Total(f, DOMAIN x)
    BY <1>2, <2>2, <2>3, SharesSum
  <2>5. SumFunction(g) = Total(g, DOMAIN worker)
    <3>1. DOMAIN g = DOMAIN worker
      BY <2>1
    <3> QED BY <3>1, SumIsTotal
  <2> QED BY <1>2, <2>1, <2>4, <2>5
<1>6. ASSUME NEW id \in 0 .. index.maxid - 1
      PROVE  SumFunction([i \in DOMAIN worker |-> worker[i].expected[id]])
               = Total(CountsIn(index, x, id), DOMAIN x)
  <2>1. PICK g, f : g = [i \in DOMAIN worker |-> worker[i].expected[id]] /\ f = CountsIn(index, x, id)
    OBVIOUS
  <2>2. \A i \in DOMAIN worker : g[i] = Total(f, Share(x, i, threads, worker[i].next))
    BY <1>4, <2>1 DEF Added
  <2>3. \A s \in DOMAIN x : f[s] \in Int
    BY <1>2, <2>1, PreparedData DEF Prepared
  <2>4. Total(g, DOMAIN worker) = Total(f, DOMAIN x)
    BY <1>2, <2>2, <2>3, SharesSum
  <2>5. SumFunction(g) = Total(g, DOMAIN worker)
    <3>1. DOMAIN g = DOMAIN worker
      BY <2>1
    <3> QED BY <3>1, SumIsTotal
  <2> QED BY <2>1, <2>4, <2>5
<1>7. expected' = [id \in 0 .. index.maxid - 1 |-> Total(CountsIn(index, x, id), DOMAIN x)]
  BY <1>2, <1>4, <1>6
<1>8. ASSUME NEW i \in 0 .. threads - 1 PROVE WorkerWell(i)'
  <2>1. PICK w : w = [worker[i] EXCEPT !.state = "idle"]
    OBVIOUS
  <2>2. worker'[i] = w
    BY <1>2, <1>4, <2>1
  <2>3. IsWorker(w) /\ w.state = "idle"
    BY <1>4, <2>1, StateIsSet
  <2> QED BY <1>2, <2>2, <2>3 DEF WorkerWell
<1>9. (NumbersWell(index, alpha) /\ DOMAIN expected = 0 .. index.maxid - 1
         /\ worker = [i \in 0 .. threads - 1 |-> worker[i]] /\ \A i \in 0 .. threads - 1 : WorkerWell(i))'
  <2>1. NumbersWell(index, alpha)
    BY <1>2 DEF ThreadsInv, Prepared
  <2> QED BY <1>2, <1>3, <1>4, <1>8, <2>1
<1>10. Summed(index, alpha, x, obj, expected)'
  BY <1>3, <1>5, <1>7 DEF Summed
<1> QED BY <1>1, <1>9, <1>10 DEF ThreadsInv

LEMMA JudgeKeepsThreads == ThreadsInv /\ Judge => ThreadsInv'
<1> SUFFICES ASSUME ThreadsInv, Judge PROVE ThreadsInv'
  OBVIOUS
<1>1. IndexInv'
  BY IndexStep DEF ThreadsInv, Next, MainStep
<1>2. /\ phase = "judge" /\ UNCHANGED <<setting, data, worker, expected>>
      /\ \/ phase' \in {"saved", "dead"} /\ alpha' = alpha
         \/ phase' = "iterate" /\ alpha' \in [DOMAIN alpha -> Weights]
  BY DEF Judge, Save, Optimize
<1>3. index' = index /\ x' = x /\ threads' = threads
  BY <1>2 DEF setting, data
<1>4. NumbersWell(index, alpha)'
  <2>1. NumbersWell(index, alpha)
    BY <1>2 DEF ThreadsInv, Prepared
  <2>2. CASE alpha' = alpha
    BY <1>3, <2>1, <2>2
  <2>3. CASE alpha' \in [DOMAIN alpha -> Weights]
    <3>1. DOMAIN alpha' = DOMAIN alpha /\ \A id \in DOMAIN alpha : alpha'[id] \in Int
      <4>1. Weights \subseteq Int
        BY TrainingAssumption
      <4> QED BY <2>3, <4>1
    <3> QED BY <1>3, <2>1, <3>1 DEF NumbersWell
  <2> QED BY <1>2, <2>2, <2>3
<1>5. ASSUME NEW i \in 0 .. threads - 1 PROVE WorkerWell(i)'
  <2>1. WorkerWell(i)
    BY <1>2 DEF ThreadsInv, Prepared
  <2>2. IsWorker(worker'[i]) /\ worker'[i].state = "idle"
    BY <1>2, <2>1 DEF WorkerWell
  <2> QED BY <2>2 DEF WorkerWell
<1>6. (DOMAIN expected = 0 .. index.maxid - 1 /\ worker = [i \in 0 .. threads - 1 |-> worker[i]])'
  BY <1>2, <1>3 DEF ThreadsInv, Prepared
<1>7. phase' # "judge"
  BY <1>2
<1> QED BY <1>1, <1>3, <1>4, <1>5, <1>6, <1>7 DEF ThreadsInv

LEMMA ThreadsStep == ThreadsInv /\ [Next]_vars => ThreadsInv'
<1> SUFFICES ASSUME ThreadsInv, [Next]_vars PROVE ThreadsInv'
  OBVIOUS
<1>0. IndexInv'
  BY IndexStep DEF ThreadsInv
<1>1. ASSUME phase' \notin Prepared PROVE ThreadsInv'
  BY <1>0, <1>1 DEF ThreadsInv, Prepared
<1>2. CASE ReadSentence \/ Die \/ ReadUnended
  BY <1>1, <1>2 DEF ReadSentence, Die, ReadUnended, Reading, Prepared
<1>3. CASE Prepare
  BY <1>3, PrepareStarts
<1>4. CASE Iterate
  BY <1>4, IterateKeepsThreads
<1>5. CASE WithoutThreads
  BY <1>5, WithoutThreadsSums
<1>6. ASSUME NEW i \in DOMAIN worker, Start(i) PROVE ThreadsInv'
  BY <1>6, StartKeepsThreads
<1>7. CASE Reduce
  BY <1>7, ReduceSums
<1>8. CASE Judge
  BY <1>8, JudgeKeepsThreads
<1>9. ASSUME NEW i \in DOMAIN worker, WorkerStep(i) PROVE ThreadsInv'
  <2>1. phase' = phase
    BY <1>9 DEF WorkerStep, RunBegin, Gradient, RunEnd
  <2>2. CASE phase \notin Prepared
    BY <1>1, <2>1, <2>2
  <2>3. CASE phase \in Prepared
    BY <1>9, <2>3, RunBeginKeepsThreads, GradientKeepsThreads, RunEndKeepsThreads DEF WorkerStep
  <2> QED BY <2>2, <2>3
<1>10. CASE UNCHANGED vars
  <2>1. UNCHANGED <<phase, setting, data, alpha, worker, obj, expected>>
    BY <1>10 DEF vars
  <2>2. CASE phase \notin Prepared
    BY <1>1, <2>1, <2>2
  <2>3. CASE phase \in Prepared
    <3>1. phase' = "judge" => Summed(index, alpha, x, obj', expected')
      BY <2>1 DEF ThreadsInv
    <3>2. phase' # "dead"
      BY <2>1, <2>3 DEF Prepared
    <3> QED BY <1>0, <2>1, <2>3, <3>1, <3>2, OthersKeepThreads
  <2> QED BY <2>2, <2>3
<1> QED BY <1>2, <1>3, <1>4, <1>5, <1>6, <1>7, <1>8, <1>9, <1>10 DEF Next, MainStep

LEMMA InvSums == ThreadsInv => ReducedIsSum
<1> SUFFICES ASSUME ThreadsInv, phase = "judge" PROVE ReducedIsSum
  BY DEF ReducedIsSum
<1>1. /\ obj = Total(LossesIn(index, alpha, x), DOMAIN x)
      /\ expected = [id \in 0 .. index.maxid - 1 |-> Total(CountsIn(index, x, id), DOMAIN x)]
  BY DEF ThreadsInv, Summed
<1>2. obj = SumFunction([s \in Sentences |-> Loss(x[s])])
  <2>1. LossesIn(index, alpha, x) = [s \in Sentences |-> Loss(x[s])] /\ DOMAIN LossesIn(index, alpha, x) = DOMAIN x
    BY LossesAre DEF Sentences
  <2>2. obj = SumFunction(LossesIn(index, alpha, x))
    BY <1>1, <2>1, SumIsTotal
  <2> QED BY <2>1, <2>2
<1>3. \A id : SumFunction([s \in Sentences |-> Count(index, x[s])[id]]) = Total(CountsIn(index, x, id), DOMAIN x)
  <2> SUFFICES ASSUME NEW id
               PROVE  SumFunction([s \in Sentences |-> Count(index, x[s])[id]]) = Total(CountsIn(index, x, id), DOMAIN x)
    OBVIOUS
  <2>1. /\ [s \in Sentences |-> Count(index, x[s])[id]] = CountsIn(index, x, id)
        /\ DOMAIN CountsIn(index, x, id) = DOMAIN x
    BY DEF CountsIn, Sentences
  <2> QED BY <2>1, SumIsTotal
<1>4. expected = [id \in 0 .. index.maxid - 1 |-> SumFunction([s \in Sentences |-> Count(index, x[s])[id]])]
  BY <1>1, <1>3
<1> HIDE DEF ThreadsInv
<1> QED BY <1>2, <1>4 DEF ReducedIsSum

\* What the threads compute is what one thread would: the objective and the
\* expectation of every sentence, each once and with the weights of this
\* iteration (learner.cpp:184-206), for any number of threads and sentences and
\* in whatever order the threads run.
THEOREM ReductionIsSum == Spec => []ReducedIsSum
<1>1. Init => ThreadsInv
  BY IndexInit DEF ThreadsInv, Init, Prepared
<1>2. Spec => []ThreadsInv
  BY <1>1, ThreadsStep, PTL DEF Spec
<1>3. QED
  BY <1>2, InvSums, PTL
=============================================================================
