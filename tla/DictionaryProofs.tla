-------------------------- MODULE DictionaryProofs --------------------------
(***************************************************************************)
(* The compilation of a dictionary, for any files: it builds the double    *)
(* array of its words, and a search of the image finds exactly the entries *)
(* that the files have for the prefixes of a text.                         *)
(***************************************************************************)
EXTENDS Dictionary, DoubleArrayProofs, FiniteSetTheorems

-----------------------------------------------------------------------------
(* Ranks.  Where each member of a finite set has a set of predecessors, as *)
(* a linear order gives it, counting them numbers the members.             *)

Precedence(S, P) ==
  /\ IsFiniteSet(S) /\ P \in [S -> SUBSET S]
  /\ \A i \in S : i \notin P[i]
  /\ \A i, j \in S : i \in P[j] => P[i] \subseteq P[j]
  /\ \A i, j \in S : i # j => i \in P[j] \/ j \in P[i]

LEMMA RankOrder ==
  ASSUME NEW S, NEW P, Precedence(S, P), NEW i \in S, NEW j \in S
  PROVE  /\ Cardinality(P[i]) \in Nat
         /\ i \in P[j] <=> Cardinality(P[i]) < Cardinality(P[j])
         /\ Cardinality(P[i]) = Cardinality(P[j]) => i = j
<1>1. ASSUME NEW k \in S PROVE IsFiniteSet(P[k]) /\ Cardinality(P[k]) \in Nat
  <2>1. P[k] \in SUBSET S /\ IsFiniteSet(S)
    BY DEF Precedence
  <2> QED BY <2>1, FS_Subset, FS_CardinalityType
<1>2. ASSUME NEW k \in S, NEW l \in S, k \in P[l] PROVE Cardinality(P[k]) < Cardinality(P[l])
  <2>1. P[k] \subseteq P[l] /\ P[k] # P[l]
    BY <1>2 DEF Precedence
  <2>2. Cardinality(P[k]) <= Cardinality(P[l]) /\ Cardinality(P[k]) # Cardinality(P[l])
    BY <1>1, <2>1, FS_Subset
  <2> QED BY <1>1, <2>2, SMT
<1>3. ASSUME i \notin P[j] PROVE ~ (Cardinality(P[i]) < Cardinality(P[j]))
  <2>1. i = j \/ j \in P[i]
    BY <1>3 DEF Precedence
  <2>2. CASE i = j
    BY <1>1, <2>2, SMT
  <2>3. CASE j \in P[i]
    BY <1>1, <1>2, <2>3, SMT
  <2> QED BY <2>1, <2>2, <2>3
<1>4. ASSUME i # j PROVE Cardinality(P[i]) # Cardinality(P[j])
  <2>1. i \in P[j] \/ j \in P[i]
    BY <1>4 DEF Precedence
  <2> QED BY <1>1, <1>2, <2>1, SMT
<1> QED BY <1>1, <1>2, <1>3, <1>4

LEMMA RankOnto ==
  ASSUME NEW S, NEW P, Precedence(S, P), NEW n \in 1 .. Cardinality(S)
  PROVE  \E i \in S : Cardinality(P[i]) = n - 1
<1> DEFINE places == 0 .. Cardinality(S) - 1
           f == [i \in S |-> Cardinality(P[i])]
<1>1. IsFiniteSet(S) /\ Cardinality(S) \in Nat
  BY FS_CardinalityType DEF Precedence
<1>2. ASSUME NEW i \in S PROVE Cardinality(P[i]) \in places
  <2>1. P[i] \in SUBSET S /\ P[i] # S
    BY DEF Precedence
  <2>2. Cardinality(P[i]) <= Cardinality(S) /\ Cardinality(P[i]) # Cardinality(S)
    BY <1>1, <2>1, FS_Subset
  <2>3. Cardinality(P[i]) \in Nat
    BY RankOrder
  <2> QED BY <1>1, <2>2, <2>3, SMT
<1>3. f \in Injection(S, places)
  <2>1. f \in [S -> places]
    BY <1>2
  <2>2. \A i, j \in S : f[i] = f[j] => i = j
    BY RankOrder
  <2> HIDE DEF f
  <2> QED BY <2>1, <2>2 DEF Injection, IsInjective
<1>4. IsFiniteSet(places) /\ Cardinality(places) = Cardinality(S)
  <2>1. 0 \in Int /\ Cardinality(S) - 1 \in Int
    BY <1>1, SMT
  <2>2. /\ IsFiniteSet(places)
        /\ Cardinality(places) = IF 0 > Cardinality(S) - 1 THEN 0 ELSE ((Cardinality(S) - 1) - 0) + 1
    BY <2>1, FS_Interval
  <2> HIDE DEF places
  <2> QED BY <1>1, <2>2, SMT
<1>5. f \in Surjection(S, places)
  <2> HIDE DEF f, places
  <2> QED BY <1>1, <1>3, <1>4, FS_Injection
<1>6. n - 1 \in places
  BY <1>1, SMT
<1>7. \E i \in S : f[i] = n - 1
  BY <1>5, <1>6 DEF Surjection
<1> QED BY <1>7

-----------------------------------------------------------------------------
(* The order of the words *)

WordSet == Seq(0 .. MaxByte)

LEMMA ByteType ==
  ASSUME NEW u \in WordSet
  PROVE  Len(u) \in Nat /\ \A k \in 1 .. Len(u) : u[k] \in Nat
<1>1. \A k \in 1 .. Len(u) : u[k] \in 0 .. MaxByte
  BY ElementType, Zenon DEF WordSet
<1> QED BY <1>1, SMT DEF WordSet

LEMMA BeforeIrreflexive ==
  ASSUME NEW u \in WordSet
  PROVE  ~ Before(u, u)
<1> SUFFICES ASSUME NEW n \in 0 .. Len(u), n < Len(u), u[n + 1] < u[n + 1] PROVE FALSE
  <2>1. \A n \in 0 .. Len(u) : ~ (n = Len(u) /\ n < Len(u))
    BY ByteType, SMT
  <2> QED BY <2>1 DEF Before
<1>1. n + 1 \in 1 .. Len(u)
  BY ByteType, SMT
<1>2. u[n + 1] \in Nat
  BY <1>1, ByteType
<1> QED BY <1>2, SMT

LEMMA BeforeTotal ==
  ASSUME NEW u \in WordSet, NEW v \in WordSet, u # v
  PROVE  Before(u, v) \/ Before(v, u)
<1> DEFINE diff == { n \in Nat : n < Len(u) /\ n < Len(v) /\ u[n + 1] # v[n + 1] }
<1>0. Len(u) \in Nat /\ Len(v) \in Nat
  BY ByteType
<1>1. CASE diff # {}
  <2>1. PICK n \in diff : \A k \in diff : n <= k
    BY <1>1, LeastExists
  <2>2. \A k \in 1 .. n : u[k] = v[k]
    <3> SUFFICES ASSUME NEW k \in 1 .. n, u[k] # v[k] PROVE FALSE
      OBVIOUS
    <3>1. k - 1 \in Nat /\ (k - 1) + 1 = k /\ k - 1 < n /\ k - 1 < Len(u) /\ k - 1 < Len(v)
      BY <1>0, SMT
    <3>2. k - 1 \in diff
      BY <3>1
    <3> QED BY <2>1, <3>1, <3>2, SMT
  <2>3. n + 1 \in 1 .. Len(u) /\ n + 1 \in 1 .. Len(v) /\ n \in 0 .. Len(u) /\ n \in 0 .. Len(v) /\ n <= Len(u) /\ n <= Len(v)
    BY <1>0, SMT
  <2>4. u[n + 1] \in Nat /\ v[n + 1] \in Nat /\ u[n + 1] # v[n + 1]
    BY <2>3, ByteType
  <2>5. u[n + 1] < v[n + 1] \/ v[n + 1] < u[n + 1]
    BY <2>4, SMT
  <2> QED BY <2>1, <2>2, <2>3, <2>5 DEF Before
<1>2. CASE diff = {}
  <2>1. \A k \in 1 .. Len(u) : k <= Len(v) => u[k] = v[k]
    <3> SUFFICES ASSUME NEW k \in 1 .. Len(u), k <= Len(v), u[k] # v[k] PROVE FALSE
      OBVIOUS
    <3>1. k - 1 \in Nat /\ (k - 1) + 1 = k /\ k - 1 < Len(u) /\ k - 1 < Len(v)
      BY <1>0, SMT
    <3> QED BY <1>2, <3>1
  <2>2. Len(u) # Len(v)
    <3> SUFFICES ASSUME Len(u) = Len(v) PROVE u = v
      OBVIOUS
    <3>1. \A k \in 1 .. Len(u) : u[k] = v[k]
      BY <1>0, <2>1, SMT
    <3> QED BY <3>1, SMT DEF WordSet
  <2>3. CASE Len(u) < Len(v)
    <3>1. Len(u) \in 0 .. Len(u) /\ Len(u) <= Len(v) /\ \A k \in 1 .. Len(u) : u[k] = v[k]
      BY <1>0, <2>1, <2>3, SMT
    <3> QED BY <2>3, <3>1 DEF Before
  <2>4. CASE Len(v) < Len(u)
    <3>1. Len(v) \in 0 .. Len(v) /\ Len(v) <= Len(u) /\ \A k \in 1 .. Len(v) : v[k] = u[k]
      BY <1>0, <2>1, <2>4, SMT
    <3> QED BY <2>4, <3>1 DEF Before
  <2> QED BY <1>0, <2>2, <2>3, <2>4, SMT
<1> QED BY <1>1, <1>2

LEMMA BeforeTransitive ==
  ASSUME NEW u \in WordSet, NEW v \in WordSet, NEW w \in WordSet, Before(u, v), Before(v, w)
  PROVE  Before(u, w)
<1>0. Len(u) \in Nat /\ Len(v) \in Nat /\ Len(w) \in Nat
  BY ByteType
<1>1. PICK n \in 0 .. Len(u) :
        /\ n <= Len(v) /\ \A k \in 1 .. n : u[k] = v[k]
        /\ \/ n = Len(u) /\ n < Len(v)
           \/ n < Len(u) /\ n < Len(v) /\ u[n + 1] < v[n + 1]
  BY DEF Before
<1>2. PICK m \in 0 .. Len(v) :
        /\ m <= Len(w) /\ \A k \in 1 .. m : v[k] = w[k]
        /\ \/ m = Len(v) /\ m < Len(w)
           \/ m < Len(v) /\ m < Len(w) /\ v[m + 1] < w[m + 1]
  BY DEF Before
<1>3. CASE m < n
  <2>1. m < Len(v) /\ m < Len(u) /\ m < Len(w) /\ m \in 0 .. Len(u) /\ m + 1 \in 1 .. n /\ v[m + 1] < w[m + 1]
    BY <1>0, <1>1, <1>2, <1>3, SMT
  <2>2. u[m + 1] = v[m + 1]
    BY <1>1, <2>1
  <2>3. \A k \in 1 .. m : u[k] = w[k]
    <3>1. \A k \in 1 .. m : k \in 1 .. n
      BY <1>3, SMT
    <3> QED BY <1>1, <1>2, <3>1
  <2> QED BY <1>2, <2>1, <2>2, <2>3 DEF Before
<1>4. CASE n < m
  <2>1. n < Len(v) /\ n < Len(w) /\ n <= Len(w) /\ n + 1 \in 1 .. m
    BY <1>0, <1>1, <1>2, <1>4, SMT
  <2>2. v[n + 1] = w[n + 1]
    BY <1>2, <2>1
  <2>3. \A k \in 1 .. n : u[k] = w[k]
    <3>1. \A k \in 1 .. n : k \in 1 .. m
      BY <1>4, SMT
    <3> QED BY <1>1, <1>2, <3>1
  <2> QED BY <1>1, <2>1, <2>2, <2>3 DEF Before
<1>5. CASE n = m
  <2>1. n < Len(v) /\ n < Len(w) /\ n <= Len(w) /\ v[n + 1] < w[n + 1]
    BY <1>0, <1>1, <1>2, <1>5, SMT
  <2>2. \A k \in 1 .. n : u[k] = w[k]
    BY <1>1, <1>2, <1>5
  <2>3. n < Len(u) => u[n + 1] < w[n + 1]
    <3> SUFFICES ASSUME n < Len(u) PROVE u[n + 1] < w[n + 1]
      OBVIOUS
    <3>1. n + 1 \in 1 .. Len(u) /\ n + 1 \in 1 .. Len(v) /\ n + 1 \in 1 .. Len(w) /\ u[n + 1] < v[n + 1]
      BY <1>0, <1>1, <2>1, SMT
    <3>2. u[n + 1] \in Nat /\ v[n + 1] \in Nat /\ w[n + 1] \in Nat
      BY <3>1, ByteType
    <3> QED BY <2>1, <3>1, <3>2, SMT
  <2> QED BY <1>1, <2>1, <2>2, <2>3 DEF Before
<1> QED BY <1>3, <1>4, <1>5, SMT

-----------------------------------------------------------------------------
(* The places that were read *)

FileSet == {Missing} \union Seq(Lines)

FileNo == Len(input.files) - Len(unread) + 1

\* lines of the file that is being read
Here == LinesIn(input.files[FileNo])

LinesRead == IF unread = <<>> \/ File = Missing THEN 0 ELSE Len(Here) - Len(File)

Passed == { p \in Places : p[1] < FileNo \/ (p[1] = FileNo /\ p[2] <= LinesRead) }

\* what is unread are the last files, the first of them from some line on
Unread ==
  /\ unread \in Seq(FileSet) /\ Len(unread) <= Len(input.files)
  /\ \A u \in 2 .. Len(unread) : unread[u] = input.files[FileNo - 1 + u]
  /\ \/ unread = <<>>
     \/ unread # <<>> /\ File = Missing /\ input.files[FileNo] = Missing
     \/ /\ unread # <<>> /\ File \in Seq(Lines) /\ LinesRead \in Nat
        /\ \A k \in 1 .. Len(File) : File[k] = Here[LinesRead + k]
        /\ \A l \in 1 .. LinesRead : Here[l] # Oversized

LEMMA FileType ==
  ASSUME input \in Inputs
  PROVE  /\ input.files \in Seq(FileSet)
         /\ \A f \in DOMAIN input.files : LinesIn(input.files[f]) \in Seq(Lines)
         /\ Missing \notin Seq(Lines)
<1>1. input.files \in Seq(FileSet)
  BY DictionaryAssumption DEF FileSet
<1>2. ASSUME NEW f \in DOMAIN input.files PROVE LinesIn(input.files[f]) \in Seq(Lines)
  <2>1. input.files[f] \in FileSet
    BY <1>1, SMT
  <2>2. UnkDefault \in Seq(Lines)
    BY DictionaryAssumption
  <2> QED BY <2>1, <2>2 DEF LinesIn, FileSet
<1>3. Missing \notin Seq(Lines)
  BY DictionaryAssumption
<1> QED BY <1>1, <1>2, <1>3

LEMMA PlaceSpec ==
  ASSUME input \in Inputs, NEW p
  PROVE  p \in Places <=>
           /\ p = <<p[1], p[2]>> /\ p[1] \in 1 .. Len(input.files)
           /\ p[2] \in 1 .. Len(LinesIn(input.files[p[1]]))
           /\ \A l \in 1 .. p[2] : LinesIn(input.files[p[1]])[l] # Oversized
<1>1. DOMAIN input.files = 1 .. Len(input.files)
  BY FileType, SMT
<1>2. \A f \in DOMAIN input.files : DOMAIN LinesIn(input.files[f]) = 1 .. Len(LinesIn(input.files[f]))
  BY FileType, SMT
<1>3. p \in UNION { {f} \X DOMAIN LinesIn(input.files[f]) : f \in DOMAIN input.files } <=>
        \E f \in DOMAIN input.files : p \in {f} \X DOMAIN LinesIn(input.files[f])
  BY Zenon
<1>4. \A f : p \in {f} \X DOMAIN LinesIn(input.files[f]) <=>
        p = <<p[1], p[2]>> /\ p[1] = f /\ p[2] \in DOMAIN LinesIn(input.files[f])
  BY SMT
<1>5. p \in UNION { {f} \X DOMAIN LinesIn(input.files[f]) : f \in DOMAIN input.files } <=>
        p = <<p[1], p[2]>> /\ p[1] \in DOMAIN input.files /\ p[2] \in DOMAIN LinesIn(input.files[p[1]])
  BY <1>3, <1>4, Zenon
<1> QED BY <1>1, <1>2, <1>5, Zenon DEF Places

LEMMA FirstFile ==
  ASSUME input \in Inputs, unread = input.files
  PROVE  Unread /\ Passed = {}
<1>1. input.files \in Seq(FileSet) /\ Len(input.files) \in Nat
  BY FileType, SMT
<1>2. FileNo = 1
  BY <1>1, SMT DEF FileNo
<1>3. \A u \in 2 .. Len(unread) : unread[u] = input.files[FileNo - 1 + u]
  BY <1>1, <1>2, SMT
<1>4. CASE unread = <<>>
  <2>1. Unread
    BY <1>1, <1>3, <1>4 DEF Unread
  <2>2. ASSUME NEW p \in Places PROVE FALSE
    <3>1. p[1] \in 1 .. Len(input.files) /\ Len(input.files) = 0
      BY <1>4, PlaceSpec, SMT
    <3> QED BY <3>1, SMT
  <2> QED BY <2>1, <2>2 DEF Passed
<1>5. CASE unread # <<>>
  <2>1. Head(unread) = input.files[1] /\ File \in FileSet
    BY <1>1, <1>5, SMT DEF File
  <2>2. LinesRead = 0
    <3>1. ASSUME File # Missing PROVE Here = File
      BY <1>2, <2>1, <3>1 DEF Here, LinesIn, File
    <3>2. File # Missing => Len(File) \in Nat
      BY <2>1, SMT DEF FileSet
    <3>3. File # Missing => Len(Here) - Len(File) = 0
      BY <3>1, <3>2, SMT
    <3> QED BY <1>5, <3>3 DEF LinesRead
  <2>3. Unread
    <3>1. CASE File = Missing
      BY <1>1, <1>2, <1>3, <1>5, <2>1, <3>1 DEF Unread, File
    <3>2. CASE File # Missing
      <4>1. File \in Seq(Lines) /\ Here = File
        BY <1>2, <2>1, <3>2 DEF Here, LinesIn, File, FileSet
      <4>2. \A k \in 1 .. Len(File) : File[k] = Here[LinesRead + k]
        BY <2>2, <4>1, SMT
      <4>3. \A l \in 1 .. LinesRead : Here[l] # Oversized
        BY <2>2, SMT
      <4>4. LinesRead \in Nat
        BY <2>2, SMT
      <4> QED BY <1>1, <1>3, <1>5, <4>1, <4>2, <4>3, <4>4 DEF Unread
    <3> QED BY <3>1, <3>2
  <2>4. ASSUME NEW p \in Passed PROVE FALSE
    <3>1. p[1] \in 1 .. Len(input.files) /\ p[2] \in 1 .. Len(LinesIn(input.files[p[1]]))
      BY PlaceSpec DEF Passed
    <3>2. Len(LinesIn(input.files[p[1]])) \in Nat
      <4>1. p[1] \in DOMAIN input.files
        BY <1>1, <3>1, SMT
      <4> QED BY <4>1, FileType, SMT
    <3> QED BY <1>1, <1>2, <2>2, <3>1, <3>2, SMT DEF Passed
  <2> QED BY <2>3, <2>4
<1> QED BY <1>4, <1>5

LEMMA NewHead ==
  ASSUME NEW S, NEW s \in Seq(S), s # <<>>, NEW e \in S
  PROVE  /\ <<e>> \o Tail(s) \in Seq(S) /\ Len(<<e>> \o Tail(s)) = Len(s)
         /\ <<e>> \o Tail(s) # <<>> /\ Head(<<e>> \o Tail(s)) = e
         /\ \A u \in 2 .. Len(s) : (<<e>> \o Tail(s))[u] = s[u]
<1>1. Tail(s) \in Seq(S) /\ Len(Tail(s)) = Len(s) - 1 /\ Len(s) \in Nat /\ Len(s) > 0
      /\ \A i \in 1 .. Len(s) - 1 : Tail(s)[i] = s[i + 1]
  BY SMT
<1>2. <<e>> \in Seq(S) /\ Len(<<e>>) = 1 /\ <<e>>[1] = e
  BY SMT
<1>3. PICK t \in Seq(S) : t = Tail(s)
  BY <1>1
<1>4. PICK h \in Seq(S) : h = <<e>>
  BY <1>2
<1>5. h \o t \in Seq(S) /\ Len(h \o t) = Len(h) + Len(t) /\ (h \o t)[1] = e
      /\ \A u \in 2 .. Len(s) : (h \o t)[u] = t[u - 1]
  BY <1>1, <1>2, <1>3, <1>4, SMT
<1>6. \A u \in 2 .. Len(s) : (h \o t)[u] = s[u]
  <2>1. \A u \in 2 .. Len(s) : u - 1 \in 1 .. Len(s) - 1 /\ (u - 1) + 1 = u
    BY <1>1, SMT
  <2> QED BY <1>1, <1>3, <1>5, <2>1
<1>7. Len(h \o t) = Len(s) /\ h \o t # <<>> /\ Head(h \o t) = e
  BY <1>1, <1>2, <1>3, <1>4, <1>5, SMT
<1> QED BY <1>3, <1>4, <1>5, <1>6, <1>7

LEMMA HereType ==
  ASSUME input \in Inputs, Unread, unread # <<>>
  PROVE  /\ FileNo \in 1 .. Len(input.files) /\ Here \in Seq(Lines)
         /\ File \in FileSet /\ LinesRead \in Nat
         /\ Len(unread) \in Nat /\ Len(input.files) \in Nat
<1>1. input.files \in Seq(FileSet) /\ unread \in Seq(FileSet) /\ Len(unread) <= Len(input.files)
  BY FileType DEF Unread
<1>2. Len(unread) \in Nat /\ Len(unread) > 0 /\ Len(input.files) \in Nat /\ Head(unread) \in FileSet
  BY <1>1, SMT
<1>3. FileNo \in 1 .. Len(input.files)
  BY <1>1, <1>2, SMT DEF FileNo
<1>4. FileNo \in DOMAIN input.files
  BY <1>1, <1>3, SMT
<1>5. LinesRead \in Nat
  BY SMT DEF Unread, LinesRead
<1> QED BY <1>2, <1>3, <1>4, <1>5, FileType DEF Here, File

LEMMA AfterMissing ==
  ASSUME input \in Inputs, Unread, OpenMissing, stage' = "read"
  PROVE  Unread' /\ Passed' = Passed
<1>1. /\ unread # <<>> /\ File = Missing /\ input' = input
      /\ unread' = <<UnkDefault>> \o Tail(unread)
      /\ input.files[FileNo] = Missing
  BY FileType DEF OpenMissing, Reading, Unread
<1>2. UnkDefault \in Seq(Lines) /\ UnkDefault \in FileSet /\ UnkDefault # Missing
  BY FileType, DictionaryAssumption DEF FileSet
<1>3. /\ unread' \in Seq(FileSet) /\ Len(unread') = Len(unread) /\ unread' # <<>>
      /\ File' = UnkDefault /\ \A u \in 2 .. Len(unread) : unread'[u] = unread[u]
  BY <1>1, <1>2, NewHead DEF Unread, File
<1>4. FileNo' = FileNo /\ Here' = UnkDefault /\ Here = UnkDefault
  BY <1>1, <1>3 DEF FileNo, Here, LinesIn
<1>5. LinesRead' = 0 /\ LinesRead = 0
  <2>1. Len(UnkDefault) - Len(UnkDefault) = 0
    BY <1>2, SMT
  <2> QED BY <1>1, <1>2, <1>3, <1>4, <2>1 DEF LinesRead
<1>6. Unread'
  <2>1. \A k \in 1 .. Len(File') : File'[k] = Here'[LinesRead' + k]
    BY <1>2, <1>3, <1>4, <1>5, SMT
  <2>2. (\A l \in 1 .. LinesRead' : Here'[l] # Oversized) /\ LinesRead' \in Nat
    BY <1>5, SMT
  <2>3. Len(unread') <= Len(input'.files) /\ \A u \in 2 .. Len(unread') : unread'[u] = input'.files[FileNo' - 1 + u]
    BY <1>1, <1>3, <1>4 DEF Unread
  <2> QED BY <1>2, <1>3, <2>1, <2>2, <2>3 DEF Unread
<1>7. Passed' = Passed
  BY <1>1, <1>4, <1>5 DEF Passed, Places, LinesIn
<1> QED BY <1>6, <1>7

LEMMA AfterFile ==
  ASSUME input \in Inputs, Unread, EndOfFile
  PROVE  Unread' /\ Passed' = Passed
<1>1. /\ unread # <<>> /\ File # Missing /\ GetlineFails /\ input' = input /\ unread' = Tail(unread)
  BY DEF EndOfFile, Reading
<1>2. /\ FileNo \in 1 .. Len(input.files) /\ Here \in Seq(Lines) /\ Len(unread) \in Nat /\ Len(input.files) \in Nat
      /\ unread \in Seq(FileSet) /\ Len(unread) <= Len(input.files)
      /\ \A u \in 2 .. Len(unread) : unread[u] = input.files[FileNo - 1 + u]
      /\ File \in Seq(Lines) /\ LinesRead \in Nat
      /\ \A k \in 1 .. Len(File) : File[k] = Here[LinesRead + k]
      /\ \A l \in 1 .. LinesRead : Here[l] # Oversized
      /\ LinesRead = Len(Here) - Len(File)
      /\ input.files \in Seq(FileSet)
  BY <1>1, HereType, FileType DEF Unread, LinesRead
<1>3. /\ unread' \in Seq(FileSet) /\ Len(unread') = Len(unread) - 1
      /\ \A u \in 1 .. Len(unread) - 1 : unread'[u] = unread[u + 1]
  BY <1>1, <1>2, SMT
<1>4. FileNo' = FileNo + 1 /\ Len(unread') <= Len(input'.files)
  BY <1>1, <1>2, <1>3, SMT DEF FileNo
<1>5. \A u \in 2 .. Len(unread') : unread'[u] = input'.files[FileNo' - 1 + u]
  <2> SUFFICES ASSUME NEW u \in 2 .. Len(unread') PROVE unread'[u] = input.files[FileNo' - 1 + u]
    BY <1>1
  <2>1. u \in 1 .. Len(unread) - 1 /\ u + 1 \in 2 .. Len(unread) /\ FileNo - 1 + (u + 1) = FileNo' - 1 + u
    BY <1>2, <1>3, <1>4, SMT
  <2> QED BY <1>2, <1>3, <2>1
<1>6. unread' # <<>> => File' \in FileSet /\ File' = input'.files[FileNo']
  <2> SUFFICES ASSUME unread' # <<>> PROVE File' \in FileSet /\ File' = input'.files[FileNo']
    OBVIOUS
  <2>1. 1 \in 1 .. Len(unread) - 1 /\ 2 \in 2 .. Len(unread) /\ FileNo - 1 + 2 = FileNo'
    BY <1>2, <1>3, <1>4, SMT
  <2>2. unread'[1] = unread[2] /\ unread[2] = input.files[FileNo']
    BY <1>2, <1>3, <2>1
  <2>3. Head(unread') = unread'[1] /\ Head(unread') \in FileSet
    BY <1>3, SMT
  <2> QED BY <1>1, <2>2, <2>3 DEF File
<1>7. LinesRead' = 0 /\ (unread' # <<>> /\ File' # Missing => Here' = File' /\ File' \in Seq(Lines))
  <2>1. unread' # <<>> /\ File' # Missing => Here' = File' /\ File' \in Seq(Lines)
    BY <1>6 DEF Here, LinesIn, FileSet
  <2>2. unread' # <<>> /\ File' # Missing => Len(Here') - Len(File') = 0
    BY <2>1, SMT
  <2> QED BY <2>1, <2>2 DEF LinesRead
<1>8. Unread'
  <2>1. CASE unread' = <<>>
    BY <1>3, <1>4, <1>5, <2>1 DEF Unread
  <2>2. CASE unread' # <<>> /\ File' = Missing
    BY <1>3, <1>4, <1>5, <1>6, <2>2 DEF Unread
  <2>3. CASE unread' # <<>> /\ File' # Missing
    <3>1. (\A l \in 1 .. LinesRead' : Here'[l] # Oversized) /\ LinesRead' \in Nat
      BY <1>7, SMT
    <3>2. \A k \in 1 .. Len(File') : File'[k] = Here'[LinesRead' + k]
      BY <1>7, <2>3, SMT
    <3> QED BY <1>3, <1>4, <1>5, <1>7, <2>3, <3>1, <3>2 DEF Unread
  <2> QED BY <2>1, <2>2, <2>3
<1>9. ASSUME NEW p \in Places
      PROVE  p \in Passed' <=> p \in Passed
  <2>1. /\ p[1] \in 1 .. Len(input.files) /\ p[2] \in 1 .. Len(LinesIn(input.files[p[1]]))
        /\ \A l \in 1 .. p[2] : LinesIn(input.files[p[1]])[l] # Oversized
        /\ p \in Places'
    <3>1. Places' = Places
      BY <1>1 DEF Places, LinesIn
    <3> QED BY <3>1, PlaceSpec
  <2>2. p[1] \in Int /\ p[2] \in Int /\ p[2] >= 1
    <3>1. Len(LinesIn(input.files[p[1]])) \in Nat
      <4>1. p[1] \in DOMAIN input.files
        BY <1>2, <2>1, SMT
      <4> QED BY <4>1, FileType, SMT
    <3> QED BY <2>1, <3>1, SMT
  <2>3. p[1] = FileNo => p[2] <= LinesRead
    <3> SUFFICES ASSUME p[1] = FileNo, p[2] > LinesRead PROVE FALSE
      BY <1>2, <2>2, SMT
    <3>1. p[2] \in 1 .. Len(Here) /\ \A l \in 1 .. p[2] : Here[l] # Oversized
      BY <2>1 DEF Here
    <3>2. Len(Here) \in Nat /\ Len(File) \in Nat
      BY <1>2, SMT
    <3>3. Len(File) > 0 /\ LinesRead + 1 \in 1 .. p[2] /\ 1 \in 1 .. Len(File)
      BY <1>2, <2>2, <3>1, <3>2, SMT
    <3>4. File # <<>> /\ Head(File) = File[1]
      BY <1>2, <3>3, SMT
    <3>5. Line = Oversized
      BY <1>1, <3>4 DEF GetlineFails
    <3>6. Here[LinesRead + 1] = Line
      BY <1>2, <3>3, <3>4 DEF Line
    <3> QED BY <3>1, <3>3, <3>5, <3>6
  <2>4. (p[1] < FileNo + 1 \/ (p[1] = FileNo + 1 /\ p[2] <= 0)) <=> (p[1] < FileNo \/ p[1] = FileNo)
    BY <1>2, <2>2, SMT
  <2>5. p \in Passed' <=> p[1] < FileNo \/ p[1] = FileNo
    BY <1>4, <1>7, <2>1, <2>4 DEF Passed
  <2> QED BY <2>3, <2>5 DEF Passed
<1>10. Passed \subseteq Places /\ Passed' \subseteq Places
  BY <1>1 DEF Passed, Places, LinesIn
<1> QED BY <1>8, <1>9, <1>10

LEMMA PlaceNumbers ==
  ASSUME input \in Inputs, NEW p \in Places
  PROVE  p = <<p[1], p[2]>> /\ p[1] \in Nat /\ p[2] \in Nat
<1>1. p = <<p[1], p[2]>> /\ p[1] \in 1 .. Len(input.files) /\ p[2] \in 1 .. Len(LinesIn(input.files[p[1]]))
  BY PlaceSpec
<1>2. p[1] \in Nat /\ p[1] \in DOMAIN input.files
  BY <1>1, FileType, SMT
<1>3. Len(LinesIn(input.files[p[1]])) \in Nat
  BY <1>2, FileType, SMT
<1> QED BY <1>1, <1>2, <1>3, SMT

LEMMA EarlierOrder ==
  ASSUME input \in Inputs, NEW p \in Places, NEW q \in Places
  PROVE  /\ ~ Earlier(p, p)
         /\ p # q => Earlier(p, q) \/ Earlier(q, p)
         /\ ~ (Earlier(p, q) /\ Earlier(q, p))
         /\ \A r \in Places : Earlier(p, q) /\ Earlier(q, r) => Earlier(p, r)
<1>1. \A r \in Places : r = <<r[1], r[2]>> /\ r[1] \in Nat /\ r[2] \in Nat
  BY PlaceNumbers
<1>2. ~ Earlier(p, p) /\ ~ (Earlier(p, q) /\ Earlier(q, p))
  BY <1>1, SMT DEF Earlier
<1>3. ASSUME p # q PROVE Earlier(p, q) \/ Earlier(q, p)
  <2>1. p[1] # q[1] \/ p[2] # q[2]
    BY <1>1, <1>3, Zenon
  <2> QED BY <1>1, <2>1, SMT DEF Earlier
<1>4. ASSUME NEW r \in Places, Earlier(p, q), Earlier(q, r) PROVE Earlier(p, r)
  BY <1>1, <1>4, SMT DEF Earlier
<1> QED BY <1>2, <1>3, <1>4

LEMMA AllPassed ==
  ASSUME input \in Inputs, unread = <<>>
  PROVE  Passed = Places
<1>1. Len(unread) = 0 /\ Len(input.files) \in Nat
  BY FileType, SMT
<1>2. FileNo = Len(input.files) + 1
  BY <1>1, SMT DEF FileNo
<1>3. ASSUME NEW p \in Places PROVE p[1] < FileNo
  <2>1. p[1] \in 1 .. Len(input.files)
    BY PlaceSpec
  <2> QED BY <1>1, <1>2, <2>1, SMT
<1> QED BY <1>3 DEF Passed

LEMMA AfterLine ==
  ASSUME input \in Inputs, Unread, AtLine, unread' = NextLine, input' = input
  PROVE  /\ Unread'
         /\ Line \in Lines /\ Line # Oversized
         /\ \E p \in Places \ Passed :
              LineAt(p) = Line /\ Passed' = Passed \union {p} /\ \A q \in Passed : Earlier(q, p)
<1>1. unread # <<>> /\ File # Missing /\ ~ GetlineFails /\ unread' = <<Tail(File)>> \o Tail(unread)
  BY DEF AtLine, Reading, NextLine
<1>2. /\ FileNo \in 1 .. Len(input.files) /\ Here \in Seq(Lines) /\ Len(unread) \in Nat /\ Len(input.files) \in Nat
      /\ unread \in Seq(FileSet) /\ Len(unread) <= Len(input.files)
      /\ \A u \in 2 .. Len(unread) : unread[u] = input.files[FileNo - 1 + u]
      /\ File \in Seq(Lines) /\ LinesRead \in Nat
      /\ \A k \in 1 .. Len(File) : File[k] = Here[LinesRead + k]
      /\ \A l \in 1 .. LinesRead : Here[l] # Oversized
      /\ LinesRead = Len(Here) - Len(File)
  BY <1>1, HereType DEF Unread, LinesRead
<1>3. File # <<>> /\ Line # Oversized
  BY <1>1 DEF GetlineFails
<1>4. /\ Len(File) \in Nat /\ Len(File) > 0 /\ Line = File[1] /\ Line \in Lines
      /\ Tail(File) \in Seq(Lines) /\ Len(Tail(File)) = Len(File) - 1
      /\ \A k \in 1 .. Len(File) - 1 : Tail(File)[k] = File[k + 1]
      /\ Len(Here) \in Nat
  BY <1>2, <1>3, SMT DEF Line
<1>5. Tail(File) \in FileSet /\ Tail(File) # Missing
  BY <1>4, FileType DEF FileSet
<1>6. /\ unread' \in Seq(FileSet) /\ Len(unread') = Len(unread) /\ unread' # <<>>
      /\ File' = Tail(File) /\ \A u \in 2 .. Len(unread) : unread'[u] = unread[u]
  BY <1>1, <1>2, <1>5, NewHead DEF File
<1>7. FileNo' = FileNo /\ Here' = Here
  BY <1>6 DEF FileNo, Here, LinesIn
<1>8. LinesRead' = LinesRead + 1
  <2>1. LinesRead' = Len(Here) - Len(Tail(File))
    BY <1>5, <1>6, <1>7 DEF LinesRead
  <2> QED BY <1>2, <1>4, <2>1, SMT
<1>9. Here[LinesRead + 1] = Line /\ LinesRead + 1 \in 1 .. Len(Here)
  <2>1. 1 \in 1 .. Len(File)
    BY <1>4, SMT
  <2>2. LinesRead + 1 \in 1 .. Len(Here)
    BY <1>2, <1>4, SMT
  <2> QED BY <1>2, <1>4, <2>1, <2>2
<1>10. \A l \in 1 .. LinesRead + 1 : Here[l] # Oversized
  <2>1. \A l \in 1 .. LinesRead + 1 : l \in 1 .. LinesRead \/ l = LinesRead + 1
    BY <1>2, SMT
  <2> QED BY <1>2, <1>3, <1>9, <2>1
<1>11. Unread'
  <2>1. \A k \in 1 .. Len(File') : File'[k] = Here'[LinesRead' + k]
    <3> SUFFICES ASSUME NEW k \in 1 .. Len(File) - 1 PROVE Tail(File)[k] = Here[LinesRead + 1 + k]
      BY <1>4, <1>6, <1>7, <1>8
    <3>1. k + 1 \in 1 .. Len(File) /\ LinesRead + (k + 1) = LinesRead + 1 + k
      BY <1>2, <1>4, SMT
    <3> QED BY <1>2, <1>4, <3>1
  <2>2. \A l \in 1 .. LinesRead' : Here'[l] # Oversized
    BY <1>7, <1>8, <1>10
  <2>3. File' \in Seq(Lines) /\ LinesRead' \in Nat
    BY <1>2, <1>4, <1>6, <1>8, SMT
  <2>4. Len(unread') <= Len(input'.files) /\ \A u \in 2 .. Len(unread') : unread'[u] = input'.files[FileNo' - 1 + u]
    BY <1>2, <1>6, <1>7
  <2> QED BY <1>6, <2>1, <2>2, <2>3, <2>4 DEF Unread
<1>12. PICK p : p = <<FileNo, LinesRead + 1>>
  OBVIOUS
<1>13. p[1] = FileNo /\ p[2] = LinesRead + 1 /\ p = <<p[1], p[2]>>
  BY <1>12
<1>14. p \in Places /\ LineAt(p) = Line
  <2>1. p \in Places
    BY <1>2, <1>9, <1>10, <1>13, PlaceSpec DEF Here
  <2> QED BY <1>9, <1>13, <2>1 DEF LineAt, Here
<1>15. p \notin Passed
  BY <1>2, <1>13, SMT DEF Passed
<1>16. Places' = Places
  BY DEF Places, LinesIn
<1>17. ASSUME NEW q \in Places
       PROVE  /\ q \in Passed' <=> q \in Passed \/ q = p
              /\ q \in Passed => Earlier(q, p)
  <2>1. q = <<q[1], q[2]>> /\ q[1] \in Nat /\ q[2] \in Nat
    BY PlaceNumbers
  <2>2. q = p <=> q[1] = FileNo /\ q[2] = LinesRead + 1
    BY <1>13, <2>1
  <2>3. q \in Passed' <=> q[1] < FileNo \/ (q[1] = FileNo /\ q[2] <= LinesRead + 1)
    BY <1>7, <1>8, <1>16 DEF Passed
  <2>4. q \in Passed <=> q[1] < FileNo \/ (q[1] = FileNo /\ q[2] <= LinesRead)
    BY DEF Passed
  <2>5. FileNo \in Nat
    BY <1>2, SMT
  <2>6. q \in Passed' <=> q \in Passed \/ q = p
    BY <1>2, <2>1, <2>2, <2>3, <2>4, <2>5, SMT
  <2>7. q \in Passed => Earlier(q, p)
    BY <1>2, <1>13, <2>1, <2>4, <2>5, SMT DEF Earlier
  <2> QED BY <2>6, <2>7
<1>18. Passed' = Passed \union {p}
  <2>1. Passed \subseteq Places /\ Passed' \subseteq Places
    BY <1>16 DEF Passed
  <2> QED BY <1>14, <1>17, <2>1
<1>19. \A q \in Passed : Earlier(q, p)
  BY <1>17 DEF Passed
<1> QED BY <1>3, <1>4, <1>11, <1>14, <1>15, <1>18, <1>19

-----------------------------------------------------------------------------
(* Numbers in a value *)

LEMMA SmallRemainder ==
  ASSUME NEW a \in Nat, NEW b \in Nat \ {0}, a < b
  PROVE  a % b = a
BY SMT

LEMMA CountAndIndex ==
  ASSUME NEW c \in Nat, NEW i \in Nat, NEW b \in Nat \ {0}, c < b
  PROVE  (c + i * b) % b = c /\ (c + i * b) \div b = i
BY SMT

LEMMA ShortKeeps ==
  ASSUME NEW n \in - ShortMax - 1 .. ShortMax
  PROVE  AsShort(n) = n
<1>1. ShortMax \in Nat
  BY DictionaryAssumption
<1>2. n + ShortMax + 1 \in Nat /\ 2 * (ShortMax + 1) \in Nat \ {0} /\ n + ShortMax + 1 < 2 * (ShortMax + 1) /\ n \in Int
  BY <1>1, SMT
<1>3. (n + ShortMax + 1) % (2 * (ShortMax + 1)) = n + ShortMax + 1
  BY <1>2, SmallRemainder
<1> QED BY <1>1, <1>2, <1>3, SMT DEF AsShort

\* a value that is not negative is the number it was made of
LEMMA IntKeeps ==
  ASSUME NEW n \in Nat, n < 2 * (IntMax + 1)
  PROVE  AsInt(n) \in Int /\ (AsInt(n) >= 0 => AsInt(n) = n)
<1>1. IntMax \in Nat
  BY DictionaryAssumption
<1>2. CASE n <= IntMax
  <2>1. n + IntMax + 1 \in Nat /\ 2 * (IntMax + 1) \in Nat \ {0} /\ n + IntMax + 1 < 2 * (IntMax + 1)
    BY <1>1, <1>2, SMT
  <2>2. (n + IntMax + 1) % (2 * (IntMax + 1)) = n + IntMax + 1
    BY <2>1, SmallRemainder
  <2> QED BY <1>1, <2>2, SMT DEF AsInt
<1>3. CASE n > IntMax
  <2>1. n - IntMax - 1 \in Nat /\ 2 * (IntMax + 1) \in Nat \ {0} /\ n - IntMax - 1 < 2 * (IntMax + 1)
    BY <1>1, <1>3, SMT
  <2>2. ((n - IntMax - 1) + 1 * (2 * (IntMax + 1))) % (2 * (IntMax + 1)) = n - IntMax - 1
    BY <2>1, CountAndIndex
  <2>3. (n - IntMax - 1) + 1 * (2 * (IntMax + 1)) = n + IntMax + 1
    BY <1>1, SMT
  <2>4. AsInt(n) = (n - IntMax - 1) - (IntMax + 1)
    BY <2>2, <2>3 DEF AsInt
  <2>5. AsInt(n) \in Int /\ AsInt(n) < 0
    BY <1>1, <1>3, <2>4, SMT
  <2> QED BY <2>5, SMT
<1> QED BY <1>1, <1>2, <1>3, SMT

LEMMA IntType ==
  ASSUME NEW n \in Int
  PROVE  AsInt(n) \in Int
<1>1. IntMax \in Nat
  BY DictionaryAssumption
<1> QED BY <1>1, SMT DEF AsInt

-----------------------------------------------------------------------------
(* The entries that lines make *)

\* what Add makes of a line, its feature in the buffer
Made(entry, line) ==
  /\ ~ Skipped(line)
  /\ entry.word = WordOf(line) /\ entry.word \in WordSet /\ entry.word # <<>>
  /\ <<entry.token.lcAttr, entry.token.rcAttr>> \in IdsOf(line)
  /\ entry.token.lcAttr < RightSize /\ entry.token.rcAttr < LeftSize
  /\ entry.token.posid = AsUnsignedShort(PosId(line.feature))
  /\ CostFits(line) => entry.token.wcost = CostOf(line)
  /\ entry.token.feature \in 0 .. lexsize - 1
  /\ IF input.wakati THEN entry.token.feature = 0
     ELSE entry.token.feature + 1 \in 1 .. Len(fbuf) /\ fbuf[entry.token.feature + 1] = FeatureOf(line)

Listing == lexsize \in Nat /\ \E S : dic \in Seq(S) /\ Len(dic) = lexsize

Buffered ==
  /\ \E S : fbuf \in Seq(S)
  /\ IF input.wakati
     THEN fbuf \in {<<>>, << <<>> >>} /\ (stage = "read" => fbuf = <<>>)
                                      /\ (stage \in {"pack", "build", "image"} => fbuf = << <<>> >>)
     ELSE Len(fbuf) = lexsize

\* the entries are those of the lines at the places of P that are not skipped
Compiled(origin, P) ==
  /\ origin \in [1 .. lexsize -> P]
  /\ \A i, j \in 1 .. lexsize : origin[i] = origin[j] => i = j
  /\ \A p \in P : Skipped(LineAt(p)) \/ \E i \in 1 .. lexsize : origin[i] = p
  /\ \A i \in 1 .. lexsize : Made(dic[i], LineAt(origin[i]))

InOrder(origin) == \A i, j \in 1 .. lexsize : i < j => Earlier(origin[i], origin[j])

LEMMA FunctionIsSeq ==
  ASSUME NEW S, NEW n \in Nat, NEW f \in [1 .. n -> S]
  PROVE  f \in Seq(S) /\ Len(f) = n
OBVIOUS

LEMMA WordType ==
  ASSUME NEW line \in Lines, line # Oversized, ~ Dies(line), ~ Skipped(line)
  PROVE  WordOf(line) \in WordSet /\ WordOf(line) # <<>>
<1>1. line.word \in Seq(0 .. MaxByte) /\ line.word # <<>>
  BY DictionaryAssumption DEF Dies, Skipped
<1>2. CASE input.type = "unk"
  BY <1>1, <1>2 DEF WordOf, WordSet
<1>3. CASE input.type # "unk"
  <2>1. PICK w \in Seq(0 .. MaxByte) : w = line.word
    BY <1>1
  <2>2. \A i \in DOMAIN w : w[i] \in DOMAIN Recoded
    BY <1>3, <2>1 DEF Skipped, Convertible
  <2>3. \A i \in DOMAIN w : Recoded[w[i]] \in 0 .. MaxByte
    BY <2>2, DictionaryAssumption
  <2>4. WordOf(line) = [ i \in DOMAIN w |-> Recoded[w[i]] ]
    BY <1>3, <2>1 DEF WordOf
  <2>5. DOMAIN w = 1 .. Len(w) /\ Len(w) \in Nat /\ Len(w) > 0
    BY <1>1, <2>1, SMT
  <2>6. WordOf(line) \in [1 .. Len(w) -> 0 .. MaxByte]
    BY <2>3, <2>4, <2>5
  <2>7. PICK n \in Nat : \E g \in [1 .. n -> 0 .. MaxByte] : n = Len(w) /\ g = WordOf(line)
    BY <2>5, <2>6
  <2>f. PICK f \in [1 .. n -> 0 .. MaxByte] : n = Len(w) /\ f = WordOf(line)
    BY <2>7
  <2>8. f \in Seq(0 .. MaxByte) /\ Len(f) = n
    BY <2>7, <2>f, FunctionIsSeq
  <2> QED BY <2>5, <2>f, <2>8, SMT DEF WordSet
<1> QED BY <1>2, <1>3

LEMMA IdsArePairs ==
  ASSUME NEW line, NEW ids \in IdsOf(line)
  PROVE  <<ids[1], ids[2]>> = ids
BY SMT DEF IdsOf, FoundIds

\* ids of its own, or those that were found with files that fit
LEMMA IdsAsWanted ==
  ASSUME NEW line, NEW l, NEW r, <<l, r>> \in IdsOf(line)
  PROVE  IF WantsIds(line) THEN ContextIdsFit /\ <<l, r>> \in FoundIds(line)
                           ELSE l = line.lid /\ r = line.rid
<1>1. CASE WantsIds(line)
  BY <1>1 DEF IdsOf
<1>2. CASE ~ WantsIds(line)
  <2>1. <<l, r>> = <<line.lid, line.rid>>
    BY <1>2 DEF IdsOf
  <2> QED BY <1>2, <2>1, SMT
<1> QED BY <1>1, <1>2

LEMMA TokenType ==
  ASSUME NEW line \in Lines, ~ Dies(line)
  PROVE  LET t == TokenOf(line)
         IN /\ <<t.lcAttr, t.rcAttr>> \in IdsOf(line)
            /\ t.lcAttr < RightSize /\ t.rcAttr < LeftSize
            /\ t.posid = AsUnsignedShort(PosId(line.feature))
            /\ CostFits(line) => t.wcost = CostOf(line)
            /\ t.feature = Len(fbuf)
<1>1. PICK ids : ids = CHOOSE i \in IdsOf(line) : TRUE
  OBVIOUS
<1>2. ids \in IdsOf(line) /\ IsValid(ids)
  BY <1>1 DEF Dies
<1>3. ids[1] < RightSize /\ ids[2] < LeftSize
  <2>1. LeftSize \in Nat /\ RightSize \in Nat
    BY DictionaryAssumption
  <2> QED BY <1>2, <2>1, SMT DEF IsValid
<1>4. TokenOf(line) = [lcAttr |-> ids[1], rcAttr |-> ids[2], posid |-> AsUnsignedShort(PosId(line.feature)),
                       wcost |-> AsShort(CostOf(line)), feature |-> Len(fbuf)]
  BY <1>1 DEF TokenOf
<1>5. <<ids[1], ids[2]>> \in IdsOf(line)
  BY <1>2, IdsArePairs
<1>6. CostFits(line) => AsShort(CostOf(line)) = CostOf(line)
  BY ShortKeeps DEF CostFits
<1> QED BY <1>3, <1>4, <1>5, <1>6

LEMMA Appended ==
  ASSUME NEW S, NEW s \in Seq(S), NEW e
  PROVE  /\ Append(s, e) \in Seq(S \union {e})
         /\ Len(s) \in Nat /\ Len(Append(s, e)) = Len(s) + 1
         /\ Append(s, e)[Len(s) + 1] = e
         /\ \A m \in 1 .. Len(s) : Append(s, e)[m] = s[m]
<1>1. s \in Seq(S \union {e}) /\ e \in S \union {e}
  BY SMT
<1> QED BY <1>1, SMT

LEMMA AddCompiles ==
  ASSUME input \in Inputs, stage = "read", Unread, Listing, Buffered, Add,
         NEW origin, Compiled(origin, Passed), InOrder(origin)
  PROVE  /\ Unread' /\ Listing' /\ Buffered'
         /\ \E o : Compiled(o, Passed)' /\ InOrder(o)'
<1>1. /\ AtLine /\ ~ Dies(Line) /\ ~ Skipped(Line)
      /\ dic' = Append(dic, [word |-> WordOf(Line), token |-> TokenOf(Line)])
      /\ fbuf' = IF input.wakati THEN fbuf ELSE Append(fbuf, FeatureOf(Line))
      /\ lexsize' = lexsize + 1
      /\ unread' = NextLine /\ input' = input /\ stage' = stage
  BY DEF Add
<1>2. PICK p \in Places \ Passed :
        LineAt(p) = Line /\ Passed' = Passed \union {p} /\ \A q \in Passed : Earlier(q, p)
  BY <1>1, AfterLine
<1>3. Unread' /\ Line \in Lines /\ Line # Oversized
  BY <1>1, AfterLine
<1>4. PICK S : dic \in Seq(S) /\ Len(dic) = lexsize
  BY DEF Listing
<1>5. PICK entry : entry = [word |-> WordOf(Line), token |-> TokenOf(Line)]
  OBVIOUS
<1>6. /\ lexsize \in Nat /\ dic' \in Seq(S \union {entry}) /\ Len(dic') = lexsize'
      /\ dic'[lexsize + 1] = entry
      /\ \A m \in 1 .. lexsize : dic'[m] = dic[m]
  BY <1>1, <1>4, <1>5, Appended
<1>7. Listing'
  BY <1>1, <1>6, SMT DEF Listing
<1>8. PICK F : fbuf \in Seq(F)
  BY DEF Buffered
<1>9. /\ Len(fbuf) \in Nat
      /\ \A m \in 1 .. Len(fbuf) : m \in 1 .. Len(fbuf') /\ fbuf'[m] = fbuf[m]
      /\ ~ input.wakati => Len(fbuf) = lexsize /\ Len(fbuf') = lexsize' /\ fbuf'[lexsize + 1] = FeatureOf(Line)
      /\ input.wakati => Len(fbuf) = 0
  <2>1. CASE input.wakati
    <3>1. fbuf = <<>> /\ fbuf' = <<>>
      BY <1>1, <2>1 DEF Buffered
    <3> QED BY <2>1, <3>1, SMT
  <2>2. CASE ~ input.wakati
    <3>1. fbuf' = Append(fbuf, FeatureOf(Line)) /\ Len(fbuf) = lexsize
      BY <1>1, <2>2 DEF Buffered
    <3>2. Len(fbuf) \in Nat /\ Len(fbuf') = Len(fbuf) + 1 /\ fbuf'[Len(fbuf) + 1] = FeatureOf(Line)
          /\ \A m \in 1 .. Len(fbuf) : fbuf'[m] = fbuf[m]
      BY <1>8, <3>1, Appended
    <3>3. \A m \in 1 .. Len(fbuf) : m \in 1 .. Len(fbuf')
      BY <3>2, SMT
    <3> QED BY <1>1, <2>2, <3>1, <3>2, <3>3
  <2> QED BY <2>1, <2>2
<1>10. Buffered'
  <2>1. \E T : fbuf' \in Seq(T)
    BY <1>1, <1>8, Appended
  <2> QED BY <1>1, <1>9, <2>1 DEF Buffered
<1>o. PICK o : o = [i \in 1 .. lexsize + 1 |-> IF i <= lexsize THEN origin[i] ELSE p]
  OBVIOUS
<1>11. /\ \A i \in 1 .. lexsize + 1 : i \in 1 .. lexsize \/ i = lexsize + 1
       /\ \A i \in 1 .. lexsize : i \in 1 .. lexsize + 1 /\ i <= lexsize
       /\ lexsize + 1 \in 1 .. lexsize + 1 /\ ~ (lexsize + 1 <= lexsize)
  BY <1>6, SMT
<1>12. /\ \A i \in 1 .. lexsize : o[i] = origin[i]
       /\ o[lexsize + 1] = p /\ DOMAIN o = 1 .. lexsize + 1
  BY <1>o, <1>11
<1>13. /\ origin \in [1 .. lexsize -> Passed]
       /\ \A i, j \in 1 .. lexsize : origin[i] = origin[j] => i = j
       /\ \A q \in Passed : Skipped(LineAt(q)) \/ \E i \in 1 .. lexsize : origin[i] = q
       /\ \A i \in 1 .. lexsize : Made(dic[i], LineAt(origin[i]))
  BY DEF Compiled
<1>14. o \in [1 .. lexsize' -> Passed']
  BY <1>o, <1>1, <1>2, <1>11, <1>13
<1>15. \A line : /\ Skipped(line)' = Skipped(line) /\ WordOf(line)' = WordOf(line) /\ IdsOf(line)' = IdsOf(line)
                 /\ CostFits(line)' = CostFits(line) /\ CostOf(line)' = CostOf(line) /\ FeatureOf(line)' = FeatureOf(line)
  BY <1>1 DEF Skipped, Convertible, WordOf, IdsOf, WantsIds, FoundIds, ContextIdsFit, IdMissing, CostFits, CostOf, FeatureOf
<1>16. \A q : LineAt(q)' = LineAt(q)
  BY <1>1 DEF LineAt, LinesIn
<1>17. ASSUME NEW e, NEW line, Made(e, line) PROVE Made(e, line)'
  <2>1. e.token.feature \in 0 .. lexsize' - 1
    BY <1>1, <1>6, <1>17, SMT DEF Made
  <2> QED BY <1>1, <1>9, <1>15, <1>17, <2>1 DEF Made
<1>18. PICK line : line = Line
  OBVIOUS
<1>19. Made(entry, line)'
  <2>1. /\ entry.word = WordOf(line) /\ entry.token = TokenOf(line)
        /\ WordOf(line) \in WordSet /\ WordOf(line) # <<>>
    BY <1>1, <1>3, <1>5, <1>18, WordType
  <2>2. /\ <<entry.token.lcAttr, entry.token.rcAttr>> \in IdsOf(line)
        /\ entry.token.lcAttr < RightSize /\ entry.token.rcAttr < LeftSize
        /\ entry.token.posid = AsUnsignedShort(PosId(line.feature))
        /\ CostFits(line) => entry.token.wcost = CostOf(line)
        /\ entry.token.feature = Len(fbuf)
    BY <1>1, <1>3, <1>18, <2>1, TokenType
  <2>3. entry.token.feature \in 0 .. lexsize' - 1
    BY <1>1, <1>6, <1>9, <2>2, SMT
  <2>4. IF input.wakati THEN entry.token.feature = 0
        ELSE entry.token.feature + 1 \in 1 .. Len(fbuf') /\ fbuf'[entry.token.feature + 1] = FeatureOf(line)
    <3>1. lexsize + 1 \in 1 .. lexsize'
      BY <1>1, <1>6, SMT
    <3> QED BY <1>9, <1>18, <2>2, <3>1
  <2>5. ~ Skipped(line)
    BY <1>1, <1>18
  <2> QED BY <1>1, <1>15, <2>1, <2>2, <2>3, <2>4, <2>5 DEF Made
<1>20. /\ \A i, j \in 1 .. lexsize' : o[i] = o[j] => i = j
       /\ \A q \in Passed' : Skipped(LineAt(q))' \/ \E i \in 1 .. lexsize' : o[i] = q
       /\ \A i \in 1 .. lexsize' : Made(dic[i], LineAt(o[i]))'
  <2>1. \A i \in 1 .. lexsize : o[i] # p
    BY <1>2, <1>12, <1>13
  <2>2. \A i, j \in 1 .. lexsize' : o[i] = o[j] => i = j
    BY <1>1, <1>11, <1>12, <1>13, <2>1
  <2>3. ASSUME NEW q \in Passed' PROVE Skipped(LineAt(q))' \/ \E i \in 1 .. lexsize' : o[i] = q
    <3>1. CASE q = p
      BY <1>1, <1>11, <1>12, <3>1
    <3>2. CASE q \in Passed
      <4>1. Skipped(LineAt(q)) \/ \E i \in 1 .. lexsize : origin[i] = q
        BY <1>13, <3>2
      <4>2. PICK l : l = LineAt(q) /\ l = LineAt(q)'
        BY <1>16
      <4>3. Skipped(LineAt(q)) => Skipped(LineAt(q))'
        BY <1>15, <4>2
      <4> QED BY <1>1, <1>11, <1>12, <4>1, <4>3
    <3> QED BY <1>2, <3>1, <3>2
  <2>4. ASSUME NEW i \in 1 .. lexsize' PROVE Made(dic[i], LineAt(o[i]))'
    <3>1. CASE i = lexsize + 1
      BY <1>2, <1>6, <1>12, <1>16, <1>18, <1>19, <3>1
    <3>2. CASE i \in 1 .. lexsize
      <4>1. PICK l, e : l = LineAt(origin[i]) /\ e = dic[i]
        OBVIOUS
      <4>2. Made(e, l)'
        BY <1>13, <1>17, <3>2, <4>1
      <4>3. dic'[i] = e /\ LineAt(o[i])' = l
        BY <1>6, <1>12, <1>16, <3>2, <4>1
      <4> QED BY <4>2, <4>3
    <3> QED BY <1>1, <1>11, <3>1, <3>2
  <2> QED BY <2>2, <2>3, <2>4
<1>21. \A i, j \in 1 .. lexsize' : i < j => Earlier(o[i], o[j])
  <2> SUFFICES ASSUME NEW i \in 1 .. lexsize + 1, NEW j \in 1 .. lexsize + 1, i < j
               PROVE  Earlier(o[i], o[j])
    BY <1>1
  <2>1. i \in 1 .. lexsize
    BY <1>6, SMT
  <2>2. CASE j \in 1 .. lexsize
    BY <1>12, <2>1, <2>2 DEF InOrder
  <2>3. CASE j = lexsize + 1
    BY <1>2, <1>12, <1>13, <2>1, <2>3
  <2> QED BY <1>11, <2>2, <2>3
<1>22. Compiled(o, Passed)' /\ InOrder(o)'
  BY <1>14, <1>20, <1>21 DEF Compiled, InOrder, Earlier
<1> QED BY <1>3, <1>7, <1>10, <1>22

LEMMA SkipCompiles ==
  ASSUME input \in Inputs, stage = "read", Unread, Skip,
         NEW origin, Compiled(origin, Passed), InOrder(origin)
  PROVE  Unread' /\ Compiled(origin, Passed)' /\ InOrder(origin)'
<1>1. /\ AtLine /\ Skipped(Line) /\ unread' = NextLine
      /\ input' = input /\ dic' = dic /\ fbuf' = fbuf /\ lexsize' = lexsize
  BY DEF Skip
<1>2. PICK p \in Places \ Passed : LineAt(p) = Line /\ Passed' = Passed \union {p}
  BY <1>1, AfterLine
<1>3. /\ \A line : Skipped(line)' = Skipped(line)
      /\ \A e, line : Made(e, line)' = Made(e, line)
      /\ \A q : LineAt(q)' = LineAt(q)
  BY <1>1 DEF Skipped, Convertible, Made, WordOf, IdsOf, WantsIds, FoundIds, ContextIdsFit, IdMissing, CostFits, CostOf, FeatureOf, LineAt, LinesIn
<1>4. \A q : Skipped(LineAt(q))' = Skipped(LineAt(q))
  <2> TAKE q
  <2>1. PICK line : line = LineAt(q) /\ line = LineAt(q)'
    BY <1>3
  <2> QED BY <1>3, <2>1
<1>5. ASSUME NEW i \in 1 .. lexsize PROVE Made(dic[i], LineAt(origin[i]))'
  <2>1. PICK line, e : line = LineAt(origin[i]) /\ e = dic[i]
    OBVIOUS
  <2>2. Made(e, line)
    BY <2>1 DEF Compiled
  <2> QED BY <1>1, <1>3, <2>1, <2>2
<1>6. Compiled(origin, Passed)'
  <2>1. origin \in [1 .. lexsize' -> Passed']
    BY <1>1, <1>2 DEF Compiled
  <2>2. \A q \in Passed' : Skipped(LineAt(q))' \/ \E i \in 1 .. lexsize' : origin[i] = q
    BY <1>1, <1>2, <1>4 DEF Compiled
  <2> QED BY <1>1, <1>5, <2>1, <2>2 DEF Compiled
<1> QED BY <1>1, <1>6, AfterLine DEF InOrder, Earlier

-----------------------------------------------------------------------------
(* Sorting *)

\* words in their order, equal words in the order of their lines
WordOrder(origin) ==
  \A i, j \in 1 .. lexsize : i < j =>
    \/ Before(dic[i].word, dic[j].word)
    \/ dic[i].word = dic[j].word /\ Earlier(origin[i], origin[j])

LEMMA ListingDomain ==
  ASSUME Listing
  PROVE  DOMAIN dic = 1 .. lexsize /\ lexsize \in Nat /\ IsFiniteSet(1 .. lexsize)
<1>1. DOMAIN dic = 1 .. lexsize /\ lexsize \in Nat
  BY SMT DEF Listing
<1>2. IsFiniteSet(1 .. lexsize)
  <2>1. lexsize \in Int /\ 1 \in Int
    BY <1>1, SMT
  <2> QED BY <2>1, FS_Interval
<1> QED BY <1>1, <1>2

LEMMA PrecedingOrders ==
  ASSUME Listing, \A i \in 1 .. lexsize : dic[i].word \in WordSet
  PROVE  Precedence(1 .. lexsize, [i \in 1 .. lexsize |-> Preceding(i)])
<1>1. DOMAIN dic = 1 .. lexsize /\ lexsize \in Nat /\ IsFiniteSet(1 .. lexsize)
  BY ListingDomain
<1>2. \A i, j : j \in Preceding(i) <=>
        /\ j \in 1 .. lexsize
        /\ Before(dic[j].word, dic[i].word) \/ (dic[j].word = dic[i].word /\ j < i)
  BY <1>1 DEF Preceding
<1>3. [i \in 1 .. lexsize |-> Preceding(i)] \in [1 .. lexsize -> SUBSET (1 .. lexsize)]
  BY <1>2
<1>4. ASSUME NEW i \in 1 .. lexsize PROVE i \notin Preceding(i)
  <2>1. ~ Before(dic[i].word, dic[i].word)
    BY BeforeIrreflexive
  <2>2. ~ (i < i)
    BY SMT
  <2> QED BY <1>2, <2>1, <2>2
<1>5. ASSUME NEW i \in 1 .. lexsize, NEW j \in 1 .. lexsize, i \in Preceding(j), NEW k \in Preceding(i)
      PROVE  k \in Preceding(j)
  <2>1. k \in 1 .. lexsize
    BY <1>2
  <2>2. CASE Before(dic[k].word, dic[i].word) /\ Before(dic[i].word, dic[j].word)
    BY <1>2, <2>1, <2>2, BeforeTransitive
  <2>3. CASE dic[k].word = dic[i].word /\ dic[i].word = dic[j].word /\ k < i /\ i < j
    <3>1. k < j
      BY <2>1, <2>3, SMT
    <3> QED BY <1>2, <2>1, <2>3, <3>1
  <2> QED BY <1>2, <1>5, <2>1, <2>2, <2>3
<1>6. ASSUME NEW i \in 1 .. lexsize, NEW j \in 1 .. lexsize, i # j
      PROVE  i \in Preceding(j) \/ j \in Preceding(i)
  <2>1. CASE dic[i].word = dic[j].word
    <3>1. i < j \/ j < i
      BY <1>6, SMT
    <3> QED BY <1>2, <2>1, <3>1
  <2>2. CASE dic[i].word # dic[j].word
    BY <1>2, <2>2, BeforeTotal
  <2> QED BY <2>1, <2>2
<1> QED BY <1>1, <1>3, <1>4, <1>5, <1>6 DEF Precedence

\* what sorting does: every entry goes to the place that counts those before it
LEMMA SortedEntries ==
  ASSUME Listing, \A i \in 1 .. lexsize : dic[i].word \in WordSet
  PROVE  \E from \in [1 .. lexsize -> 1 .. lexsize] :
           /\ \A n \in 1 .. lexsize : Sorted[n] = dic[from[n]]
           /\ \A n, m \in 1 .. lexsize : from[n] = from[m] => n = m
           /\ \A i \in 1 .. lexsize : \E n \in 1 .. lexsize : from[n] = i
           /\ \A n, m \in 1 .. lexsize : n < m => from[n] \in Preceding(from[m])
<1>1. DOMAIN dic = 1 .. lexsize /\ lexsize \in Nat /\ IsFiniteSet(1 .. lexsize) /\ Cardinality(1 .. lexsize) = lexsize
  <2>1. Cardinality(1 .. lexsize) = lexsize
    <3>1. lexsize \in Nat /\ 1 \in Int /\ lexsize \in Int
      BY ListingDomain, SMT
    <3>2. Cardinality(1 .. lexsize) = IF 1 > lexsize THEN 0 ELSE (lexsize - 1) + 1
      BY <3>1, FS_Interval
    <3> QED BY <3>1, <3>2, SMT
  <2> QED BY <2>1, ListingDomain
<1>2. PICK P : P = [i \in 1 .. lexsize |-> Preceding(i)]
  OBVIOUS
<1>3. Precedence(1 .. lexsize, P) /\ \A i \in 1 .. lexsize : P[i] = Preceding(i)
  BY <1>2, PrecedingOrders
<1> DEFINE At(n) == CHOOSE i \in DOMAIN dic : Cardinality(Preceding(i)) = n - 1
<1>4. ASSUME NEW n \in 1 .. lexsize
      PROVE  At(n) \in 1 .. lexsize /\ Cardinality(Preceding(At(n))) = n - 1 /\ n - 1 \in Int
  <2>1. n \in 1 .. Cardinality(1 .. lexsize)
    BY <1>1
  <2>2. \E i \in 1 .. lexsize : Cardinality(P[i]) = n - 1
    BY <1>3, <2>1, RankOnto
  <2>3. \E i \in DOMAIN dic : Cardinality(Preceding(i)) = n - 1
    BY <1>1, <1>3, <2>2
  <2>4. n - 1 \in Int
    BY SMT
  <2> QED BY <1>1, <2>3, <2>4
<1>5. PICK from : from = [n \in 1 .. lexsize |-> At(n)]
  OBVIOUS
<1>6. from \in [1 .. lexsize -> 1 .. lexsize] /\ \A n \in 1 .. lexsize : from[n] = At(n)
  BY <1>4, <1>5
<1>7. ASSUME NEW n \in 1 .. lexsize PROVE Sorted[n] = dic[from[n]]
  BY <1>1, <1>6 DEF Sorted
<1> HIDE DEF At
<1>8. \A n \in 1 .. lexsize : Cardinality(P[from[n]]) = n - 1
  BY <1>3, <1>4, <1>6
<1>9. ASSUME NEW n \in 1 .. lexsize, NEW m \in 1 .. lexsize, from[n] = from[m] PROVE n = m
  <2>1. n - 1 = m - 1
    BY <1>8, <1>9
  <2> QED BY <2>1, SMT
<1>10. ASSUME NEW i \in 1 .. lexsize PROVE \E n \in 1 .. lexsize : from[n] = i
  <2>1. Cardinality(P[i]) \in Nat
    BY <1>3, RankOrder
  <2>2. Cardinality(P[i]) + 1 \in 1 .. lexsize
    <3>1. P[i] \in SUBSET (1 .. lexsize) /\ P[i] # 1 .. lexsize
      BY <1>3 DEF Precedence
    <3>2. Cardinality(P[i]) <= lexsize /\ Cardinality(P[i]) # lexsize
      BY <1>1, <3>1, FS_Subset
    <3> QED BY <1>1, <2>1, <3>2, SMT
  <2>3. PICK n \in 1 .. lexsize : n = Cardinality(P[i]) + 1
    BY <2>2
  <2>4. Cardinality(P[from[n]]) = Cardinality(P[i])
    <3>1. n - 1 = Cardinality(P[i])
      BY <2>1, <2>3, SMT
    <3> QED BY <1>8, <2>3, <3>1
  <2>5. from[n] = i
    <3>1. from[n] \in 1 .. lexsize
      BY <1>6, <2>3
    <3>2. \A a, b \in 1 .. lexsize : Cardinality(P[a]) = Cardinality(P[b]) => a = b
      <4> DEFINE S == 1 .. lexsize
      <4>1. Precedence(S, P)
        BY <1>3
      <4> HIDE DEF S
      <4>2. \A a, b \in S : Cardinality(P[a]) = Cardinality(P[b]) => a = b
        BY <4>1, RankOrder
      <4> QED BY <4>2 DEF S
    <3> QED BY <2>4, <3>1, <3>2
  <2> QED BY <2>3, <2>5
<1>11. ASSUME NEW n \in 1 .. lexsize, NEW m \in 1 .. lexsize, n < m PROVE from[n] \in Preceding(from[m])
  <2>1. from[n] \in 1 .. lexsize /\ from[m] \in 1 .. lexsize
    BY <1>6
  <2>2. Cardinality(P[from[n]]) = n - 1 /\ Cardinality(P[from[m]]) = m - 1
    BY <1>8
  <2>3. Cardinality(P[from[n]]) < Cardinality(P[from[m]])
    BY <1>11, <2>2, SMT
  <2>4. from[n] \in P[from[m]]
    BY <1>3, <2>1, <2>3, RankOrder, ZenonT(30)
  <2> QED BY <1>3, <2>1, <2>4
<1> QED BY <1>6, <1>7, <1>9, <1>10, <1>11

LEMMA SortOrders ==
  ASSUME input \in Inputs, Listing, Sort, NEW origin, Compiled(origin, Passed), InOrder(origin)
  PROVE  Listing' /\ \E o : Compiled(o, Places)' /\ WordOrder(o)'
<1>1. /\ unread = <<>> /\ dic' = Sorted /\ lexsize' = lexsize /\ input' = input
      /\ fbuf' = IF input.wakati THEN Append(fbuf, <<>>) ELSE fbuf
  BY DEF Sort
<1>2. Passed = Places /\ Places' = Places
  BY <1>1, AllPassed DEF Places, LinesIn
<1>3. /\ origin \in [1 .. lexsize -> Places]
      /\ \A i, j \in 1 .. lexsize : origin[i] = origin[j] => i = j
      /\ \A q \in Places : Skipped(LineAt(q)) \/ \E i \in 1 .. lexsize : origin[i] = q
      /\ \A i \in 1 .. lexsize : Made(dic[i], LineAt(origin[i]))
  BY <1>2 DEF Compiled
<1>4. \A i \in 1 .. lexsize : dic[i].word \in WordSet
  BY <1>3 DEF Made
<1>5. PICK from \in [1 .. lexsize -> 1 .. lexsize] :
        /\ \A n \in 1 .. lexsize : Sorted[n] = dic[from[n]]
        /\ \A n, m \in 1 .. lexsize : from[n] = from[m] => n = m
        /\ \A i \in 1 .. lexsize : \E n \in 1 .. lexsize : from[n] = i
        /\ \A n, m \in 1 .. lexsize : n < m => from[n] \in Preceding(from[m])
  BY <1>4, SortedEntries
<1>6. DOMAIN dic = 1 .. lexsize /\ lexsize \in Nat
  BY ListingDomain
<1>7. Listing'
  <2>1. PICK S : dic \in Seq(S) /\ Len(dic) = lexsize
    BY DEF Listing
  <2>2. ASSUME NEW n \in 1 .. lexsize PROVE dic'[n] \in S
    <3>1. dic'[n] = dic[from[n]] /\ from[n] \in 1 .. Len(dic)
      BY <1>1, <1>5, <2>1
    <3> QED BY <2>1, <3>1, ElementType
  <2>3. dic' \in [1 .. lexsize -> S]
    <3>1. dic' = [n \in 1 .. lexsize |-> dic'[n]]
      BY <1>1, <1>6 DEF Sorted
    <3> QED BY <2>2, <3>1
  <2> QED BY <1>1, <1>6, <2>3, FunctionIsSeq DEF Listing
<1>8. PICK o : o = [n \in 1 .. lexsize |-> origin[from[n]]]
  OBVIOUS
<1>9. o \in [1 .. lexsize -> Places] /\ \A n \in 1 .. lexsize : o[n] = origin[from[n]] /\ from[n] \in 1 .. lexsize
  BY <1>3, <1>5, <1>8
<1>10. /\ \A line : Skipped(line)' = Skipped(line)
       /\ \A q : LineAt(q)' = LineAt(q)
  BY <1>1 DEF Skipped, Convertible, LineAt, LinesIn
<1>11. \A q : Skipped(LineAt(q))' = Skipped(LineAt(q))
  <2> TAKE q
  <2>1. PICK line : line = LineAt(q) /\ line = LineAt(q)'
    BY <1>10
  <2> QED BY <1>10, <2>1
<1>12. ASSUME NEW e, NEW line, Made(e, line) PROVE Made(e, line)'
  <2>1. /\ WordOf(line)' = WordOf(line) /\ IdsOf(line)' = IdsOf(line) /\ CostFits(line)' = CostFits(line)
        /\ CostOf(line)' = CostOf(line) /\ FeatureOf(line)' = FeatureOf(line)
    BY <1>1 DEF WordOf, IdsOf, WantsIds, FoundIds, ContextIdsFit, IdMissing, CostFits, CostOf, FeatureOf
  <2>2. ~ input.wakati => fbuf' = fbuf
    BY <1>1
  <2> QED BY <1>1, <1>10, <1>12, <2>1, <2>2 DEF Made
<1>13. ASSUME NEW n \in 1 .. lexsize PROVE Made(dic[n], LineAt(o[n]))'
  <2>1. PICK e, line : e = dic[from[n]] /\ line = LineAt(o[n])
    OBVIOUS
  <2>2. Made(e, line)
    BY <1>3, <1>9, <2>1
  <2>3. dic'[n] = e /\ LineAt(o[n])' = line
    BY <1>1, <1>5, <1>10, <2>1
  <2> QED BY <1>12, <2>2, <2>3
<1>14. Compiled(o, Places)'
  <2>1. \A n, m \in 1 .. lexsize : o[n] = o[m] => n = m
    BY <1>3, <1>5, <1>9
  <2>2. ASSUME NEW q \in Places PROVE Skipped(LineAt(q))' \/ \E n \in 1 .. lexsize : o[n] = q
    <3>1. Skipped(LineAt(q)) \/ \E i \in 1 .. lexsize : origin[i] = q
      BY <1>3
    <3>2. ASSUME NEW i \in 1 .. lexsize, origin[i] = q PROVE \E n \in 1 .. lexsize : o[n] = q
      BY <1>5, <1>9, <3>2
    <3> QED BY <1>11, <3>1, <3>2
  <2> QED BY <1>1, <1>2, <1>9, <1>13, <2>1, <2>2 DEF Compiled
<1>15. ASSUME NEW n \in 1 .. lexsize, NEW m \in 1 .. lexsize, n < m
       PROVE  \/ Before(dic'[n].word, dic'[m].word)
              \/ dic'[n].word = dic'[m].word /\ Earlier(o[n], o[m])
  <2>1. from[n] \in Preceding(from[m]) /\ dic'[n] = dic[from[n]] /\ dic'[m] = dic[from[m]]
    BY <1>1, <1>5, <1>15
  <2>2. \/ Before(dic[from[n]].word, dic[from[m]].word)
        \/ dic[from[n]].word = dic[from[m]].word /\ from[n] < from[m]
    BY <2>1 DEF Preceding
  <2>3. from[n] < from[m] => Earlier(o[n], o[m])
    BY <1>9 DEF InOrder
  <2> QED BY <2>1, <2>2, <2>3
<1>16. WordOrder(o)'
  BY <1>1, <1>15 DEF WordOrder, Earlier, Before
<1> QED BY <1>7, <1>14, <1>16

-----------------------------------------------------------------------------
(* Equal words, side by side *)

Arranged(origin) ==
  Listing /\ (\A i \in 1 .. lexsize : dic[i].word \in WordSet) /\ WordOrder(origin)

LEMMA EqualBetween ==
  ASSUME NEW origin, Arranged(origin),
         NEW i \in 1 .. lexsize, NEW j \in 1 .. lexsize, dic[i].word = dic[j].word,
         NEW k \in i .. j
  PROVE  k \in 1 .. lexsize /\ dic[k].word = dic[i].word
<1>1. lexsize \in Nat
  BY DEF Arranged, Listing
<1>2. k \in 1 .. lexsize /\ k \in Int /\ i <= k /\ k <= j
  BY <1>1, SMT
<1>3. CASE k = i \/ k = j
  BY <1>2, <1>3
<1>4. CASE i < k /\ k < j
  <2>1. \/ Before(dic[i].word, dic[k].word) \/ dic[i].word = dic[k].word
    BY <1>2, <1>4 DEF Arranged, WordOrder
  <2>2. \/ Before(dic[k].word, dic[j].word) \/ dic[k].word = dic[j].word
    BY <1>2, <1>4 DEF Arranged, WordOrder
  <2>3. /\ dic[i].word \in WordSet /\ dic[k].word \in WordSet
        /\ ~ Before(dic[i].word, dic[i].word)
    BY <1>2, BeforeIrreflexive DEF Arranged
  <2>4. ~ (Before(dic[i].word, dic[k].word) /\ Before(dic[k].word, dic[i].word))
    BY <2>3, BeforeTransitive
  <2> QED BY <1>2, <2>1, <2>2, <2>4
<1> QED BY <1>2, <1>3, <1>4, SMT

LEMMA HeadsType ==
  ASSUME Listing
  PROVE  /\ \A h : h \in Heads <=> h \in 1 .. lexsize /\ (h = 1 \/ dic[h - 1].word # dic[h].word)
         /\ IsFiniteSet(Heads)
<1>1. DOMAIN dic = 1 .. lexsize /\ IsFiniteSet(1 .. lexsize)
  BY ListingDomain
<1>2. Heads \in SUBSET (1 .. lexsize)
  BY <1>1 DEF Heads
<1>3. IsFiniteSet(Heads)
  BY <1>1, <1>2, FS_Subset
<1> QED BY <1>1, <1>3 DEF Heads

LEMMA HeadOfWord ==
  ASSUME NEW origin, Arranged(origin), NEW i \in 1 .. lexsize
  PROVE  \E h \in Heads : dic[h].word = dic[i].word
<1> DEFINE T == { j \in 1 .. lexsize : dic[j].word = dic[i].word }
<1>1. T \in SUBSET Nat /\ i \in T
  BY SMT
<1>2. PICK h \in T : \A j \in T : h <= j
  BY <1>1, LeastExists
<1>3. h \in 1 .. lexsize /\ dic[h].word = dic[i].word
  BY <1>2
<1>4. CASE h # 1 /\ dic[h - 1].word = dic[h].word
  <2>1. h - 1 \in 1 .. lexsize /\ h - 1 < h /\ h - 1 \in Int
    <3>1. lexsize \in Nat
      BY DEF Arranged, Listing
    <3> QED BY <1>3, <1>4, <3>1, SMT
  <2>2. h <= h - 1
    BY <1>2, <1>3, <1>4, <2>1
  <2> QED BY <1>3, <2>1, <2>2, SMT
<1> QED BY <1>3, <1>4, HeadsType DEF Arranged

LEMMA HeadIsFirst ==
  ASSUME NEW origin, Arranged(origin), NEW h \in Heads,
         NEW i \in 1 .. lexsize, dic[i].word = dic[h].word
  PROVE  h <= i
<1> SUFFICES ASSUME ~ (h <= i) PROVE FALSE
  OBVIOUS
<1>1. h \in 1 .. lexsize /\ (h = 1 \/ dic[h - 1].word # dic[h].word) /\ lexsize \in Nat
  BY HeadsType DEF Arranged, Listing
<1>2. h # 1 /\ h - 1 \in i .. h
  BY <1>1, SMT
<1>3. dic[h - 1].word = dic[i].word
  BY <1>1, <1>2, EqualBetween
<1> QED BY <1>1, <1>2, <1>3

LEMMA HeadUnique ==
  ASSUME NEW origin, Arranged(origin), NEW h \in Heads, NEW g \in Heads, dic[h].word = dic[g].word
  PROVE  h = g
<1>1. h \in 1 .. lexsize /\ g \in 1 .. lexsize
  BY HeadsType DEF Arranged
<1>2. h <= g /\ g <= h
  BY <1>1, HeadIsFirst
<1> QED BY <1>1, <1>2, SMT

LEMMA HomographBlock ==
  ASSUME NEW origin, Arranged(origin), NEW h \in Heads
  PROVE  \E g \in h .. lexsize : Homographs(h) = h .. g /\ Cardinality(Homographs(h)) = g - h + 1
<1>1. h \in 1 .. lexsize /\ lexsize \in Nat /\ DOMAIN dic = 1 .. lexsize
  BY HeadsType, ListingDomain DEF Arranged
<1>2. h \in Homographs(h) /\ \A i : i \in Homographs(h) <=> i \in 1 .. lexsize /\ dic[i].word = dic[h].word
  BY <1>1 DEF Homographs
<1>3. Homographs(h) \in SUBSET (0 .. lexsize) /\ Homographs(h) # {}
  BY <1>1, <1>2, SMT
<1>4. PICK g \in Homographs(h) : \A i \in Homographs(h) : i <= g
  BY <1>1, <1>3, GreatestExists
<1>5. g \in 1 .. lexsize /\ dic[g].word = dic[h].word /\ h <= g
  BY <1>2, <1>4
<1>6. ASSUME NEW i \in Homographs(h) PROVE i \in h .. g
  <2>1. i \in 1 .. lexsize /\ i <= g
    BY <1>2, <1>4
  <2>2. h <= i
    BY <1>2, HeadIsFirst
  <2> QED BY <1>1, <1>5, <2>1, <2>2, SMT
<1>7. ASSUME NEW i \in h .. g PROVE i \in Homographs(h)
  BY <1>1, <1>2, <1>5, EqualBetween
<1>8. Homographs(h) = h .. g
  BY <1>6, <1>7
<1>9. Cardinality(h .. g) = g - h + 1
  <2>1. h \in Int /\ g \in Int /\ ~ (h > g)
    BY <1>1, <1>5, SMT
  <2> QED BY <2>1, FS_Interval
<1>10. g \in h .. lexsize
  BY <1>1, <1>5, SMT
<1> QED BY <1>8, <1>9, <1>10

LEMMA HeadsNumbered ==
  ASSUME Listing
  PROVE  /\ Cardinality(Heads) \in Nat
         /\ \A n \in 1 .. Cardinality(Heads) : NthHead(n) \in Heads
         /\ \A n, m \in 1 .. Cardinality(Heads) : NthHead(n) = NthHead(m) => n = m
         /\ \A h \in Heads : \E n \in 1 .. Cardinality(Heads) : NthHead(n) = h
<1>1. IsFiniteSet(Heads) /\ Heads \subseteq Nat
  <2>1. \A h \in Heads : h \in 1 .. lexsize
    BY HeadsType
  <2>2. 1 .. lexsize \subseteq Nat
    BY SMT
  <2> QED BY <2>1, <2>2, HeadsType
<1> DEFINE S == Heads
           Below(h) == { j \in S : j < h }
<1>2. PICK P : P = [h \in S |-> Below(h)]
  OBVIOUS
<1>3. Precedence(S, P) /\ \A h \in S : P[h] = Below(h)
  <2>1. P \in [S -> SUBSET S] /\ \A h \in S : P[h] = Below(h)
    BY <1>2
  <2>2. \A h \in S : h \notin Below(h)
    BY <1>1, SMT
  <2>3. ASSUME NEW h \in S, NEW g \in S, h \in Below(g), NEW j \in Below(h) PROVE j \in Below(g)
    <3>1. j \in S /\ j < h /\ h < g /\ j \in Nat /\ h \in Nat /\ g \in Nat
      BY <1>1, <2>3
    <3>2. j < g
      BY <3>1, SMT
    <3> QED BY <3>1, <3>2
  <2>4. \A h, g \in S : h # g => h \in Below(g) \/ g \in Below(h)
    BY <1>1, SMT
  <2> HIDE DEF Below
  <2> QED BY <1>1, <2>1, <2>2, <2>3, <2>4 DEF Precedence
<1>4. Cardinality(S) \in Nat
  BY <1>1, FS_CardinalityType
<1>5. \A n : NthHead(n) = CHOOSE i \in S : Cardinality(Below(i)) = n - 1
  BY DEF NthHead
<1> HIDE DEF S, Below
<1>6. ASSUME NEW n \in 1 .. Cardinality(S)
      PROVE  NthHead(n) \in S /\ Cardinality(P[NthHead(n)]) = n - 1 /\ n \in Int
  <2>1. \E h \in S : Cardinality(P[h]) = n - 1
    BY <1>3, RankOnto
  <2>2. \E h \in S : Cardinality(Below(h)) = n - 1
    BY <1>3, <2>1
  <2>3. n \in Int
    BY SMT
  <2> QED BY <1>3, <1>5, <2>2, <2>3
<1>7. ASSUME NEW n \in 1 .. Cardinality(S), NEW m \in 1 .. Cardinality(S), NthHead(n) = NthHead(m)
      PROVE  n = m
  <2>1. n - 1 = m - 1 /\ n \in Int /\ m \in Int
    BY <1>6, <1>7
  <2> QED BY <2>1, SMT
<1>8. ASSUME NEW h \in S PROVE \E n \in 1 .. Cardinality(S) : NthHead(n) = h
  <2>1. Cardinality(P[h]) \in Nat
    BY <1>3, RankOrder
  <2>2. Cardinality(P[h]) + 1 \in 1 .. Cardinality(S)
    <3>1. P[h] \in SUBSET S /\ P[h] # S
      BY <1>3 DEF Precedence
    <3>2. Cardinality(P[h]) <= Cardinality(S) /\ Cardinality(P[h]) # Cardinality(S)
      BY <1>1, <3>1, FS_Subset DEF S
    <3> QED BY <1>4, <2>1, <3>2, SMT
  <2>3. PICK n \in 1 .. Cardinality(S) : n = Cardinality(P[h]) + 1
    BY <2>2
  <2>4. Cardinality(P[NthHead(n)]) = Cardinality(P[h]) /\ NthHead(n) \in S
    <3>1. n - 1 = Cardinality(P[h])
      BY <2>1, <2>3, SMT
    <3> QED BY <1>6, <2>3, <3>1
  <2>5. \A a, b \in S : Cardinality(P[a]) = Cardinality(P[b]) => a = b
    BY <1>3, RankOrder
  <2> QED BY <2>3, <2>4, <2>5
<1> QED BY <1>4, <1>6, <1>7, <1>8 DEF S

-----------------------------------------------------------------------------
(* Packing *)

WordsPacked ==
  /\ keys = [ k \in 1 .. Cardinality(Heads) |-> dic[NthHead(k)].word ]
  /\ values = [ k \in 1 .. Cardinality(Heads) |-> Packed(NthHead(k)) ]

LEMMA PackBuilds ==
  ASSUME NEW origin, Arranged(origin), Pack, lexsize # 0
  PROVE  BuildAny /\ WordsPacked'
<1> DEFINE n == Cardinality(Heads)
           ks == [ k \in 1 .. n |-> dic[NthHead(k)].word ]
           vs == [ k \in 1 .. n |-> Packed(NthHead(k)) ]
<1>1. Build(ks, vs) /\ dic' = dic
  BY DEF Pack
<1>2. n \in Nat /\ \A k \in 1 .. n : NthHead(k) \in Heads
  BY HeadsNumbered DEF Arranged
<1>3. \A k \in 1 .. n : dic[NthHead(k)].word \in Seq(0 .. MaxByte)
  BY <1>2, HeadsType DEF Arranged, WordSet
<1>4. ASSUME NEW k \in 1 .. n PROVE Packed(NthHead(k)) \in Int
  <2>1. PICK h \in Heads : h = NthHead(k)
    BY <1>2
  <2>2. PICK g \in h .. lexsize : Cardinality(Homographs(h)) = g - h + 1
    BY HomographBlock
  <2>3. h \in 1 .. lexsize /\ CountSize \in Nat
    BY HeadsType, DictionaryAssumption DEF Arranged
  <2>4. g \in Int /\ h \in Int
    BY <2>2, <2>3, SMT
  <2>5. Cardinality(Homographs(h)) + (h - 1) * CountSize \in Int
    BY <2>2, <2>3, <2>4, SMT
  <2> QED BY <2>1, <2>5, IntType DEF Packed
<1>5. ks \in Seq(Seq(0 .. MaxByte)) /\ Len(ks) = n /\ vs \in Seq(Int) /\ Len(vs) = n
  <2>1. ks \in [1 .. n -> Seq(0 .. MaxByte)] /\ vs \in [1 .. n -> Int]
    BY <1>3, <1>4
  <2> HIDE DEF n, ks, vs
  <2> QED BY <1>2, <2>1, FunctionIsSeq
<1>6. n # 0
  <2>1. 1 \in 1 .. lexsize
    BY SMT DEF Arranged, Listing
  <2>2. 1 \in Heads
    BY <2>1, HeadsType DEF Arranged
  <2>3. IsFiniteSet(Heads)
    BY HeadsType DEF Arranged
  <2> QED BY <2>2, <2>3, FS_EmptySet
<1>7. ks # <<>>
  <2>1. Len(<<>>) = 0
    BY SMT
  <2> HIDE DEF n, ks
  <2> QED BY <1>5, <1>6, <2>1
<1>8. BuildAny
  <2> HIDE DEF n, ks, vs
  <2> QED BY <1>1, <1>5, <1>7 DEF BuildAny
<1>9. keys' = ks /\ values' = vs
  BY <1>1 DEF Build
<1>10. /\ Heads' = Heads /\ \A k : NthHead(k)' = NthHead(k)
       /\ \A i : Packed(i)' = Packed(i)
  BY <1>1 DEF Heads, NthHead, Packed, Homographs
<1>11. WordsPacked'
  <2>1. keys' = [ k \in 1 .. Cardinality(Heads') |-> dic'[NthHead(k)'].word ]
    BY <1>1, <1>9, <1>10
  <2>2. values' = [ k \in 1 .. Cardinality(Heads') |-> Packed(NthHead(k))' ]
    <3>1. \A k : Packed(NthHead(k))' = Packed(NthHead(k))
      BY <1>1 DEF Heads, NthHead, Packed, Homographs
    <3> QED BY <1>9, <1>10, <3>1
  <2> QED BY <2>1, <2>2 DEF WordsPacked
<1> QED BY <1>8, <1>11

-----------------------------------------------------------------------------
(* The answers *)

LEMMA BlockSize ==
  ASSUME NEW o, NEW a \in Int, NEW b \in Int, a <= b + 1,
         \A i, j \in a .. b : o[i] = o[j] => i = j
  PROVE  Cardinality({ o[i] : i \in a .. b }) = b - a + 1
<1> DEFINE S == a .. b
           U == { o[i] : i \in a .. b }
           f == [i \in S |-> o[i]]
<1>1. IsFiniteSet(S) /\ Cardinality(S) = b - a + 1
  <2>1. IsFiniteSet(S) /\ Cardinality(S) = IF a > b THEN 0 ELSE b - a + 1
    BY FS_Interval
  <2>2. a > b => b - a + 1 = 0
    BY SMT
  <2> QED BY <2>1, <2>2
<1>2. f \in [S -> U] /\ (\A i, j \in S : f[i] = f[j] => i = j) /\ (\A u \in U : \E i \in S : f[i] = u)
  OBVIOUS
<1> HIDE DEF S, U, f
<1>3. f \in Bijection(S, U)
  BY <1>2 DEF Bijection, Injection, IsInjective, Surjection
<1>4. Cardinality(U) = Cardinality(S)
  <2>1. ExistsBijection(S, U)
    BY <1>3 DEF ExistsBijection
  <2> QED BY <1>1, <2>1, FS_Bijection
<1> QED BY <1>1, <1>4 DEF U

LEMMA WordKnown ==
  ASSUME NEW origin, Compiled(origin, Places), NEW word
  PROVE  /\ \A p : p \in PlacesOf(word) <=> \E i \in 1 .. lexsize : p = origin[i] /\ dic[i].word = word
         /\ PlacesOf(word) # {} <=> \E i \in 1 .. lexsize : dic[i].word = word
<1>1. ASSUME NEW p \in PlacesOf(word) PROVE \E i \in 1 .. lexsize : p = origin[i] /\ dic[i].word = word
  <2>1. p \in Places /\ ~ Skipped(LineAt(p)) /\ WordOf(LineAt(p)) = word
    BY DEF PlacesOf
  <2>2. PICK i \in 1 .. lexsize : origin[i] = p
    BY <2>1 DEF Compiled
  <2>3. dic[i].word = word
    BY <2>1, <2>2 DEF Compiled, Made
  <2> QED BY <2>2, <2>3
<1>2. ASSUME NEW i \in 1 .. lexsize, dic[i].word = word PROVE origin[i] \in PlacesOf(word)
  <2>1. origin[i] \in Places /\ Made(dic[i], LineAt(origin[i]))
    BY DEF Compiled
  <2>2. ~ Skipped(LineAt(origin[i])) /\ WordOf(LineAt(origin[i])) = word
    BY <1>2, <2>1 DEF Made
  <2> QED BY <2>1, <2>2 DEF PlacesOf
<1> QED BY <1>1, <1>2

\* places are those of the entries h .. g, in their order
RankedBlock(origin, places, h, g) ==
  /\ Cardinality(places) = g - h + 1
  /\ \A p \in places : \E i \in h .. g :
       p = origin[i] /\ Cardinality({ q \in places : Earlier(q, p) }) = i - h

LEMMA PlacesInBlock ==
  ASSUME input \in Inputs, NEW origin, Compiled(origin, Places), Arranged(origin),
         NEW h \in Heads, NEW g \in h .. lexsize, Homographs(h) = h .. g
  PROVE  RankedBlock(origin, PlacesOf(dic[h].word), h, g)
<1> DEFINE places == PlacesOf(dic[h].word)
<1>1. h \in 1 .. lexsize /\ lexsize \in Nat /\ DOMAIN dic = 1 .. lexsize /\ h \in Int /\ g \in Int /\ h <= g
  <2>1. h \in 1 .. lexsize /\ lexsize \in Nat /\ DOMAIN dic = 1 .. lexsize
    BY HeadsType, ListingDomain DEF Arranged
  <2> QED BY <2>1, SMT
<1>2. \A i \in h .. g : i \in 1 .. lexsize /\ i \in Int /\ h <= i /\ i <= g
  BY <1>1, SMT
<1>3. \A i : i \in h .. g <=> i \in 1 .. lexsize /\ dic[i].word = dic[h].word
  BY <1>1 DEF Homographs
<1>4. places = { origin[i] : i \in h .. g }
  <2>1. \A p : p \in places <=> \E i \in 1 .. lexsize : p = origin[i] /\ dic[i].word = dic[h].word
    BY WordKnown
  <2>2. \A p : p \in places <=> \E i \in h .. g : p = origin[i]
    BY <1>3, <2>1
  <2> QED BY <2>2
<1>5. \A i \in h .. g : origin[i] \in Places
  BY <1>2 DEF Compiled
<1>6. \A i, j \in h .. g : origin[i] = origin[j] => i = j
  BY <1>2 DEF Compiled
<1>7. Cardinality(places) = g - h + 1
  <2>1. h \in Int /\ g \in Int /\ h <= g + 1
    BY <1>1, SMT
  <2> HIDE DEF places
  <2>2. Cardinality({ origin[i] : i \in h .. g }) = g - h + 1
    BY <1>6, <2>1, BlockSize, ZenonT(30)
  <2> QED BY <1>4, <2>2
<1>8. ASSUME NEW i \in h .. g, NEW j \in h .. g, i < j PROVE Earlier(origin[i], origin[j])
  <2>1. dic[i].word = dic[j].word /\ dic[i].word \in WordSet
    BY <1>2, <1>3 DEF Arranged
  <2>2. ~ Before(dic[i].word, dic[j].word)
    BY <2>1, BeforeIrreflexive
  <2> QED BY <1>2, <1>8, <2>2 DEF Arranged, WordOrder
<1>9. ASSUME NEW i \in h .. g
      PROVE  Cardinality({ q \in places : Earlier(q, origin[i]) }) = i - h
  <2>1. ASSUME NEW j \in h .. g PROVE Earlier(origin[j], origin[i]) <=> j < i
    <3>1. j < i \/ j = i \/ i < j
      BY <1>2, SMT
    <3>2. CASE j < i
      BY <1>8, <3>2
    <3>3. CASE j = i
      <4>1. ~ (j < i)
        BY <1>2, <3>3, SMT
      <4> QED BY <1>5, <3>3, <4>1, EarlierOrder
    <3>4. CASE i < j
      <4>1. ~ (j < i)
        BY <1>2, <3>4, SMT
      <4> QED BY <1>5, <1>8, <3>4, <4>1, EarlierOrder
    <3> QED BY <3>1, <3>2, <3>3, <3>4
  <2>2. \A j : j \in h .. i - 1 <=> j \in h .. g /\ j < i
    BY <1>1, <1>2, SMT
  <2>3. { q \in places : Earlier(q, origin[i]) } = { origin[j] : j \in h .. i - 1 }
    BY <1>4, <2>1, <2>2
  <2>4. h <= (i - 1) + 1 /\ i - 1 \in Int /\ (i - 1) - h + 1 = i - h
    BY <1>1, <1>2, SMT
  <2>5. Cardinality({ origin[j] : j \in h .. i - 1 }) = (i - 1) - h + 1
    <3>1. \A j, k \in h .. i - 1 : origin[j] = origin[k] => j = k
      BY <1>6, <2>2
    <3>2. PICK b \in Int : b = i - 1 /\ h <= b + 1
      BY <2>4
    <3>3. \A j, k \in h .. b : origin[j] = origin[k] => j = k
      BY <3>1, <3>2
    <3>4. b \in Int /\ h \in Int /\ h <= b + 1
      BY <1>1, <3>2
    <3>5. Cardinality({ origin[j] : j \in h .. b }) = b - h + 1
      BY <3>3, <3>4, BlockSize
    <3> QED BY <3>2, <3>5
  <2> QED BY <2>3, <2>4, <2>5
<1>10. RankedBlock(origin, places, h, g)
  <2>1. ASSUME NEW p \in places
        PROVE  \E i \in h .. g : p = origin[i] /\ Cardinality({ q \in places : Earlier(q, p) }) = i - h
    BY <1>4, <1>9
  <2> HIDE DEF places
  <2> QED BY <1>7, <2>1 DEF RankedBlock
<1> QED BY <1>10

\* what a value stands for, when the entries can be numbered
LEMMA ValueOfHead ==
  ASSUME NEW origin, Arranged(origin), lexsize * CountSize < 2 * (IntMax + 1),
         NEW h \in Heads, NEW g \in h .. lexsize, Cardinality(Homographs(h)) = g - h + 1,
         Packed(h) >= 0
  PROVE  Packed(h) = (g - h + 1) + (h - 1) * CountSize
<1>1. h \in 1 .. lexsize /\ lexsize \in Nat /\ CountSize \in Nat \ {0} /\ IntMax \in Nat
  BY HeadsType, DictionaryAssumption DEF Arranged, Listing
<1>2. h \in Nat /\ g \in Nat /\ h - 1 \in Nat /\ h <= g /\ g <= lexsize
  BY <1>1, SMT
<1> DEFINE c == g - h + 1
           X == c + (h - 1) * CountSize
<1>3. (h - 1) * CountSize \in Nat /\ c \in Nat /\ X \in Nat
  BY <1>1, <1>2, SMT
<1>4. X <= lexsize * CountSize
  <2>1. c <= c * CountSize
    BY <1>1, <1>3, SMT
  <2>2. c * CountSize + (h - 1) * CountSize = g * CountSize
    BY <1>1, <1>2, SMT
  <2>3. g * CountSize <= lexsize * CountSize
    BY <1>1, <1>2, ProductMonotone
  <2>4. c * CountSize \in Nat /\ g * CountSize \in Nat /\ lexsize * CountSize \in Nat
    BY <1>1, <1>2, <1>3, SMT
  <2> HIDE DEF c
  <2> QED BY <1>3, <2>1, <2>2, <2>3, <2>4, SMT
<1>5. X < 2 * (IntMax + 1)
  <2>1. lexsize * CountSize \in Nat
    BY <1>1, SMT
  <2> HIDE DEF X
  <2> QED BY <1>1, <1>3, <1>4, <2>1, SMT
<1>6. Packed(h) = AsInt(X)
  BY DEF Packed
<1> HIDE DEF X
<1>7. Packed(h) = X
  BY <1>3, <1>5, <1>6, IntKeeps
<1> QED BY <1>7 DEF X

LEMMA HeadAnswers ==
  ASSUME input \in Inputs, NEW origin, Compiled(origin, Places), Arranged(origin), Buffered, stage = "image",
         lexsize * CountSize < 2 * (IntMax + 1),
         NEW h \in Heads, NEW v \in Nat, v = Packed(h),
         Cardinality(PlacesOf(dic[h].word)) < CountSize
  PROVE  Agree(Tokens(v), PlacesOf(dic[h].word))
<1>1. h \in 1 .. lexsize /\ lexsize \in Nat /\ CountSize \in Nat \ {0}
  BY HeadsType, DictionaryAssumption DEF Arranged, Listing
<1>2. PICK g \in h .. lexsize : Homographs(h) = h .. g /\ Cardinality(Homographs(h)) = g - h + 1
  BY HomographBlock
<1>3. h \in Nat /\ g \in Nat /\ h - 1 \in Nat /\ h <= g /\ g <= lexsize /\ g - h + 1 \in Nat
  BY <1>1, <1>2, SMT
<1>4. PICK places : places = PlacesOf(dic[h].word) /\ Cardinality(places) < CountSize
  OBVIOUS
<1>5. RankedBlock(origin, places, h, g)
  BY <1>2, <1>4, PlacesInBlock
<1>6. v = (g - h + 1) + (h - 1) * CountSize
  <2>1. v >= 0
    BY SMT
  <2> QED BY <1>2, <2>1, ValueOfHead
<1>7. TokenSize(v) = g - h + 1 /\ TokenIndex(v) = h - 1
  <2>1. PICK c, i : c = g - h + 1 /\ i = h - 1
    OBVIOUS
  <2>2. c \in Nat /\ i \in Nat /\ c < CountSize /\ CountSize \in Nat \ {0}
    BY <1>1, <1>3, <1>4, <1>5, <2>1 DEF RankedBlock
  <2>3. (c + i * CountSize) % CountSize = c /\ (c + i * CountSize) \div CountSize = i
    BY <2>2, CountAndIndex
  <2> QED BY <1>6, <2>1, <2>3 DEF TokenSize, TokenIndex
<1>8. Tokens(v) = [ j \in 1 .. g - h + 1 |-> Entry(dic[h - 1 + j].token) ]
  BY <1>7 DEF Tokens
<1>9. Len(Tokens(v)) = g - h + 1
  <2> DEFINE T == { Entry(dic[h - 1 + j].token) : j \in 1 .. g - h + 1 }
  <2>1. Tokens(v) \in [1 .. g - h + 1 -> T]
    BY <1>8
  <2> HIDE DEF T
  <2> QED BY <1>3, <2>1, FunctionIsSeq
<1>10. ASSUME NEW p \in places
       PROVE  EntryOfLine(Tokens(v)[1 + Cardinality({ q \in places : Earlier(q, p) })], LineAt(p))
  <2>1. PICK i \in h .. g : p = origin[i] /\ Cardinality({ q \in places : Earlier(q, p) }) = i - h
    BY <1>5 DEF RankedBlock
  <2>2. 1 + (i - h) \in 1 .. g - h + 1 /\ h - 1 + (1 + (i - h)) = i /\ i \in 1 .. lexsize
    BY <1>1, <1>3, SMT
  <2>3. Tokens(v)[1 + (i - h)] = Entry(dic[i].token)
    BY <1>8, <2>2
  <2>4. PICK line : line = LineAt(p)
    OBVIOUS
  <2>5. PICK token : token = dic[i].token
    OBVIOUS
  <2>6. Made(dic[i], line)
    BY <2>1, <2>2, <2>4 DEF Compiled
  <2>7. fbuf[token.feature + 1] = IF input.wakati THEN <<>> ELSE FeatureOf(line)
    <3>1. CASE input.wakati
      <4>1. token.feature = 0 /\ fbuf = << <<>> >>
        BY <2>5, <2>6, <3>1 DEF Made, Buffered
      <4>2. 0 + 1 = 1 /\ << <<>> >>[1] = <<>>
        BY SMT
      <4> QED BY <3>1, <4>1, <4>2
    <3>2. CASE ~ input.wakati
      BY <2>5, <2>6, <3>2 DEF Made
    <3> QED BY <3>1, <3>2
  <2>8. EntryOfLine(Entry(token), line)
    <3>1. <<token.lcAttr, token.rcAttr>> \in IdsOf(line)
      BY <2>5, <2>6 DEF Made
    <3>2. IF WantsIds(line)
          THEN ContextIdsFit /\ <<token.lcAttr, token.rcAttr>> \in FoundIds(line)
          ELSE token.lcAttr = line.lid /\ token.rcAttr = line.rid
      BY <3>1, IdsAsWanted
    <3> QED BY <2>5, <2>6, <2>7, <3>2 DEF Entry, EntryOfLine, Made
  <2> QED BY <2>1, <2>3, <2>4, <2>5, <2>8
<1>11. Agree(Tokens(v), places)
  BY <1>5, <1>9, <1>10 DEF Agree, RankedBlock
<1> QED BY <1>4, <1>11

LEMMA TextType ==
  ASSUME NEW text \in Texts
  PROVE  text \in Seq(0 .. MaxByte) /\ Len(text) \in Nat
<1>1. PICK n \in 0 .. MaxText : text \in [1 .. n -> 1 .. MaxByte]
  BY DEF Texts
<1>2. n \in Nat
  BY <1>1, SMT
<1>3. \A b \in 1 .. MaxByte : b \in 0 .. MaxByte
  BY DoubleArrayAssumption, SMT
<1>4. text \in [1 .. n -> 0 .. MaxByte]
  BY <1>1, <1>3
<1> QED BY <1>2, <1>4, FunctionIsSeq

LEMMA ImageAnswers ==
  ASSUME input \in Inputs, NEW origin, Compiled(origin, Places), Arranged(origin), Buffered, WordsPacked,
         building = "built", SearchesFindKeys
  PROVE  AnswersAreMap
<1> SUFFICES ASSUME stage = "image", lexsize * CountSize < 2 * (IntMax + 1), NEW text \in Texts
             PROVE  LET found == CommonPrefixSearch(text, Len(text))
                    IN /\ DOMAIN found = { n \in 1 .. Len(text) : PlacesOf(Prefix(text, n)) # {} }
                       /\ \A n \in DOMAIN found :
                            LET places == PlacesOf(Prefix(text, n))
                            IN Cardinality(places) < CountSize => Agree(Tokens(found[n]), places)
                       /\ ExactMatchSearch(text) =
                            IF Len(text) \in DOMAIN found THEN found[Len(text)] ELSE -1
  BY DEF AnswersAreMap
<1>1. PICK found : found = CommonPrefixSearch(text, Len(text))
  OBVIOUS
<1>2. text \in Seq(0 .. MaxByte) /\ Len(text) \in Nat
  BY TextType
<1>3. /\ DOMAIN found = { n \in 0 .. Len(text) : Same(text, n) # {} }
      /\ \A n \in DOMAIN found : \E k : ValueOf(k, Same(text, n), found[n])
      /\ \/ Same(text, Len(text)) = {} /\ ExactMatchSearch(text) = -1
         \/ \E k : ValueOf(k, Same(text, Len(text)), ExactMatchSearch(text))
  BY <1>1, <1>2 DEF SearchesFindKeys
<1>4. PICK N \in Nat : N = Cardinality(Heads)
  BY HeadsNumbered DEF Arranged
<1>5. /\ Len(keys) = N
      /\ \A k \in 1 .. N : keys[k] = dic[NthHead(k)].word /\ values[k] = Packed(NthHead(k)) /\ NthHead(k) \in Heads
      /\ \A h \in Heads : \E k \in 1 .. N : NthHead(k) = h
  <2> DEFINE T == { dic[NthHead(k)].word : k \in 1 .. N }
  <2>1. keys \in [1 .. N -> T]
    BY <1>4 DEF WordsPacked
  <2>2. Len(keys) = N
    <3> HIDE DEF T
    <3> QED BY <1>4, <2>1, FunctionIsSeq
  <2> QED BY <1>4, <2>2, HeadsNumbered DEF WordsPacked, Arranged
<1>6. \A n : Same(text, n) = { k \in 1 .. N : dic[NthHead(k)].word = Prefix(text, n) }
  BY <1>5 DEF Same, Prefix
<1>7. ASSUME NEW n PROVE Same(text, n) # {} <=> PlacesOf(Prefix(text, n)) # {}
  <2>1. ASSUME NEW k \in Same(text, n) PROVE PlacesOf(Prefix(text, n)) # {}
    <3>1. NthHead(k) \in 1 .. lexsize /\ dic[NthHead(k)].word = Prefix(text, n)
      BY <1>5, <1>6, HeadsType DEF Arranged
    <3> QED BY <3>1, WordKnown
  <2>2. ASSUME PlacesOf(Prefix(text, n)) # {} PROVE Same(text, n) # {}
    <3>1. PICK i \in 1 .. lexsize : dic[i].word = Prefix(text, n)
      BY <2>2, WordKnown
    <3>2. PICK h \in Heads : dic[h].word = Prefix(text, n)
      BY <3>1, HeadOfWord
    <3>3. PICK k \in 1 .. N : NthHead(k) = h
      BY <1>5
    <3> QED BY <1>6, <3>2, <3>3
  <2> QED BY <2>1, <2>2
<1>8. Same(text, 0) = {}
  <2> SUFFICES ASSUME NEW k \in Same(text, 0) PROVE FALSE
    OBVIOUS
  <2>1. NthHead(k) \in 1 .. lexsize /\ dic[NthHead(k)].word = Prefix(text, 0)
    BY <1>5, <1>6, HeadsType DEF Arranged
  <2>2. dic[NthHead(k)].word # <<>>
    BY <2>1 DEF Compiled, Made
  <2>3. SubSeq(text, 1, 0) = <<>>
    BY <1>2, SMT
  <2> QED BY <2>1, <2>2, <2>3 DEF Prefix
<1>9. DOMAIN found = { n \in 1 .. Len(text) : PlacesOf(Prefix(text, n)) # {} }
  <2>1. \A n : n \in 1 .. Len(text) <=> n \in 0 .. Len(text) /\ n # 0
    BY <1>2, SMT
  <2> QED BY <1>3, <1>7, <1>8, <2>1
<1>10. ASSUME NEW n \in DOMAIN found, Cardinality(PlacesOf(Prefix(text, n))) < CountSize
       PROVE  Agree(Tokens(found[n]), PlacesOf(Prefix(text, n)))
  <2>1. PICK k : ValueOf(k, Same(text, n), found[n])
    BY <1>3
  <2>2. k \in 1 .. N /\ dic[NthHead(k)].word = Prefix(text, n) /\ found[n] = values[k] /\ found[n] \in Nat
    BY <1>6, <2>1 DEF ValueOf
  <2>3. PICK h \in Heads : h = NthHead(k)
    BY <1>5, <2>2
  <2>4. found[n] = Packed(h) /\ dic[h].word = Prefix(text, n)
    BY <1>5, <2>2, <2>3
  <2> QED BY <1>10, <2>2, <2>4, HeadAnswers
<1>11. ExactMatchSearch(text) = IF Len(text) \in DOMAIN found THEN found[Len(text)] ELSE -1
  <2>1. Len(text) \in 0 .. Len(text)
    BY <1>2, SMT
  <2>2. CASE Same(text, Len(text)) = {}
    <3>1. Len(text) \notin DOMAIN found
      BY <1>3, <2>2
    <3>2. \A k, v : ~ ValueOf(k, Same(text, Len(text)), v)
      BY <2>2 DEF ValueOf
    <3> QED BY <1>3, <3>1, <3>2
  <2>3. CASE Same(text, Len(text)) # {}
    <3>1. Len(text) \in DOMAIN found
      BY <1>3, <2>1, <2>3
    <3>2. PICK k : ValueOf(k, Same(text, Len(text)), found[Len(text)])
      BY <1>3, <3>1
    <3>3. PICK j : ValueOf(j, Same(text, Len(text)), ExactMatchSearch(text))
      BY <1>3, <2>3
    <3>4. k \in 1 .. N /\ j \in 1 .. N /\ k <= j /\ j <= k
      BY <1>6, <3>2, <3>3 DEF ValueOf
    <3>5. k = j
      BY <3>4, SMT
    <3>6. found[Len(text)] = values[k] /\ ExactMatchSearch(text) = values[k]
      BY <3>2, <3>3, <3>5 DEF ValueOf
    <3> QED BY <3>1, <3>6
  <2> QED BY <2>2, <2>3
<1> QED BY <1>1, <1>9, <1>10, <1>11

-----------------------------------------------------------------------------
(* The inductive invariant: the entries of the lines that were passed, in  *)
(* the order of the lines and then of the words, under the words that the  *)
(* double array was built of.                                              *)

Stages == {"read", "pack", "build", "image", "dead", "undefined"}

CompiledSoFar ==
  /\ \E origin, P : Compiled(origin, P)
  /\ stage = "read" => Unread /\ building = "idle"
                       /\ \E origin : Compiled(origin, Passed) /\ InOrder(origin)
  /\ stage = "pack" => lexsize # 0 /\ building = "idle"
  /\ stage \in {"pack", "build", "image"} => \E origin : Compiled(origin, Places) /\ WordOrder(origin)
  /\ stage \in {"build", "image"} => WordsPacked
  /\ stage = "image" => building = "built"

DictionaryInv ==
  /\ input \in Inputs /\ stage \in Stages
  /\ ArrayInv /\ Listing /\ Buffered /\ CompiledSoFar

LEMMA SameEntries ==
  ASSUME UNCHANGED <<input, dic, fbuf, lexsize>>
  PROVE  /\ Listing' <=> Listing
         /\ Places' = Places
         /\ \A o, P : Compiled(o, P)' <=> Compiled(o, P)
         /\ \A o : (WordOrder(o)' <=> WordOrder(o)) /\ (InOrder(o)' <=> InOrder(o))
<1>1. Listing' <=> Listing
  BY DEF Listing
<1>2. Places' = Places /\ \A q : LineAt(q)' = LineAt(q)
  BY DEF Places, LineAt, LinesIn
<1>3. /\ \A line : Skipped(line)' = Skipped(line)
      /\ \A e, line : Made(e, line)' = Made(e, line)
  BY DEF Skipped, Convertible, Made, WordOf, IdsOf, WantsIds, FoundIds, ContextIdsFit, IdMissing, CostFits, CostOf, FeatureOf
<1>4. ASSUME NEW q PROVE Skipped(LineAt(q))' = Skipped(LineAt(q))
  <2>1. PICK line : line = LineAt(q) /\ line = LineAt(q)'
    BY <1>2
  <2> QED BY <1>3, <2>1
<1>5. ASSUME NEW o, NEW i PROVE Made(dic[i], LineAt(o[i]))' = Made(dic[i], LineAt(o[i]))
  <2>1. PICK line, e : line = LineAt(o[i]) /\ line = LineAt(o[i])' /\ e = dic[i]
    BY <1>2
  <2> QED BY <1>3, <2>1
<1>6. \A o, P : Compiled(o, P)' <=> Compiled(o, P)
  BY <1>4, <1>5 DEF Compiled
<1>7. \A o : (WordOrder(o)' <=> WordOrder(o)) /\ (InOrder(o)' <=> InOrder(o))
  BY DEF WordOrder, InOrder, Before, Earlier
<1> QED BY <1>1, <1>2, <1>6, <1>7

LEMMA ArrangedEntries ==
  ASSUME Listing, NEW origin, Compiled(origin, Places), WordOrder(origin)
  PROVE  Arranged(origin)
<1>1. \A i \in 1 .. lexsize : dic[i].word \in WordSet
  BY DEF Compiled, Made
<1> QED BY <1>1 DEF Arranged

LEMMA InvInit ==
  ASSUME Init
  PROVE  DictionaryInv
<1>1. /\ input \in Inputs /\ unread = input.files /\ stage = "read"
      /\ dic = <<>> /\ fbuf = <<>> /\ lexsize = 0 /\ EmptyArray
  BY DEF Init
<1>2. ArrayInv
  BY <1>1, ArrayInvInit
<1>3. <<>> \in Seq({}) /\ Len(<<>>) = 0 /\ 0 \in Nat /\ 1 .. 0 = {}
  BY SMT
<1>4. Listing /\ Buffered
  BY <1>1, <1>3, Zenon DEF Listing, Buffered
<1>5. Unread /\ Passed = {}
  BY <1>1, FirstFile
<1>6. PICK o : o = [i \in {} |-> 0]
  OBVIOUS
<1>7. Compiled(o, Passed) /\ InOrder(o)
  <2>1. o \in [1 .. lexsize -> Passed]
    BY <1>1, <1>3, <1>5, <1>6
  <2> QED BY <1>1, <1>3, <1>5, <2>1, Zenon DEF Compiled, InOrder
<1>8. building = "idle"
  BY <1>1 DEF EmptyArray
<1> QED BY <1>1, <1>2, <1>4, <1>5, <1>7, <1>8 DEF DictionaryInv, CompiledSoFar, Stages

LEMMA InvReading ==
  ASSUME DictionaryInv, OpenMissing \/ EndOfFile \/ Die \/ Skip \/ Add
  PROVE  DictionaryInv'
<1>1. /\ input \in Inputs /\ input' = input /\ stage = "read" /\ stage' \in {"read", "dead"}
      /\ UNCHANGED daVars /\ Listing /\ Buffered
  BY DEF DictionaryInv, OpenMissing, EndOfFile, Die, Skip, Add, Reading, AtLine
<1>2. Unread /\ building = "idle" /\ building' = "idle"
  BY <1>1 DEF DictionaryInv, CompiledSoFar, daVars
<1>3. PICK origin : Compiled(origin, Passed) /\ InOrder(origin)
  BY <1>1 DEF DictionaryInv, CompiledSoFar
<1>4. ArrayInv'
  BY <1>1, ArrayInvNext DEF DictionaryInv
<1>5. CASE UNCHANGED <<dic, fbuf, lexsize>>
  <2>1. /\ Listing' /\ (\A o, P : Compiled(o, P)' <=> Compiled(o, P))
        /\ \A o : InOrder(o)' <=> InOrder(o)
    BY <1>1, <1>5, SameEntries
  <2>2. Buffered'
    BY <1>1, <1>5 DEF Buffered
  <2>3. PICK P : P = Passed /\ Compiled(origin, P)
    BY <1>3
  <2>4. CASE stage' = "dead"
    BY <1>1, <1>4, <2>1, <2>2, <2>3, <2>4 DEF DictionaryInv, CompiledSoFar, Stages
  <2>5. CASE stage' = "read" /\ (OpenMissing \/ EndOfFile)
    <3>1. Unread' /\ Passed' = Passed
      BY <1>1, <1>2, <2>5, AfterMissing, AfterFile
    <3>2. Compiled(origin, Passed)' /\ InOrder(origin)'
      BY <1>3, <2>1, <2>3, <3>1
    <3> QED BY <1>1, <1>2, <1>4, <2>1, <2>2, <2>5, <3>1, <3>2 DEF DictionaryInv, CompiledSoFar, Stages
  <2>6. CASE stage' = "read" /\ Skip
    <3>1. Unread' /\ Compiled(origin, Passed)' /\ InOrder(origin)'
      BY <1>1, <1>2, <1>3, <2>6, SkipCompiles
    <3> QED BY <1>1, <1>2, <1>4, <2>1, <2>2, <2>6, <3>1 DEF DictionaryInv, CompiledSoFar, Stages
  <2>7. stage' = "read" => ~ Die /\ ~ Add
    <3>1. Add => lexsize' = lexsize + 1
      BY DEF Add
    <3>2. lexsize' # lexsize + 1
      BY <1>1, <1>5, SMT DEF Listing
    <3> QED BY <3>1, <3>2 DEF Die
  <2> QED BY <1>1, <2>4, <2>5, <2>6, <2>7
<1>6. CASE Add
  <2>1. /\ Unread' /\ Listing' /\ Buffered'
        /\ \E o : Compiled(o, Passed)' /\ InOrder(o)'
    BY <1>1, <1>2, <1>3, <1>6, AddCompiles
  <2>2. stage' = "read"
    BY <1>1, <1>6 DEF Add
  <2> QED BY <1>1, <1>2, <1>4, <2>1, <2>2 DEF DictionaryInv, CompiledSoFar, Stages
<1> QED BY <1>5, <1>6 DEF OpenMissing, EndOfFile, Die, Skip

LEMMA InvSort ==
  ASSUME DictionaryInv, Sort
  PROVE  DictionaryInv'
<1>1. /\ stage = "read" /\ stage' = (IF dic = <<>> THEN "undefined" ELSE "pack")
      /\ input \in Inputs /\ input' = input /\ UNCHANGED daVars /\ lexsize' = lexsize
      /\ fbuf' = IF input.wakati THEN Append(fbuf, <<>>) ELSE fbuf
      /\ Listing /\ Buffered
  BY DEF DictionaryInv, Sort
<1>2. PICK origin : Compiled(origin, Passed) /\ InOrder(origin)
  BY <1>1 DEF DictionaryInv, CompiledSoFar
<1>3. Listing' /\ \E o : Compiled(o, Places)' /\ WordOrder(o)'
  BY <1>1, <1>2, SortOrders
<1>4. ArrayInv'
  BY <1>1, ArrayInvNext DEF DictionaryInv
<1>5. building' = "idle"
  BY <1>1 DEF DictionaryInv, CompiledSoFar, daVars
<1>6. Buffered'
  <2>1. CASE input.wakati
    <3>1. fbuf = <<>>
      BY <1>1, <2>1 DEF Buffered
    <3>2. Append(<<>>, <<>>) = << <<>> >>
      BY SMT
    <3>3. << <<>> >> \in Seq({<<>>})
      BY SMT
    <3>4. fbuf' = << <<>> >> /\ \E S : fbuf' \in Seq(S)
      BY <1>1, <2>1, <3>1, <3>2, <3>3
    <3>5. stage' # "read"
      BY <1>1
    <3> QED BY <1>1, <2>1, <3>4, <3>5 DEF Buffered
  <2>2. CASE ~ input.wakati
    BY <1>1, <2>2 DEF Buffered
  <2> QED BY <2>1, <2>2
<1>7. stage' = "pack" => lexsize' # 0
  <2> SUFFICES ASSUME lexsize = 0 PROVE dic = <<>>
    BY <1>1
  <2> QED BY <1>1, SMT DEF Listing
<1>8. stage' \in {"undefined", "pack"}
  BY <1>1
<1> QED BY <1>1, <1>3, <1>4, <1>5, <1>6, <1>7, <1>8 DEF DictionaryInv, CompiledSoFar, Stages

LEMMA InvPack ==
  ASSUME DictionaryInv, Pack
  PROVE  DictionaryInv'
<1>1. /\ stage = "pack" /\ stage' = "build" /\ UNCHANGED <<input, dic, fbuf, lexsize>>
      /\ input \in Inputs /\ Listing /\ Buffered /\ lexsize # 0
  BY DEF DictionaryInv, CompiledSoFar, Pack
<1>2. PICK origin : Compiled(origin, Places) /\ WordOrder(origin)
  BY <1>1 DEF DictionaryInv, CompiledSoFar
<1>3. Arranged(origin)
  BY <1>1, <1>2, ArrangedEntries
<1>4. BuildAny /\ WordsPacked'
  BY <1>1, <1>3, PackBuilds
<1>5. ArrayInv'
  BY <1>4, ArrayInvNext DEF DictionaryInv, ArrayNext
<1>6. PICK P : P = Places /\ Compiled(origin, P)
  BY <1>2
<1>7. Listing' /\ Compiled(origin, Places)' /\ WordOrder(origin)'
  BY <1>1, <1>2, <1>6, SameEntries
<1>8. Buffered'
  BY <1>1 DEF Buffered
<1> QED BY <1>1, <1>4, <1>5, <1>7, <1>8 DEF DictionaryInv, CompiledSoFar, Stages

LEMMA InvBuild ==
  ASSUME DictionaryInv, BuildDoubleArray \/ Built
  PROVE  DictionaryInv'
<1>1. /\ stage = "build" /\ stage' \in {"build", "image", "dead"} /\ UNCHANGED <<input, dic, fbuf, lexsize>>
      /\ input \in Inputs /\ Listing /\ Buffered /\ WordsPacked
      /\ stage' = "image" => building' = "built"
  BY DEF DictionaryInv, CompiledSoFar, BuildDoubleArray, Built, daVars
<1>2. PICK origin : Compiled(origin, Places) /\ WordOrder(origin)
  BY <1>1 DEF DictionaryInv, CompiledSoFar
<1>3. BuildStep \/ UNCHANGED daVars
  BY DEF BuildDoubleArray, Built
<1>4. ArrayInv'
  BY <1>3, ArrayInvNext DEF DictionaryInv, ArrayNext
<1>5. UNCHANGED <<keys, values>>
  BY <1>3, Zenon DEF BuildStep, InsertRoot, ProbeOccupied, ProbeFree, Claim, GrowWithoutProgress, Leaf, Descend,
             Return, Finish, daVars
<1>6. WordsPacked'
  <2>1. /\ Heads' = Heads /\ \A k : NthHead(k)' = NthHead(k)
        /\ \A k : Packed(NthHead(k))' = Packed(NthHead(k))
    BY <1>1 DEF Heads, NthHead, Packed, Homographs
  <2> QED BY <1>1, <1>5, <2>1 DEF WordsPacked
<1>7. PICK P : P = Places /\ Compiled(origin, P)
  BY <1>2
<1>8. Listing' /\ Compiled(origin, Places)' /\ WordOrder(origin)'
  BY <1>1, <1>2, <1>7, SameEntries
<1>9. Buffered'
  BY <1>1 DEF Buffered
<1> QED BY <1>1, <1>4, <1>6, <1>8, <1>9 DEF DictionaryInv, CompiledSoFar, Stages

LEMMA InvNext ==
  ASSUME DictionaryInv, [Next]_vars
  PROVE  DictionaryInv'
<1>1. CASE UNCHANGED vars
  <2>1. /\ UNCHANGED <<input, dic, fbuf, lexsize>> /\ UNCHANGED daVars
        /\ stage' = stage /\ unread' = unread
    BY <1>1 DEF vars
  <2>2. ArrayInv'
    BY <2>1, ArrayInvNext DEF DictionaryInv
  <2>3. /\ Listing' /\ Places' = Places
        /\ \A o, P : Compiled(o, P)' <=> Compiled(o, P)
        /\ \A o : (WordOrder(o)' <=> WordOrder(o)) /\ (InOrder(o)' <=> InOrder(o))
    BY <2>1, SameEntries DEF DictionaryInv
  <2>4. Buffered'
    BY <2>1 DEF Buffered, DictionaryInv
  <2>5. Passed' = Passed /\ (Unread' <=> Unread)
    BY <2>1 DEF Passed, Unread, FileNo, Here, LinesRead, LinesIn, File, Places
  <2>6. WordsPacked' <=> WordsPacked
    <3>1. /\ Heads' = Heads /\ \A k : NthHead(k)' = NthHead(k)
          /\ \A k : Packed(NthHead(k))' = Packed(NthHead(k))
      BY <2>1 DEF Heads, NthHead, Packed, Homographs
    <3> QED BY <2>1, <3>1 DEF WordsPacked, daVars
  <2>7. /\ \A o : Compiled(o, Passed)' <=> Compiled(o, Passed)
        /\ \A o : Compiled(o, Places)' <=> Compiled(o, Places)
    <3>1. PICK P, Q : P = Passed /\ Q = Places
      OBVIOUS
    <3> QED BY <2>3, <2>5, <3>1
  <2>8. building' = building
    BY <2>1 DEF daVars
  <2>9. CompiledSoFar'
    BY <2>1, <2>3, <2>5, <2>6, <2>7, <2>8 DEF CompiledSoFar, DictionaryInv
  <2> QED BY <2>1, <2>2, <2>3, <2>4, <2>9 DEF DictionaryInv
<1> QED BY <1>1, InvReading, InvSort, InvPack, InvBuild DEF Next

LEMMA DictionaryInvariant == Spec => []DictionaryInv
BY InvInit, InvNext, PTL DEF Spec

LEMMA InvAnswers ==
  ASSUME DictionaryInv
  PROVE  AnswersAreMap /\ SearchWithinImage /\ ChildrenUnshared /\ WritesAllocated
<1>1. SearchesFindKeys /\ SearchesReadInside /\ ChildrenUnshared /\ WritesAllocated
  BY ArrayInvSearches DEF DictionaryInv
<1>2. AnswersAreMap
  <2> SUFFICES ASSUME stage = "image" PROVE AnswersAreMap
    BY DEF AnswersAreMap
  <2>1. input \in Inputs /\ Listing /\ Buffered /\ WordsPacked /\ building = "built"
    BY DEF DictionaryInv, CompiledSoFar
  <2>2. PICK origin : Compiled(origin, Places) /\ WordOrder(origin)
    BY DEF DictionaryInv, CompiledSoFar
  <2>3. Arranged(origin)
    BY <2>1, <2>2, ArrangedEntries
  <2> QED BY <1>1, <2>1, <2>2, <2>3, ImageAnswers
<1>3. SearchWithinImage
  <2> SUFFICES ASSUME stage = "image", NEW text \in Texts PROVE CellsRead(text) \subseteq 0 .. size - 1
    BY DEF SearchWithinImage
  <2>1. building = "built"
    BY DEF DictionaryInv, CompiledSoFar
  <2> QED BY <1>1, <2>1, TextType DEF SearchesReadInside
<1> QED BY <1>1, <1>2, <1>3

LEMMA InvTypes ==
  ASSUME DictionaryInv
  PROVE  TypeOK
<1>1. /\ input \in Inputs /\ stage \in Stages /\ Listing /\ Buffered
      /\ DOMAIN base = DOMAIN check \union {0} /\ size \in Nat /\ progress \in 0 .. Len(keys)
  BY DEF DictionaryInv, ArrayInv, Layout, DoubleArrayInv, Cells, Sized
<1>2. lexsize = Len(dic) /\ DOMAIN dic = 1 .. lexsize
  BY <1>1, ListingDomain DEF Listing
<1>3. Len(fbuf) \in {0, 1, lexsize}
  <2>1. Len(<<>>) = 0 /\ Len(<< <<>> >>) = 1
    BY SMT
  <2> QED BY <1>1, <2>1 DEF Buffered
<1>4. \A i \in DOMAIN dic : dic[i].token.feature \in 0 .. lexsize - 1
  <2>1. PICK origin, P : Compiled(origin, P)
    BY DEF DictionaryInv, CompiledSoFar
  <2> QED BY <1>2, <2>1 DEF Compiled, Made
<1> QED BY <1>1, <1>2, <1>3, <1>4 DEF TypeOK, Stages

-----------------------------------------------------------------------------

\* The variables of compile keep to their types, every token has the offset of a
\* feature (Dictionary::compile, dictionary.cpp:296-484), whatever the files.
THEOREM DictionaryTypes == Spec => []TypeOK
BY DictionaryInvariant, InvTypes, PTL

\* compile hands the double array its words once, typed and as many as their values,
\* and every later step is one of the double array's: what holds of any double array
\* holds of the one in an image (da.build in dictionary.cpp:413-437).
THEOREM CompileBuilds == Spec => ArraySpec
<1>1. Init => EmptyArray
  BY DEF Init
<1>2. ASSUME DictionaryInv, [Next]_vars PROVE [ArrayNext]_daVars
  <2>1. CASE Pack
    <3>1. /\ stage = "pack" /\ Listing /\ lexsize # 0
      BY <1>2, <2>1 DEF DictionaryInv, CompiledSoFar, Pack
    <3>2. PICK origin : Compiled(origin, Places) /\ WordOrder(origin)
      BY <1>2, <3>1 DEF DictionaryInv, CompiledSoFar
    <3>3. Arranged(origin)
      BY <3>1, <3>2, ArrangedEntries
    <3> QED BY <2>1, <3>1, <3>3, PackBuilds DEF ArrayNext
  <2>2. CASE BuildDoubleArray
    BY <2>2 DEF BuildDoubleArray, ArrayNext
  <2>3. CASE OpenMissing \/ EndOfFile \/ Die \/ Skip \/ Add \/ Sort \/ Built \/ UNCHANGED vars
    <3>1. UNCHANGED daVars
      BY <2>3 DEF OpenMissing, EndOfFile, Die, Skip, Add, Sort, Built, vars
    <3> QED BY <3>1
  <2> QED BY <1>2, <2>1, <2>2, <2>3 DEF Next
<1> QED BY <1>1, <1>2, DictionaryInvariant, PTL DEF Spec, ArraySpec

\* An image answers every search with the entries that the files have for the
\* prefixes of the text, whatever the files and the words (Dictionary::compile,
\* dictionary.cpp:296-484, and the searches of darts.h).
THEOREM ImageIsMap == Spec => []AnswersAreMap
BY DictionaryInvariant, InvAnswers, PTL

\* No search reads outside of the image.
THEOREM ImageContainsSearches == Spec => []SearchWithinImage
BY DictionaryInvariant, InvAnswers, PTL

\* No two prefixes of the words share their children.
THEOREM WordsUnshared == Spec => []ChildrenUnshared
BY DictionaryInvariant, InvAnswers, PTL

\* The double array of the words is written only where it is allocated.
THEOREM WordsAllocated == Spec => []WritesAllocated
BY DictionaryInvariant, InvAnswers, PTL
=============================================================================
