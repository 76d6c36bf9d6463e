--------------------------- MODULE SessionProofs ---------------------------
(***************************************************************************)
(* Proofs about a lattice under every sequence of calls, for all texts,    *)
(* sizes and settings: the strings in its pool never overlap and its       *)
(* chunks are bounded by the heaviest use between two frees and the number *)
(* of long strings; an analysis reads the request types its caller chose   *)
(* and a search the nodes of its sentence; the text that nodes point into  *)
(* survives; and every call answers what is due to its caller.  The pool   *)
(* by itself comes first.                                                  *)
(***************************************************************************)
EXTENDS Session, SequenceTheorems, WellFoundedInduction, TLAPS

-----------------------------------------------------------------------------
(* The pool by itself.  alloc gives out disjoint regions, and the number   *)
(* of chunks is bounded by the heaviest use between two frees and by how   *)
(* many long requests there were.  Sound says that all regions given out   *)
(* lie behind the cursor; Accounted that every chunk the cursor has passed *)
(* was filled but for less than one short request, or is allowed for by    *)
(* the long requests.                                                      *)

Pool == [freelist : Seq(Nat), li : Nat \ {0}, pi : Nat,
         allocated : SUBSET Region, bytes : Nat, most : Nat, long : Nat]

\* in a chunk of the list
Inside(p, r) == r.chunk \in 1..Len(p.freelist) /\ r.from + r.size <= p.freelist[r.chunk]

\* the cursor is past it
Behind(p, r) == r.chunk < p.li \/ (r.chunk = p.li /\ r.from + r.size <= p.pi)

Sound(p) ==
  /\ p \in Pool
  /\ p.li <= Len(p.freelist) + 1
  /\ p.li = Len(p.freelist) + 1 => p.pi = 0
  /\ \A r \in p.allocated : Inside(p, r) /\ Behind(p, r)
  /\ \A r, s \in p.allocated : Overlap(r, s) => r = s

\* what a chunk that a short request passes has been filled with, at least
Filled == DefaultSize - ShortRequest

\* what the long requests may have cost, in bytes that fill chunks
Allowance(p) == p.long * (p.most + Filled)

Accounted(p) ==
  /\ \A i \in 1..Len(p.freelist) : p.freelist[i] >= DefaultSize
  /\ p.pi <= p.bytes /\ p.bytes <= p.most
  /\ (p.li - 1) * Filled + p.pi <= p.bytes + Allowance(p)
  /\ (Len(p.freelist) - 1) * Filled <= p.most + Allowance(p)

(* A pool without chunks is sound. *)
LEMMA EmptySound == Sound(EmptyPool)
BY DEF Sound, EmptyPool, Pool, Region

(* Sound pools give out disjoint regions inside their chunks. *)
LEMMA SoundDisjoint ==
  ASSUME NEW p, Sound(p)
  PROVE  Disjoint(p)
BY DEF Sound, Disjoint, Inside, Pool, Region

(* free() makes any sound pool start over. *)
LEMMA FreeSound ==
  ASSUME NEW p, Sound(p)
  PROVE  Sound(Free(p))
<1>1. p \in Pool /\ Len(p.freelist) \in Nat
  BY DEF Sound, Pool
<1>2. /\ Free(p).freelist = p.freelist /\ Free(p).li = 1 /\ Free(p).pi = 0
      /\ Free(p).allocated = {}
  BY <1>1 DEF Free, Pool
<1>3. Free(p) \in Pool
  BY <1>1 DEF Free, Pool
<1>4. QED  BY <1>1, <1>2, <1>3 DEF Sound

(* The place that alloc takes lies behind nothing that was given out, and  *)
(* the new cursor is behind it.                                            *)
LEMMA TakeSound ==
  ASSUME NEW p, Sound(p), NEW req \in Nat, NEW i \in FirstFit(p, req)
  PROVE  Sound(Take(p, i, req))
<1> DEFINE q == Take(p, i, req)
           new == Given(p, i, req)
<1>1. /\ p \in Pool /\ i \in Nat /\ p.li <= i /\ i <= Len(p.freelist) + 1
      /\ Len(p.freelist) \in Nat
  BY DEF Sound, Pool, FirstFit
<1>2. Start(p, i) \in Nat /\ (i # p.li => Start(p, i) = 0)
  BY <1>1 DEF Start, Pool
<1>3. new \in Region /\ new.chunk = i /\ new.from = Start(p, i) /\ new.size = req
  BY <1>1, <1>2 DEF Given, Region
<1>4. Bigger(req, DefaultSize) \in Nat /\ req <= Bigger(req, DefaultSize)
  BY DefaultSizeAssumption DEF Bigger
<1>5. /\ q.li = i /\ q.pi = Start(p, i) + req
      /\ q.allocated = p.allocated \union {new}
      /\ q.freelist = IF i > Len(p.freelist)
                      THEN Append(p.freelist, Bigger(req, DefaultSize)) ELSE p.freelist
  BY DEF Take
<1>6. q \in Pool
  <2>1. q.freelist \in Seq(Nat)
    BY <1>1, <1>4, <1>5 DEF Pool
  <2>2. Bigger(p.most, p.bytes + req) \in Nat
    BY <1>1 DEF Bigger, Pool
  <2>3. p.allocated \union {new} \in SUBSET Region
    BY <1>1, <1>3 DEF Pool
  <2>4. /\ i \in Nat \ {0} /\ Start(p, i) + req \in Nat /\ p.bytes + req \in Nat
        /\ LongRequests(p, req) \in Nat
    BY <1>1, <1>2 DEF Pool, LongRequests
  <2>5. QED  BY <1>1, <1>5, <2>1, <2>2, <2>3, <2>4 DEF Pool, Take
<1>7. /\ i <= Len(q.freelist)
      /\ Len(p.freelist) <= Len(q.freelist)
      /\ \A c \in 1..Len(p.freelist) : q.freelist[c] = p.freelist[c]
  BY <1>1, <1>4, <1>5 DEF Pool
<1>8. Start(p, i) + req <= q.freelist[i]
  <2>1. CASE i <= Len(p.freelist)
    <3>1. Fits(p, i, req)
      BY <2>1 DEF FirstFit
    <3>2. q.freelist[i] = p.freelist[i] /\ p.freelist[i] \in Nat
      BY <1>1, <1>7, <2>1 DEF Pool
    <3>3. QED  BY <1>2, <3>1, <3>2 DEF Fits
  <2>2. CASE i > Len(p.freelist)
    <3>1. Start(p, i) = 0
      BY <1>1, <1>2, <2>2 DEF Sound, Start
    <3>2. q.freelist[i] = Bigger(req, DefaultSize)
      BY <1>1, <1>4, <1>5, <2>2 DEF Pool
    <3>3. QED  BY <1>4, <3>1, <3>2
  <2>3. QED  BY <1>1, <2>1, <2>2
<1>9. ASSUME NEW r \in q.allocated PROVE Inside(q, r) /\ Behind(q, r)
  <2>1. CASE r = new
    <3>1. r.chunk = i /\ r.from + r.size = Start(p, i) + req
      BY <1>3, <2>1
    <3>2. i \in 1..Len(q.freelist)
      BY <1>1, <1>6, <1>7 DEF Pool
    <3>3. Inside(q, r)
      BY <1>8, <3>1, <3>2 DEF Inside
    <3>4. Behind(q, r)
      BY <1>2, <1>5, <3>1 DEF Behind
    <3>5. QED  BY <3>3, <3>4
  <2>2. CASE r \in p.allocated
    <3>1. Inside(p, r) /\ Behind(p, r) /\ r \in Region
      BY <2>2, <1>1 DEF Sound, Pool
    <3>2. r.chunk \in 1..Len(q.freelist) /\ q.freelist[r.chunk] = p.freelist[r.chunk]
      <4>1. r.chunk \in 1..Len(p.freelist)
        BY <3>1 DEF Inside
      <4>2. Len(q.freelist) \in Nat
        BY <1>6 DEF Pool
      <4>3. QED  BY <1>1, <1>7, <4>1, <4>2
    <3>3. Behind(q, r)
      BY <1>1, <1>2, <1>5, <3>1 DEF Behind, Pool, Region, Start
    <3>4. QED  BY <3>1, <3>2, <3>3 DEF Inside
  <2>3. QED  BY <1>5, <2>1, <2>2
<1>10. ASSUME NEW r \in p.allocated PROVE ~ Overlap(r, new) /\ ~ Overlap(new, r)
  <2>1. Behind(p, r) /\ r \in Region
    BY <1>1 DEF Sound, Pool
  <2>2. CASE r.chunk < i
    BY <1>3, <2>1, <2>2 DEF Overlap, Region
  <2>3. CASE r.chunk = p.li /\ i = p.li
    BY <1>1, <1>3, <2>1, <2>3 DEF Overlap, Region, Behind, Start, Pool
  <2>4. QED  BY <1>1, <2>1, <2>2, <2>3 DEF Behind, Region, Pool
<1>11. \A r, s \in q.allocated : Overlap(r, s) => r = s
  BY <1>5, <1>10 DEF Sound
<1>12. QED  BY <1>1, <1>5, <1>6, <1>7, <1>9, <1>11 DEF Sound, Pool

(* The place that alloc takes is one of the pool's and shares no byte with *)
(* any other it has given out.                                             *)
LEMMA TakeApart ==
  ASSUME NEW p, Sound(p), NEW req \in Nat, NEW i \in FirstFit(p, req)
  PROVE  /\ Given(p, i, req) \in Region /\ Given(p, i, req).chunk \in Nat \ {0}
         /\ Given(p, i, req).chunk = i /\ Given(p, i, req).from = Start(p, i)
         /\ Given(p, i, req).size = req
         /\ Given(p, i, req) \in Take(p, i, req).allocated
         /\ \A r \in p.allocated : ~ Overlap(r, Given(p, i, req))
<1> DEFINE new == Given(p, i, req)
<1>1. /\ p \in Pool /\ i \in Nat \ {0} /\ p.li <= i
      /\ p.li \in Nat \ {0} /\ p.pi \in Nat
  BY DEF Sound, Pool, FirstFit
<1>2. Start(p, i) \in Nat
  BY <1>1 DEF Start
<1>3. new \in Region /\ new.chunk = i /\ new.from = Start(p, i) /\ new.size = req
  BY <1>1, <1>2 DEF Given, Region
<1>4. new \in Take(p, i, req).allocated
  BY DEF Take
<1>5. ASSUME NEW r \in p.allocated PROVE ~ Overlap(r, new)
  <2>1. Behind(p, r) /\ r \in Region
    BY <1>1 DEF Sound, Pool
  <2>2. QED  BY <1>1, <1>3, <2>1 DEF Overlap, Region, Behind, Start
<1>6. QED  BY <1>1, <1>3, <1>4, <1>5

-----------------------------------------------------------------------------

(* A product grows by one factor when the other does by one. *)
LEMMA OneMore ==
  ASSUME NEW n \in Int, NEW g \in Int
  PROVE  (n + 1 - 1) * g = (n - 1) * g + g
OBVIOUS

LEMMA ChunkSizes ==
  /\ DefaultSize \in Nat /\ ShortRequest \in Nat /\ ShortRequest < DefaultSize
  /\ Filled \in Nat
BY DefaultSizeAssumption DEF Filled

LEMMA EmptyAccounted == Accounted(EmptyPool)
<1>1. Allowance(EmptyPool) = 0
  BY ChunkSizes DEF Allowance, EmptyPool
<1>2. QED  BY <1>1, ChunkSizes DEF Accounted, EmptyPool

LEMMA AllowanceType ==
  ASSUME NEW p \in Pool
  PROVE  Allowance(p) \in Nat
<1>1. p.long \in Nat /\ p.most + Filled \in Nat
  BY ChunkSizes DEF Pool
<1>2. QED  BY <1>1 DEF Allowance

(* The allowance grows with the heaviest use, and by one heaviest use and  *)
(* one chunk with every long request.                                      *)
LEMMA AllowanceGrows ==
  ASSUME NEW p \in Pool, NEW q \in Pool, p.most <= q.most
  PROVE  /\ q.long = p.long => Allowance(p) <= Allowance(q)
         /\ q.long = p.long + 1 => Allowance(p) + p.most + Filled <= Allowance(q)
<1>1. p.long \in Nat /\ p.most \in Nat /\ q.most \in Nat /\ Filled \in Nat
  BY ChunkSizes DEF Pool
<1>2. PICK d \in Nat : q.most = p.most + d
  <2>1. q.most - p.most \in Nat /\ q.most = p.most + (q.most - p.most)
    BY <1>1
  <2>2. QED  BY <2>1
<1>3. PICK k, a : k = p.long /\ a = p.most + Filled
  OBVIOUS
<1>4. k \in Nat /\ a \in Nat /\ q.most + Filled = a + d
  BY <1>1, <1>2, <1>3
<1>5. k * d \in Nat /\ k * (a + d) = k * a + k * d /\ (k + 1) * (a + d) = k * (a + d) + (a + d)
  BY <1>2, <1>4
<1>6. k * a \in Nat
  BY <1>4
<1>7. CASE q.long = p.long
  BY <1>3, <1>4, <1>5, <1>6, <1>7 DEF Allowance
<1>8. CASE q.long = p.long + 1
  <2>1. Allowance(p) = k * a /\ Allowance(q) = (k + 1) * (a + d)
    BY <1>3, <1>4, <1>8 DEF Allowance
  <2>2. PICK x, y, z : x = k * a /\ y = k * d /\ z = (k + 1) * (a + d)
    OBVIOUS
  <2>3. z = x + y + (a + d) /\ x \in Nat /\ y \in Nat
    BY <1>5, <1>6, <2>2
  <2>4. x + a <= z
    BY <1>2, <1>4, <2>3
  <2>5. QED  BY <1>1, <1>3, <1>8, <2>1, <2>2, <2>3, <2>4
<1>9. QED  BY <1>7, <1>8

(* free() gives the chunks back to no one, and what they were paid with    *)
(* stays on record.                                                        *)
LEMMA FreeAccounted ==
  ASSUME NEW p, Sound(p), Accounted(p)
  PROVE  Accounted(Free(p))
<1> DEFINE q == Free(p)
<1>1. /\ q.freelist = p.freelist /\ q.li = 1 /\ q.pi = 0 /\ q.bytes = 0
      /\ q.most = p.most /\ q.long = p.long
  BY DEF Free
<1>2. p \in Pool /\ p.most \in Nat
  BY DEF Sound, Pool
<1>3. Allowance(q) = Allowance(p) /\ Allowance(p) \in Nat
  BY <1>1, <1>2, AllowanceType DEF Allowance
<1> HIDE DEF q
<1>4. (q.li - 1) * Filled + q.pi <= q.bytes + Allowance(q)
  <2>1. (1 - 1) * Filled = 0
    BY ChunkSizes
  <2>2. QED  BY <1>1, <1>3, <2>1
<1>5. /\ \A c \in 1..Len(p.freelist) : p.freelist[c] >= DefaultSize
      /\ (Len(p.freelist) - 1) * Filled <= p.most + Allowance(p)
  BY DEF Accounted
<1>6. /\ \A c \in 1..Len(q.freelist) : q.freelist[c] >= DefaultSize
      /\ (Len(q.freelist) - 1) * Filled <= q.most + Allowance(q)
  BY <1>1, <1>3, <1>5, Zenon
<1>7. q.pi <= q.bytes /\ q.bytes <= q.most
  BY <1>1, <1>2
<1>8. Accounted(q)
  BY <1>4, <1>6, <1>7 DEF Accounted
<1>9. QED  BY <1>8 DEF q

LEMMA AccountedBounded ==
  ASSUME NEW p, Accounted(p)
  PROVE  Bounded(p)
BY DEF Accounted, Bounded, Filled, Allowance

(* A list of numbers keeps its lower bound when one that respects it is    *)
(* added.                                                                  *)
LEMMA AppendAtLeast ==
  ASSUME NEW s \in Seq(Nat), NEW m \in Nat, NEW d \in Nat, m >= d,
         \A c \in 1..Len(s) : s[c] >= d
  PROVE  \A c \in 1..Len(Append(s, m)) : Append(s, m)[c] >= d
<1>1. Len(Append(s, m)) = Len(s) + 1 /\ Len(s) \in Nat
  OBVIOUS
<1>2. Append(s, m)[Len(s) + 1] = m /\ \A c \in 1..Len(s) : Append(s, m)[c] = s[c]
  OBVIOUS
<1>3. \A c \in 1..Len(s) + 1 : c \in 1..Len(s) \/ c = Len(s) + 1
  BY <1>1
<1>4. QED  BY <1>1, <1>2, <1>3

(* A short request leaves at most one chunk, and only when less than one   *)
(* short request was free in it: the next chunk, old or new, has room.  A  *)
(* long one may leave any number of them.                                  *)
LEMMA TakeAccounted ==
  ASSUME NEW p, Sound(p), Accounted(p), NEW req \in Nat, NEW i \in FirstFit(p, req)
  PROVE  Accounted(Take(p, i, req))
<1> DEFINE q == Take(p, i, req)
<1>1. /\ p \in Pool /\ i \in Nat \ {0} /\ p.li <= i /\ i <= Len(p.freelist) + 1
      /\ Len(p.freelist) \in Nat /\ p.li \in Nat \ {0} /\ p.pi \in Nat
      /\ p.bytes \in Nat /\ p.most \in Nat
  BY DEF Sound, Pool, FirstFit
<1>2. /\ q.li = i /\ q.pi = Start(p, i) + req
      /\ q.bytes = p.bytes + req
  BY DEF Take
<1>most. q.most = Bigger(p.most, p.bytes + req) /\ q.long = LongRequests(p, req)
  BY DEF Take
<1>chunks. q.freelist = IF i > Len(p.freelist)
                        THEN Append(p.freelist, Bigger(req, DefaultSize)) ELSE p.freelist
  BY DEF Take
<1>3. q \in Pool
  BY TakeSound DEF Sound
<1> HIDE DEF q
<1>4. Start(p, i) \in Nat /\ Start(p, i) <= p.bytes /\ (i # p.li => Start(p, i) = 0)
  BY <1>1 DEF Start, Accounted
<1>5. /\ q.pi <= q.bytes /\ q.bytes <= q.most /\ p.most <= q.most
      /\ q.pi \in Nat /\ q.bytes \in Nat /\ q.most \in Nat
  BY <1>1, <1>2, <1>4, <1>most, SMTT(30) DEF Bigger
<1>6. \A c \in 1..Len(q.freelist) : q.freelist[c] >= DefaultSize
  <2>1. Bigger(req, DefaultSize) \in Nat /\ Bigger(req, DefaultSize) >= DefaultSize
    BY ChunkSizes DEF Bigger
  <2>2. p.freelist \in Seq(Nat)
    BY <1>1 DEF Pool
  <2>3. \A c \in 1..Len(p.freelist) : p.freelist[c] >= DefaultSize
    BY DEF Accounted
  <2>4. CASE i > Len(p.freelist)
    <3>1. PICK s \in Seq(Nat) : s = p.freelist
      BY <2>2
    <3>2. PICK m \in Nat : m = Bigger(req, DefaultSize)
      BY <2>1
    <3>3. DefaultSize \in Nat
      BY DefaultSizeAssumption
    <3>4. \A c \in 1..Len(Append(s, m)) : Append(s, m)[c] >= DefaultSize
      BY <2>1, <2>3, <3>1, <3>2, <3>3, AppendAtLeast
    <3>5. QED  BY <1>chunks, <2>4, <3>1, <3>2, <3>4
  <2>5. CASE ~ i > Len(p.freelist)
    BY <1>chunks, <2>3, <2>5
  <2>6. QED  BY <2>4, <2>5
<1>7. PICK old, new, x, y, z, g :
        /\ old = Allowance(p) /\ new = Allowance(q) /\ g = Filled
        /\ x = (p.li - 1) * Filled /\ y = (i - 1) * Filled
        /\ z = (Len(p.freelist) - 1) * Filled
  OBVIOUS
<1>8. /\ old \in Nat /\ new \in Nat /\ g \in Nat
      /\ x \in Int /\ y \in Int /\ z \in Int
  <2>1. old \in Nat /\ new \in Nat /\ g \in Nat
    BY <1>1, <1>3, <1>7, AllowanceType, ChunkSizes
  <2>2. p.li - 1 \in Int /\ i - 1 \in Int /\ Len(p.freelist) - 1 \in Int
    BY <1>1
  <2>3. QED  BY <1>7, <2>1, <2>2
<1>9. /\ q.long = p.long => old <= new
      /\ q.long = p.long + 1 => old + p.most + g <= new
  BY <1>1, <1>3, <1>5, <1>7, AllowanceGrows
<1>10. x + p.pi <= p.bytes + old /\ z <= p.most + old
  BY <1>7 DEF Accounted
<1>11. \A c \in 1..Len(p.freelist) : p.freelist[c] >= DefaultSize /\ p.freelist[c] \in Nat
  BY <1>1 DEF Accounted, Pool
<1>12. y + q.pi <= q.bytes + new
  <2>1. CASE req <= ShortRequest
    <3>1. old <= new
      BY <1>9, <1>most, <2>1, ChunkSizes DEF LongRequests
    <3>2. CASE i = p.li
      <4>1. y = x /\ q.pi = p.pi + req
        BY <1>2, <1>7, <3>2 DEF Start
      <4>2. QED  BY <1>1, <1>2, <1>8, <1>10, <3>1, <4>1
    <3>3. CASE i > p.li
      <4>1. p.li \in p.li .. i - 1 /\ p.li \in 1..Len(p.freelist)
        BY <1>1, <3>3, SMTT(30)
      <4>2. ~ Fits(p, p.li, req)
        BY <4>1 DEF FirstFit
      <4>3. p.freelist[p.li] >= DefaultSize /\ p.freelist[p.li] \in Nat
        BY <1>11, <4>1
      <4>4. p.pi >= g
        <5>1. g = DefaultSize - ShortRequest
          BY <1>7 DEF Filled
        <5>2. ~ (p.pi + req < p.freelist[p.li])
          BY <4>2 DEF Fits, Start
        <5>3. QED  BY <1>1, <2>1, <4>3, <5>1, <5>2, ChunkSizes
      <4>5. i = p.li + 1
        <5> SUFFICES ASSUME i # p.li + 1 PROVE FALSE
          OBVIOUS
        <5>1. p.li + 1 \in p.li .. i - 1 /\ p.li + 1 \in 1..Len(p.freelist)
          BY <1>1, <3>3, SMTT(30)
        <5>2. ~ Fits(p, p.li + 1, req)
          BY <5>1 DEF FirstFit
        <5>3. p.freelist[p.li + 1] >= DefaultSize /\ p.freelist[p.li + 1] \in Nat
          BY <1>11, <5>1
        <5>4. QED  BY <1>1, <2>1, <5>2, <5>3, ChunkSizes DEF Fits, Start
      <4>6. y = x + g
        <5>1. p.li * Filled = (p.li - 1) * Filled + Filled
          BY <1>1, ChunkSizes
        <5>2. i - 1 = p.li
          BY <1>1, <4>5
        <5>3. QED  BY <1>7, <5>1, <5>2
      <4>7. q.pi = req
        BY <1>1, <1>2, <1>4, <3>3
      <4>8. y <= p.bytes + new
        BY <1>1, <1>8, <1>10, <3>1, <4>4, <4>6
      <4>9. q.bytes = p.bytes + req
        BY <1>2
      <4>10. QED  BY <1>1, <1>8, <4>7, <4>8, <4>9
    <3>4. QED  BY <1>1, <3>2, <3>3
  <2>2. CASE req > ShortRequest
    <3>1. old + p.most + g <= new
      BY <1>1, <1>most, <1>9, <2>2, ChunkSizes DEF LongRequests
    <3>2. y <= z + g
      <4>1. PICK n : n = Len(p.freelist)
        OBVIOUS
      <4>2. PICK d \in Nat : n = (i - 1) + d
        <5>1. n - (i - 1) \in Nat /\ n = (i - 1) + (n - (i - 1))
          BY <1>1, <4>1
        <5>2. QED  BY <5>1
      <4>3. n * g = y + d * g /\ d * g \in Nat
        BY <1>1, <1>7, <1>8, <4>2
      <4>4. n * g = z + g
        BY <1>1, <1>7, <1>8, <4>1, OneMore
      <4>5. QED  BY <1>8, <4>3, <4>4
    <3>3. y <= new
      BY <1>1, <1>8, <1>10, <3>1, <3>2
    <3>4. QED  BY <1>5, <1>8, <3>3
  <2>3. QED  BY <2>1, <2>2, ChunkSizes
<1>13. (Len(q.freelist) - 1) * Filled <= q.most + new
  <2>1. CASE i > Len(p.freelist)
    <3>1. Len(q.freelist) = i
      BY <1>1, <1>chunks, <2>1 DEF Pool
    <3>2. y <= q.most + new
      BY <1>5, <1>8, <1>12
    <3>3. QED  BY <1>7, <3>1, <3>2
  <2>2. CASE i <= Len(p.freelist)
    <3>1. Len(q.freelist) = Len(p.freelist)
      BY <1>1, <1>chunks, <2>2
    <3>2. old <= new
      BY <1>1, <1>most, <1>8, <1>9 DEF LongRequests
    <3>3. z <= q.most + new
      BY <1>1, <1>5, <1>8, <1>10, <3>2
    <3>4. QED  BY <1>7, <3>1, <3>3
  <2>3. QED  BY <1>1, <2>1, <2>2
<1>14. (q.li - 1) * Filled + q.pi <= q.bytes + Allowance(q)
  BY <1>2, <1>7, <1>12
<1>15. (Len(q.freelist) - 1) * Filled <= q.most + Allowance(q)
  BY <1>7, <1>13
<1>16. Accounted(q)
  BY <1>5, <1>6, <1>14, <1>15, Zenon DEF Accounted
<1>17. QED  BY <1>16 DEF q

-----------------------------------------------------------------------------
(* Texts.  The bytes of a text, what is written into a buffer and a text   *)
(* put together from parts are computed from left to right: each is a run  *)
(* of steps of its kind, and one lemma says that such a run exists.        *)

LEMMA NatSetInduction ==
  ASSUME NEW S, 0 \in S, \A n \in Nat : n \in S => n + 1 \in S
  PROVE  Nat \subseteq S
<1> SUFFICES ASSUME Nat \ S # {} PROVE FALSE
  OBVIOUS
<1>1. PICK m \in Nat \ S : \A k \in Nat \ S : <<k, m>> \notin OpToRel(<, Nat)
  BY NatLessThanWellFounded, WFMin, Zenon
<1>2. \A k \in Nat \ S : ~ (k < m)
  BY <1>1, Zenon DEF OpToRel
<1>3. m # 0 /\ m - 1 \in Nat /\ m - 1 < m
  BY SMT
<1>4. m - 1 \in S
  BY <1>2, <1>3
<1>5. m \in S
  BY <1>3, <1>4, SMT
<1> QED BY <1>5

Step(kind, v, e) ==
  CASE kind = "bytes" -> v + e.size
    [] kind = "write" -> Write(v, e)
    [] kind = "flatten" -> v \o e

IsRun(kind, base, seq, run) ==
  /\ DOMAIN run = 0..Len(seq) /\ run[0] = base
  /\ \A k \in 1..Len(seq) : run[k] = Step(kind, run[k - 1], seq[k])

\* the folds of the library run over sets of positions, the largest last
IsFold(kind, base, seq, T, iter) ==
  iter = [s \in SUBSET T |->
            IF s = {} THEN base ELSE Step(kind, iter[s \ {Max(s)}], seq[Max(s)])]

LEMMA MaxOfPrefix ==
  ASSUME NEW n \in Nat, NEW s \in SUBSET (1..n + 1), n + 1 \in s
  PROVE  Max(s) = n + 1
<1>1. \A y \in s : n + 1 >= y
  OBVIOUS
<1>2. \A x \in s : (\A y \in s : x >= y) => x = n + 1
  OBVIOUS
<1> QED BY <1>1, <1>2 DEF Max

LEMMA FoldDefined ==
  ASSUME NEW kind, NEW base, NEW seq, NEW n \in Nat
  PROVE  \E iter : IsFold(kind, base, seq, 1..n, iter)
<1> DEFINE Good == { k \in Nat : \E iter : IsFold(kind, base, seq, 1..k, iter) }
<1>1. 0 \in Good
  <2>1. SUBSET (1..0) = {{}}
    OBVIOUS
  <2>2. IsFold(kind, base, seq, 1..0, [s \in SUBSET (1..0) |-> base])
    BY <2>1 DEF IsFold
  <2> QED BY <2>2
<1>2. ASSUME NEW k \in Nat, k \in Good PROVE k + 1 \in Good
  <2>1. PICK g : IsFold(kind, base, seq, 1..k, g)
    BY <1>2
  <2> DEFINE h == [s \in SUBSET (1..k + 1) |->
                     IF k + 1 \in s THEN Step(kind, g[s \ {k + 1}], seq[k + 1]) ELSE g[s]]
             Folded(s) == IF s = {} THEN base ELSE Step(kind, h[s \ {Max(s)}], seq[Max(s)])
  <2>2. ASSUME NEW s \in SUBSET (1..k + 1) PROVE h[s] = Folded(s)
    <3>1. CASE k + 1 \in s
      <4>1. Max(s) = k + 1 /\ s # {}
        BY <3>1, MaxOfPrefix
      <4>2. s \ {k + 1} \in SUBSET (1..k + 1) /\ k + 1 \notin s \ {k + 1}
        OBVIOUS
      <4>3. h[s \ {k + 1}] = g[s \ {k + 1}]
        BY <4>2
      <4> QED BY <3>1, <4>1, <4>3
    <3>2. CASE k + 1 \notin s
      <4>1. s \in SUBSET (1..k)
        BY <3>2
      <4>2. h[s] = g[s]
        BY <3>2
      <4>3. CASE s = {}
        BY <2>1, <4>1, <4>2, <4>3 DEF IsFold
      <4>4. CASE s # {}
        <5>1. s \ {Max(s)} \in SUBSET (1..k + 1) /\ k + 1 \notin s \ {Max(s)}
          BY <3>2
        <5>2. h[s \ {Max(s)}] = g[s \ {Max(s)}]
          BY <5>1
        <5>3. g[s] = Step(kind, g[s \ {Max(s)}], seq[Max(s)])
          BY <2>1, <4>1, <4>4 DEF IsFold
        <5> QED BY <4>2, <4>4, <5>2, <5>3
      <4> QED BY <4>3, <4>4
    <3> QED BY <3>1, <3>2
  <2>3. h = [s \in SUBSET (1..k + 1) |-> h[s]]
    OBVIOUS
  <2> HIDE DEF h
  <2>4. h = [s \in SUBSET (1..k + 1) |-> Folded(s)]
    BY <2>2, <2>3
  <2>5. IsFold(kind, base, seq, 1..k + 1, h)
    BY <2>4 DEF IsFold
  <2> QED BY <2>5
<1> HIDE DEF Good
<1>3. n \in Good
  BY <1>1, <1>2, NatSetInduction
<1> QED BY <1>3 DEF Good

LEMMA FoldRuns ==
  ASSUME NEW kind, NEW base, NEW X, NEW seq \in Seq(X), NEW iter,
         IsFold(kind, base, seq, 1..Len(seq), iter)
  PROVE  \E run : IsRun(kind, base, seq, run) /\ run[Len(seq)] = iter[1..Len(seq)]
<1> DEFINE n == Len(seq)
           run == [k \in 0..n |-> iter[1..k]]
<1>1. n \in Nat
  OBVIOUS
<1> HIDE DEF n
<1>2. run[0] = base
  <2>1. 1..0 = {} /\ {} \in SUBSET (1..n)
    OBVIOUS
  <2>2. iter[{}] = base
    BY <2>1 DEF IsFold, n
  <2> QED BY <1>1, <2>1, <2>2
<1>3. ASSUME NEW k \in 1..n PROVE run[k] = Step(kind, run[k - 1], seq[k])
  <2>1. k - 1 \in Nat /\ k \in 1..k - 1 + 1 /\ 1..k \in SUBSET (1..k - 1 + 1) /\ k = k - 1 + 1
    BY <1>1
  <2>2. Max(1..k) = k
    BY <2>1, MaxOfPrefix
  <2>3. (1..k) \ {k} = 1..k - 1 /\ 1..k # {} /\ 1..k \in SUBSET (1..n)
    BY <1>1
  <2>4. iter[1..k] = Step(kind, iter[1..k - 1], seq[k])
    BY <2>2, <2>3 DEF IsFold, n
  <2>5. k \in 0..n /\ k - 1 \in 0..n
    BY <1>1
  <2> QED BY <2>4, <2>5
<1>4. DOMAIN run = 0..n /\ run[n] = iter[1..n]
  BY <1>1
<1> HIDE DEF run
<1>5. IsRun(kind, base, seq, run)
  BY <1>2, <1>3, <1>4 DEF IsRun, n
<1> QED BY <1>4, <1>5 DEF n

BeginsLike(t, s) == Len(s) <= Len(t) /\ \A k \in 1..Len(s) : s[k] = t[k]

(* Two runs over sequences that begin alike are alike as far as they do. *)
LEMMA RunsAgree ==
  ASSUME NEW kind, NEW base, NEW X, NEW s \in Seq(X), NEW t \in Seq(X),
         NEW r, IsRun(kind, base, s, r), NEW q, IsRun(kind, base, t, q),
         BeginsLike(t, s)
  PROVE  r[Len(s)] = q[Len(s)]
<1> DEFINE Good == { k \in Nat : k <= Len(s) => r[k] = q[k] }
<1>0. Len(s) \in Nat /\ Len(t) \in Nat
  OBVIOUS
<1>1. 0 \in Good
  BY DEF IsRun
<1>2. ASSUME NEW k \in Nat, k \in Good PROVE k + 1 \in Good
  <2> SUFFICES ASSUME k + 1 <= Len(s) PROVE r[k + 1] = q[k + 1]
    OBVIOUS
  <2>1. r[k] = q[k]
    BY <1>0, <1>2
  <2>2. k + 1 \in 1..Len(s) /\ k + 1 \in 1..Len(t) /\ (k + 1) - 1 = k
    BY <1>0 DEF BeginsLike
  <2>3. r[k + 1] = Step(kind, r[k], s[k + 1]) /\ q[k + 1] = Step(kind, q[k], t[k + 1])
    BY <2>2 DEF IsRun
  <2>4. s[k + 1] = t[k + 1]
    BY <2>2 DEF BeginsLike
  <2> QED BY <2>1, <2>2, <2>3, <2>4
<1> HIDE DEF Good
<1>3. Nat \subseteq Good
  BY <1>1, <1>2, NatSetInduction
<1> QED BY <1>0, <1>3 DEF Good

LEMMA BytesRun ==
  ASSUME NEW X, NEW ps \in Seq(X)
  PROVE  \E run : IsRun("bytes", 0, ps, run) /\ run[Len(ps)] = Bytes(ps)
<1> DEFINE iter == CHOOSE i : IsFold("bytes", 0, ps, DOMAIN ps, i)
<1>1. DOMAIN ps = 1..Len(ps) /\ Len(ps) \in Nat
  OBVIOUS
<1>2. IsFold("bytes", 0, ps, 1..Len(ps), iter)
  BY <1>1, FoldDefined
<1>3. Bytes(ps) = iter[DOMAIN ps]
  BY DEF Bytes, FoldLeft, MapThenFoldSet, IsFold, Step
<1> HIDE DEF iter
<1> QED BY <1>1, <1>2, <1>3, FoldRuns

LEMMA WriteRun ==
  ASSUME NEW X, NEW os, NEW ps \in Seq(X)
  PROVE  \E run : IsRun("write", os, ps, run) /\ run[Len(ps)] = WriteAll(os, ps)
<1> DEFINE iter == CHOOSE i : IsFold("write", os, ps, DOMAIN ps, i)
<1>1. DOMAIN ps = 1..Len(ps) /\ Len(ps) \in Nat
  OBVIOUS
<1>2. IsFold("write", os, ps, 1..Len(ps), iter)
  BY <1>1, FoldDefined
<1>3. WriteAll(os, ps) = iter[DOMAIN ps]
  BY DEF WriteAll, FoldLeft, MapThenFoldSet, IsFold, Step
<1> HIDE DEF iter
<1> QED BY <1>1, <1>2, <1>3, FoldRuns

LEMMA FlattenRun ==
  ASSUME NEW X, NEW seqs \in Seq(Seq(X))
  PROVE  \E run : IsRun("flatten", <<>>, seqs, run) /\ run[Len(seqs)] = FlattenSeq(seqs)
<1> DEFINE n == Len(seqs)
           IsFlat(f) == f = [i \in 1..n |-> IF i = 1 THEN seqs[i] ELSE f[i - 1] \o seqs[i]]
           g == CHOOSE f : IsFlat(f)
<1>1. n \in Nat
  OBVIOUS
<1>2. PICK run : IsRun("flatten", <<>>, seqs, run)
  <2>1. PICK iter : IsFold("flatten", <<>>, seqs, 1..Len(seqs), iter)
    BY <1>1, FoldDefined
  <2>2. \E run : IsRun("flatten", <<>>, seqs, run) /\ run[Len(seqs)] = iter[1..Len(seqs)]
    BY <2>1, FoldRuns
  <2> QED BY <2>2
<1>3. \A k \in 1..n : run[k] = run[k - 1] \o seqs[k]
  BY <1>2 DEF IsRun, Step
<1>4. run[0] = <<>>
  BY <1>2 DEF IsRun
<1>5. \A k \in 1..n : seqs[k] \in Seq(X)
  OBVIOUS
<1>6. \E f : IsFlat(f)
  <2> DEFINE f == [i \in 1..n |-> run[i]]
  <2>1. ASSUME NEW i \in 1..n PROVE f[i] = IF i = 1 THEN seqs[i] ELSE f[i - 1] \o seqs[i]
    <3>1. CASE i = 1
      <4>1. run[i] = run[0] \o seqs[i]
        BY <1>1, <1>3, <3>1, 1 - 1 = 0
      <4> QED BY <1>4, <1>5, <3>1, <4>1
    <3>2. CASE i # 1
      <4>1. i - 1 \in 1..n
        BY <1>1, <3>2
      <4> QED BY <1>3, <3>2, <4>1
    <3> QED BY <3>1, <3>2
  <2>2. f = [i \in 1..n |-> f[i]]
    OBVIOUS
  <2> HIDE DEF f
  <2>3. IsFlat(f)
    BY <2>1, <2>2
  <2> QED BY <2>3
<1>7. IsFlat(g)
  <2> HIDE DEF IsFlat
  <2> QED BY <1>6
<1>8. n # 0 => FlattenSeq(seqs) = g[n]
  BY DEF FlattenSeq
<1>9. n = 0 => FlattenSeq(seqs) = <<>>
  BY DEF FlattenSeq
<1> HIDE DEF g
<1>10. \A i \in 1..n : g[i] = IF i = 1 THEN seqs[i] ELSE g[i - 1] \o seqs[i]
  BY <1>7
<1> HIDE DEF IsFlat
<1> DEFINE Good == { k \in Nat : k \in 1..n => g[k] = run[k] }
<1>11. 0 \in Good
  OBVIOUS
<1>12. ASSUME NEW k \in Nat, k \in Good PROVE k + 1 \in Good
  <2> SUFFICES ASSUME k + 1 \in 1..n PROVE g[k + 1] = run[k + 1]
    OBVIOUS
  <2>1. run[k + 1] = run[k] \o seqs[k + 1]
    <3>1. (k + 1) - 1 = k
      OBVIOUS
    <3> QED BY <1>3, <3>1
  <2>2. CASE k = 0
    <3>1. run[k + 1] = <<>> \o seqs[k + 1]
      BY <1>4, <2>1, <2>2
    <3>2. g[k + 1] = seqs[k + 1]
      BY <1>10, <2>2
    <3> QED BY <1>5, <3>1, <3>2
  <2>3. CASE k # 0
    <3>1. k \in 1..n /\ k + 1 # 1 /\ (k + 1) - 1 = k
      BY <1>1, <2>3
    <3>2. g[k + 1] = g[k] \o seqs[k + 1]
      BY <1>10, <3>1
    <3>3. g[k] = run[k]
      BY <1>12, <3>1
    <3> QED BY <2>1, <3>2, <3>3
  <2> QED BY <2>2, <2>3
<1> HIDE DEF Good
<1>13. Nat \subseteq Good
  BY <1>11, <1>12, NatSetInduction
<1>14. run[n] = FlattenSeq(seqs)
  <2>1. CASE n = 0
    BY <1>4, <1>9, <2>1
  <2>2. CASE n # 0
    <3>1. n \in Good /\ n \in 1..n
      BY <1>1, <1>13, <2>2
    <3>2. g[n] = run[n]
      BY <3>1 DEF Good
    <3> QED BY <1>8, <2>2, <3>2
  <2> QED BY <2>1, <2>2
<1> QED BY <1>2, <1>14

(* One part more. *)
LEMMA FlattenMore ==
  ASSUME NEW X, NEW s \in Seq(Seq(X)), NEW t \in Seq(Seq(X)), Len(t) = Len(s) + 1,
         \A k \in 1..Len(s) : s[k] = t[k]
  PROVE  FlattenSeq(t) = FlattenSeq(s) \o t[Len(t)]
<1>0. Len(s) \in Nat
  OBVIOUS
<1>1. PICK r : IsRun("flatten", <<>>, s, r) /\ r[Len(s)] = FlattenSeq(s)
  BY FlattenRun
<1>2. PICK q : IsRun("flatten", <<>>, t, q) /\ q[Len(t)] = FlattenSeq(t)
  BY FlattenRun
<1>3. r[Len(s)] = q[Len(s)]
  <2>1. BeginsLike(t, s)
    BY <1>0 DEF BeginsLike
  <2> QED BY <1>1, <1>2, <2>1, RunsAgree
<1>4. Len(t) \in 1..Len(t) /\ Len(t) - 1 = Len(s)
  BY <1>0
<1>5. q[Len(t)] = q[Len(s)] \o t[Len(t)]
  BY <1>2, <1>4 DEF IsRun, Step
<1> QED BY <1>1, <1>2, <1>3, <1>5

LEMMA FlattenType ==
  ASSUME NEW X, NEW s \in Seq(Seq(X))
  PROVE  FlattenSeq(s) \in Seq(X)
<1>0. Len(s) \in Nat
  OBVIOUS
<1>1. PICK r : IsRun("flatten", <<>>, s, r) /\ r[Len(s)] = FlattenSeq(s)
  BY FlattenRun
<1> DEFINE Good == { k \in Nat : k <= Len(s) => r[k] \in Seq(X) }
<1>2. 0 \in Good
  <2>1. r[0] = <<>>
    BY <1>1 DEF IsRun
  <2>2. r[0] \in Seq(X)
    BY <2>1
  <2> QED BY <2>2
<1>3. ASSUME NEW k \in Nat, k \in Good PROVE k + 1 \in Good
  <2> SUFFICES ASSUME k + 1 <= Len(s) PROVE r[k + 1] \in Seq(X)
    OBVIOUS
  <2>1. k + 1 \in 1..Len(s) /\ (k + 1) - 1 = k /\ r[k] \in Seq(X)
    BY <1>0, <1>3
  <2>2. r[k + 1] = r[k] \o s[k + 1]
    BY <1>1, <2>1 DEF IsRun, Step
  <2>3. s[k + 1] \in Seq(X)
    BY <2>1
  <2> QED BY <2>1, <2>2, <2>3
<1> HIDE DEF Good
<1>4. Nat \subseteq Good
  BY <1>2, <1>3, NatSetInduction
<1> QED BY <1>0, <1>1, <1>4 DEF Good

-----------------------------------------------------------------------------
(* Bytes *)

PieceType ==
  [what : {"surface", "tab", "feature", "line", "EOS", "end"},
   of : (Texts \X Nat) \union {None}, word : Nat, size : Nat]

LEMMA BytesType ==
  ASSUME NEW ps \in Seq(PieceType)
  PROVE  Bytes(ps) \in Nat
<1>0. Len(ps) \in Nat
  OBVIOUS
<1>1. PICK r : IsRun("bytes", 0, ps, r) /\ r[Len(ps)] = Bytes(ps)
  BY BytesRun
<1> DEFINE Good == { k \in Nat : k <= Len(ps) => r[k] \in Nat }
<1>2. 0 \in Good
  BY <1>1 DEF IsRun
<1>3. ASSUME NEW k \in Nat, k \in Good PROVE k + 1 \in Good
  <2> SUFFICES ASSUME k + 1 <= Len(ps) PROVE r[k + 1] \in Nat
    OBVIOUS
  <2>1. k + 1 \in 1..Len(ps) /\ (k + 1) - 1 = k /\ r[k] \in Nat
    BY <1>0, <1>3
  <2>2. r[k + 1] = r[k] + ps[k + 1].size
    BY <1>1, <2>1 DEF IsRun, Step
  <2>3. ps[k + 1] \in PieceType
    BY <2>1
  <2>4. ps[k + 1].size \in Nat
    BY <2>3 DEF PieceType
  <2> QED BY <2>1, <2>2, <2>4
<1> HIDE DEF Good
<1>4. Nat \subseteq Good
  BY <1>2, <1>3, NatSetInduction
<1> QED BY <1>0, <1>1, <1>4 DEF Good

LEMMA BytesEmpty == Bytes(<<>>) = 0
<1>1. PICK r : IsRun("bytes", 0, <<>>, r) /\ r[Len(<<>>)] = Bytes(<<>>)
  <2>1. <<>> \in Seq({})
    OBVIOUS
  <2> QED BY <2>1, BytesRun
<1>2. Len(<<>>) = 0
  OBVIOUS
<1> QED BY <1>1, <1>2 DEF IsRun

LEMMA BytesAppend ==
  ASSUME NEW ps \in Seq(PieceType), NEW p \in PieceType
  PROVE  Bytes(Append(ps, p)) = Bytes(ps) + p.size
<1> DEFINE qs == Append(ps, p)
<1>0. /\ qs \in Seq(PieceType) /\ Len(qs) = Len(ps) + 1 /\ qs[Len(ps) + 1] = p
      /\ \A k \in 1..Len(ps) : ps[k] = qs[k]
      /\ Len(ps) \in Nat
  OBVIOUS
<1> HIDE DEF qs
<1>1. PICK r : IsRun("bytes", 0, ps, r) /\ r[Len(ps)] = Bytes(ps)
  BY BytesRun
<1>2. PICK q : IsRun("bytes", 0, qs, q) /\ q[Len(qs)] = Bytes(qs)
  BY <1>0, BytesRun
<1>3. BeginsLike(qs, ps)
  BY <1>0 DEF BeginsLike
<1>4. Len(qs) \in 1..Len(qs) /\ Len(qs) - 1 = Len(ps)
  BY <1>0
<1>5. q[Len(qs)] = q[Len(ps)] + qs[Len(qs)].size
  BY <1>2, <1>4 DEF IsRun, Step
<1>6. r[Len(ps)] = q[Len(ps)]
  BY <1>0, <1>1, <1>2, <1>3, RunsAgree
<1>7. Bytes(qs) = Bytes(ps) + p.size
  BY <1>0, <1>1, <1>2, <1>5, <1>6
<1> QED BY <1>7 DEF qs

LEMMA BytesConcat ==
  ASSUME NEW ps \in Seq(PieceType), NEW qs \in Seq(PieceType)
  PROVE  Bytes(ps \o qs) = Bytes(ps) + Bytes(qs)
<1> DEFINE m == Len(ps)
           n == Len(qs)
           both == ps \o qs
<1>0. m \in Nat /\ n \in Nat
  OBVIOUS
<1>1. PICK a : IsRun("bytes", 0, ps, a) /\ a[m] = Bytes(ps)
  BY BytesRun
<1>2. PICK b : IsRun("bytes", 0, qs, b) /\ b[n] = Bytes(qs)
  BY BytesRun
<1>3. /\ both \in Seq(PieceType) /\ Len(both) = m + n
      /\ \A k \in 1..m : both[k] = ps[k]
      /\ \A k \in 1..n : both[m + k] = qs[k]
  OBVIOUS
<1>4. PICK r : IsRun("bytes", 0, both, r) /\ r[Len(both)] = Bytes(both)
  BY <1>3, BytesRun
<1>5. r[m] = a[m]
  <2>1. BeginsLike(both, ps)
    BY <1>0, <1>3 DEF BeginsLike
  <2> HIDE DEF both
  <2> QED BY <1>1, <1>3, <1>4, <2>1, RunsAgree
<1>6. Bytes(ps) \in Nat
  BY BytesType
<1> HIDE DEF m, n, both
<1> DEFINE Good == { k \in Nat : k <= n => r[m + k] = a[m] + b[k] /\ b[k] \in Nat }
<1>7. 0 \in Good
  BY <1>0, <1>1, <1>2, <1>5, <1>6 DEF IsRun
<1>8. ASSUME NEW k \in Nat, k \in Good PROVE k + 1 \in Good
  <2> SUFFICES ASSUME k + 1 <= n PROVE r[m + (k + 1)] = a[m] + b[k + 1] /\ b[k + 1] \in Nat
    OBVIOUS
  <2>1. /\ k + 1 \in 1..n /\ (k + 1) - 1 = k /\ r[m + k] = a[m] + b[k] /\ b[k] \in Nat
        /\ m + (k + 1) \in 1..m + n /\ m + (k + 1) - 1 = m + k
    BY <1>0, <1>8
  <2>2. b[k + 1] = b[k] + qs[k + 1].size
    BY <1>2, <2>1 DEF IsRun, Step, n
  <2>3. r[m + (k + 1)] = r[m + k] + both[m + (k + 1)].size
    <3>1. m + (k + 1) \in 1..Len(both)
      BY <1>3, <2>1
    <3>2. r[m + (k + 1)] = r[m + (k + 1) - 1] + both[m + (k + 1)].size
      <4>1. \A i \in 1..Len(both) : r[i] = r[i - 1] + both[i].size
        BY <1>4 DEF IsRun, Step
      <4>2. PICK j : j = m + (k + 1)
        OBVIOUS
      <4>3. r[j] = r[j - 1] + both[j].size
        BY <3>1, <4>1, <4>2
      <4> QED BY <1>0, <2>1, <4>2, <4>3
    <3> QED BY <2>1, <3>2
  <2>4. both[m + (k + 1)] = qs[k + 1]
    BY <1>3, <2>1
  <2>5. qs[k + 1].size \in Nat
    <3>1. qs[k + 1] \in PieceType
      BY <2>1 DEF n
    <3> QED BY <3>1 DEF PieceType
  <2> QED BY <1>1, <1>6, <2>1, <2>2, <2>3, <2>4, <2>5
<1> HIDE DEF Good
<1>9. Nat \subseteq Good
  BY <1>7, <1>8, NatSetInduction
<1>10. r[m + n] = a[m] + b[n]
  BY <1>0, <1>9 DEF Good
<1> QED BY <1>1, <1>2, <1>3, <1>4, <1>10 DEF both

-----------------------------------------------------------------------------
(* What results are written as. *)

WordType == [surface : Nat, feature : Nat]

LEMMA WordsType ==
  ASSUME NEW t \in Texts, NEW k \in 0..Len(Results[t])
  PROVE  WordsOf(t, k) \in Seq(WordType)
<1>1. Results[t] \in Seq(Seq(WordType)) /\ Morphs[t] \in Seq(WordType)
  BY TextsAssumption DEF WordType
<1>2. CASE k = 0
  BY <1>1, <1>2 DEF WordsOf
<1>3. CASE k # 0
  <2>1. k \in 1..Len(Results[t])
    BY <1>1, <1>3
  <2>2. Results[t][k] \in Seq(WordType)
    BY <1>1, <2>1
  <2> QED BY <1>3, <2>2 DEF WordsOf
<1> QED BY <1>2, <1>3

LEMMA NodePiecesType ==
  ASSUME NEW t \in Texts, NEW k \in 0..Len(Results[t]), NEW i \in 1..Len(WordsOf(t, k))
  PROVE  NodePieces(t, k, i) \in Seq(PieceType)
<1>1. WordsOf(t, k) \in Seq(WordType)
  BY WordsType
<1>2. WordsOf(t, k)[i] \in WordType
  BY <1>1
<1>3. WordsOf(t, k)[i].surface \in Nat /\ WordsOf(t, k)[i].feature \in Nat
  BY <1>2 DEF WordType
<1>4. i \in Nat /\ k \in Nat
  OBVIOUS
<1>5. ASSUME NEW what \in {"surface", "tab", "feature"}, NEW size \in Nat
      PROVE  [what |-> what, of |-> <<t, k>>, word |-> i, size |-> size] \in PieceType
  BY <1>4 DEF PieceType
<1> DEFINE w == WordsOf(t, k)[i]
<1>6. /\ [what |-> "surface", of |-> <<t, k>>, word |-> i, size |-> w.surface] \in PieceType
      /\ [what |-> "tab", of |-> <<t, k>>, word |-> i, size |-> 1] \in PieceType
      /\ [what |-> "feature", of |-> <<t, k>>, word |-> i, size |-> w.feature] \in PieceType
  BY <1>3, <1>5
<1>7. NodePieces(t, k, i) =
        << [what |-> "surface", of |-> <<t, k>>, word |-> i, size |-> w.surface],
           [what |-> "tab", of |-> <<t, k>>, word |-> i, size |-> 1],
           [what |-> "feature", of |-> <<t, k>>, word |-> i, size |-> w.feature] >>
  BY DEF NodePieces
<1> QED BY <1>6, <1>7

LEMMA RenderedType ==
  ASSUME NEW t \in Texts, NEW k \in 0..Len(Results[t])
  PROVE  Rendered(t, k) \in Seq(PieceType)
<1> DEFINE n == Len(WordsOf(t, k))
           lines == [i \in 1..n |-> Append(NodePieces(t, k, i), LineEnd)]
           end == [what |-> "EOS", of |-> <<t, k>>, word |-> 0, size |-> 4]
<1>1. n \in Nat
  BY WordsType
<1>2. LineEnd \in PieceType /\ end \in PieceType
  BY DEF LineEnd, PieceType
<1>3. \A i \in 1..n : Append(NodePieces(t, k, i), LineEnd) \in Seq(PieceType)
  BY <1>2, NodePiecesType
<1> HIDE DEF n
<1>4. lines \in Seq(Seq(PieceType))
  BY <1>1, <1>3
<1>5. Rendered(t, k) = FlattenSeq(lines) \o <<end>>
  BY DEF Rendered, n
<1> HIDE DEF lines, end
<1>6. FlattenSeq(lines) \in Seq(PieceType)
  BY <1>4, FlattenType
<1> QED BY <1>2, <1>5, <1>6

-----------------------------------------------------------------------------
(* Buffers.  A buffer of the caller's holds the text while it fits; what a *)
(* buffer says it holds, it holds.                                         *)

IsBuffer(os) ==
  /\ DOMAIN os = {"pieces", "size", "capacity", "error"}
  /\ os.pieces \in Seq(PieceType) /\ os.size = Bytes(os.pieces)
  /\ os = [pieces |-> os.pieces, size |-> os.size, capacity |-> os.capacity, error |-> os.error]

Holds(os, dest, text) ==
  /\ IsBuffer(os) /\ os.capacity = dest
  /\ dest = None \/ Bytes(text) < dest => os.pieces = text

HasRoom(text, dest) == dest = None \/ Bytes(text) + Terminator.size < dest

\* an answer that is the text, or something shorter in place of one too long
Right(ans, text, dest) ==
  \/ ans = [ok |-> TRUE, text |-> text]
  \/ ~ HasRoom(text, dest) /\ (ans.ok => HasRoom(ans.text, dest))

LEMMA WriteHolds ==
  ASSUME NEW dest \in Dests, NEW os, NEW text \in Seq(PieceType), Holds(os, dest, text),
         NEW p \in PieceType
  PROVE  Holds(Write(os, p), dest, Append(text, p))
<1>1. os.pieces \in Seq(PieceType) /\ os.size = Bytes(os.pieces) /\ os.capacity = dest
  BY DEF Holds, IsBuffer
<1>2. Bytes(os.pieces) \in Nat /\ Bytes(text) \in Nat /\ p.size \in Nat
  BY <1>1, BytesType DEF PieceType
<1>3. /\ Bytes(Append(os.pieces, p)) = Bytes(os.pieces) + p.size
      /\ Bytes(Append(text, p)) = Bytes(text) + p.size
  BY <1>1, BytesAppend
<1>4. dest = None \/ dest \in Nat
  BY CapacitiesAssumption DEF Dests
<1> DEFINE room == dest = None \/ os.size + p.size < dest
<1>5. CASE room
  <2>1. Write(os, p) = [os EXCEPT !.pieces = Append(@, p), !.size = @ + p.size, !.error = FALSE]
    BY <1>1, <1>5 DEF Write
  <2>2. /\ Write(os, p) = [pieces |-> Append(os.pieces, p), size |-> os.size + p.size,
                           capacity |-> os.capacity, error |-> FALSE]
    BY <2>1 DEF Holds, IsBuffer
  <2>3. IsBuffer(Write(os, p)) /\ Write(os, p).capacity = dest
    BY <1>1, <1>3, <2>2 DEF IsBuffer
  <2>4. Write(os, p).pieces = Append(os.pieces, p)
    BY <2>2
  <2>5. (dest = None \/ Bytes(Append(text, p)) < dest) => os.pieces = text
    BY <1>2, <1>3, <1>4 DEF Holds
  <2> QED BY <2>3, <2>4, <2>5 DEF Holds
<1>6. CASE ~ room
  <2>1. Write(os, p) = [os EXCEPT !.error = TRUE]
    BY <1>1, <1>6 DEF Write
  <2>2. Write(os, p) = [pieces |-> os.pieces, size |-> os.size, capacity |-> os.capacity,
                        error |-> TRUE]
    BY <2>1 DEF Holds, IsBuffer
  <2>3. IsBuffer(Write(os, p)) /\ Write(os, p).capacity = dest
    BY <1>1, <2>2 DEF IsBuffer
  <2>4. ~ (dest = None \/ Bytes(Append(text, p)) < dest)
    <3> SUFFICES ASSUME Bytes(Append(text, p)) < dest, dest \in Nat PROVE FALSE
      BY <1>4, <1>6
    <3>1. os.pieces = text
      BY <1>2, <1>3 DEF Holds
    <3> QED BY <1>1, <1>3, <1>6, <3>1
  <2> QED BY <2>3, <2>4 DEF Holds
<1> QED BY <1>5, <1>6

LEMMA WriteAllHolds ==
  ASSUME NEW dest \in Dests, NEW os, NEW text \in Seq(PieceType), Holds(os, dest, text),
         NEW ps \in Seq(PieceType)
  PROVE  Holds(WriteAll(os, ps), dest, text \o ps)
<1>1. PICK run : IsRun("write", os, ps, run) /\ run[Len(ps)] = WriteAll(os, ps)
  BY WriteRun
<1>0. Len(ps) \in Nat
  OBVIOUS
<1> DEFINE Good == { k \in Nat : k <= Len(ps) => Holds(run[k], dest, text \o SubSeq(ps, 1, k)) }
<1>2. 0 \in Good
  <2>1. text \o SubSeq(ps, 1, 0) = text
    OBVIOUS
  <2>2. run[0] = os
    BY <1>1 DEF IsRun
  <2> QED BY <2>1, <2>2
<1>3. ASSUME NEW k \in Nat, k \in Good PROVE k + 1 \in Good
  <2> SUFFICES ASSUME k + 1 <= Len(ps)
               PROVE  Holds(run[k + 1], dest, text \o SubSeq(ps, 1, k + 1))
    OBVIOUS
  <2> DEFINE before == text \o SubSeq(ps, 1, k)
  <2>1. Holds(run[k], dest, before)
    BY <1>0, <1>3
  <2>2. k + 1 \in 1..Len(ps) /\ (k + 1) - 1 = k
    BY <1>0
  <2>3. run[k + 1] = Write(run[k], ps[k + 1])
    BY <1>1, <2>2 DEF IsRun, Step
  <2>4. before \in Seq(PieceType) /\ ps[k + 1] \in PieceType
    BY <1>0, <2>2
  <2>5. text \o SubSeq(ps, 1, k + 1) = Append(before, ps[k + 1])
    BY <1>0, <2>2
  <2> HIDE DEF before
  <2>6. Holds(Write(run[k], ps[k + 1]), dest, Append(before, ps[k + 1]))
    BY <2>1, <2>4, WriteHolds
  <2> QED BY <2>3, <2>5, <2>6
<1> HIDE DEF Good
<1>4. Nat \subseteq Good
  BY <1>2, <1>3, NatSetInduction
<1>5. Holds(run[Len(ps)], dest, text \o SubSeq(ps, 1, Len(ps)))
  BY <1>0, <1>4 DEF Good
<1>6. SubSeq(ps, 1, Len(ps)) = ps
  OBVIOUS
<1> QED BY <1>1, <1>5, <1>6

\* the lattice's own buffer grows
OwnBuffer == IsBuffer(ostrs) /\ ostrs.capacity = None

LEMMA ClearedHolds ==
  ASSUME OwnBuffer, NEW dest \in Dests
  PROVE  Holds(Cleared(Buffer(dest)), dest, <<>>)
<1> DEFINE os == Buffer(dest)
<1>1. os = [pieces |-> os.pieces, size |-> os.size, capacity |-> dest, error |-> os.error]
  <2>1. CASE dest = None
    BY <2>1 DEF Buffer, OwnBuffer, IsBuffer
  <2>2. CASE dest # None
    BY <2>2 DEF Buffer, Fixed, Growing
  <2> QED BY <2>1, <2>2
<1> HIDE DEF os
<1>2. Cleared(os) = [pieces |-> <<>>, size |-> 0, capacity |-> dest, error |-> os.error]
  <2>1. Cleared(os) = [os EXCEPT !.pieces = <<>>, !.size = 0]
    BY DEF Cleared
  <2>2. PICK a, b, e : os = [pieces |-> a, size |-> b, capacity |-> dest, error |-> e]
    BY <1>1, Zenon
  <2>3. os.error = e
    BY <2>2
  <2>4. Cleared(os) = [pieces |-> <<>>, size |-> 0, capacity |-> dest, error |-> e]
    BY ONLY <2>1, <2>2
  <2> QED BY <2>3, <2>4
<1> QED BY <1>2, BytesEmpty DEF Holds, IsBuffer, os

LEMMA StrRight ==
  ASSUME NEW dest \in Dests, NEW os, NEW text \in Seq(PieceType), Holds(os, dest, text)
  PROVE  Right(Str(os), text, dest)
<1>1. os.pieces \in Seq(PieceType) /\ os.size = Bytes(os.pieces) /\ os.capacity = dest
  BY DEF Holds, IsBuffer
<1>2. Bytes(os.pieces) \in Nat /\ Bytes(text) \in Nat /\ Terminator.size = 1
  BY <1>1, BytesType DEF Terminator
<1>3. dest = None \/ dest \in Nat
  BY CapacitiesAssumption DEF Dests
<1>4. CASE dest = None \/ os.size + Terminator.size < dest
  <2>1. Write(os, Terminator).error = FALSE
    BY <1>1, <1>4 DEF Write, Holds, IsBuffer
  <2>2. Str(os) = [ok |-> TRUE, text |-> os.pieces]
    BY <2>1 DEF Str
  <2>3. CASE HasRoom(text, dest)
    <3>1. os.pieces = text
      BY <1>2, <1>3, <2>3 DEF HasRoom, Holds
    <3> QED BY <2>2, <3>1 DEF Right
  <2>4. CASE ~ HasRoom(text, dest)
    BY <1>1, <1>4, <2>2, <2>4 DEF Right, HasRoom
  <2> QED BY <2>3, <2>4
<1>5. CASE ~ (dest = None \/ os.size + Terminator.size < dest)
  <2>1. Write(os, Terminator).error = TRUE
    BY <1>1, <1>5 DEF Write, Holds, IsBuffer
  <2>2. Str(os) = Failed /\ ~ Str(os).ok
    BY <2>1 DEF Str, Failed
  <2>3. ~ HasRoom(text, dest)
    <3> SUFFICES ASSUME HasRoom(text, dest) PROVE FALSE
      OBVIOUS
    <3>1. dest \in Nat /\ Bytes(text) + 1 < dest
      BY <1>2, <1>3, <1>5 DEF HasRoom
    <3>2. os.pieces = text
      BY <1>2, <3>1 DEF Holds
    <3> QED BY <1>1, <1>2, <1>5, <3>1, <3>2
  <2> QED BY <2>2, <2>3 DEF Right
<1> QED BY <1>4, <1>5

-----------------------------------------------------------------------------
(* The pool.  What is left of its own proofs is that every request made of *)
(* it is the size of a text of the session: that the sentence of a lattice *)
(* and the result being copied are known texts wherever they are copied.   *)

PoolInv(p) == Sound(p) /\ Accounted(p)

\* the records that the calls update field by field
IsLattice(l) == DOMAIN l = {"request_type", "theta", "sentence", "result"}
IsSentence(s) == DOMAIN s = {"text", "at", "intact"} /\ s.text \in Texts
IsCall(c) == DOMAIN c = {"op", "n", "dest", "os", "i", "served"}

\* the sentence is a known text whenever it is going to be copied
SentenceKnown ==
  /\ IsLattice(lattice)
  /\ lattice.sentence = None \/ IsSentence(lattice.sentence)
  /\ pc \in {"initPartial", "setResult"} => IsSentence(lattice.sentence)

\* the features being copied are those of a known result
ResultKnown ==
  pc = "setResult" =>
    /\ asked.text \in Texts
    /\ IsCall(call) /\ call.i \in Nat
    /\ call.n \in 1..Len(Results[asked.text])

IInv == PoolInv(pool) /\ SentenceKnown /\ ResultKnown

-----------------------------------------------------------------------------

LEMMA EmptyPoolInv == PoolInv(EmptyPool)
BY EmptySound, EmptyAccounted DEF PoolInv

LEMMA FreePoolInv ==
  ASSUME NEW p, PoolInv(p)
  PROVE  PoolInv(Free(p))
BY FreeSound, FreeAccounted DEF PoolInv

LEMMA TakePoolInv ==
  ASSUME NEW p, PoolInv(p), NEW req \in Nat, NEW i \in FirstFit(p, req)
  PROVE  PoolInv(Take(p, i, req))
BY TakeSound, TakeAccounted DEF PoolInv

(* What the calls copy has a size. *)
LEMMA TextRequest ==
  ASSUME NEW t \in Texts
  PROVE  CopySize(Size[t]) \in Nat
BY TextsAssumption DEF CopySize

LEMMA ResultRequest ==
  ASSUME NEW t \in Texts, NEW k \in 1..Len(Results[t])
  PROVE  CopySize(Bytes(Rendered(t, k))) \in Nat
<1>1. Bytes(Rendered(t, k)) \in Nat
  <2>1. k \in 0..Len(Results[t])
    OBVIOUS
  <2> QED BY <2>1, RenderedType, BytesType
<1> QED BY <1>1 DEF CopySize

LEMMA FeatureRequest ==
  ASSUME NEW t \in Texts, NEW k \in 1..Len(Results[t]),
         NEW i \in Nat, i < Len(Results[t][k])
  PROVE  CopySize(Results[t][k][i + 1].feature) \in Nat
<1> DEFINE Words == [surface : Nat, feature : Nat]
           words == Results[t][k]
<1>1. Results[t] \in Seq(Seq(Words))
  BY TextsAssumption
<1>2. words \in Seq(Words)
  <2> HIDE DEF Words
  <2>1. QED  BY <1>1
<1>3. Len(words) \in Nat /\ i + 1 \in 1..Len(words) /\ words[i + 1] \in Words
  <2> HIDE DEF Words, words
  <2>1. Len(words) \in Nat
    BY <1>2
  <2>2. i < Len(words)
    BY DEF words
  <2>3. QED  BY <1>2, <2>1, <2>2
<1>4. words[i + 1].feature \in Nat
  BY <1>3
<1>5. QED  BY <1>4 DEF CopySize

-----------------------------------------------------------------------------

(* set_sentence leaves a good pool and the new sentence in the lattice,    *)
(* wherever the text lay before.                                           *)
LEMMA SetSentenceInv ==
  ASSUME NEW l, NEW p, PoolInv(p), NEW t \in Texts, NEW src,
         SetSentence(l, p, t, src)
  PROVE  PoolInv(pool') /\ IsLattice(lattice') /\ IsSentence(lattice'.sentence)
<1> DEFINE free == Free(p)
           req == CopySize(Size[t])
<1>1. PoolInv(free)
  BY FreePoolInv
<1>2. ASSUME NEW at PROVE IsLattice(Loaded(l, t, at, src)) /\ IsSentence(Loaded(l, t, at, src).sentence)
  BY DEF Loaded, IsLattice, IsSentence
<1>3. CASE Stored(l.request_type)
  <2>1. PICK i \in FirstFit(free, req) :
          pool' = Take(free, i, req) /\ lattice' = Loaded(l, t, Given(free, i, req), src)
    BY <1>3 DEF SetSentence
  <2>2. PoolInv(Take(free, i, req))
    BY <1>1, TakePoolInv, TextRequest
  <2>3. QED  BY <1>2, <2>1, <2>2
<1>4. CASE ~ Stored(l.request_type)
  BY <1>1, <1>2, <1>4 DEF SetSentence
<1>5. QED  BY <1>3, <1>4

(* A step that leaves the pool and the sentence alone, and begins neither  *)
(* a partial parse nor the copying of a result.                            *)
LEMMA FrameInv ==
  ASSUME IInv, UNCHANGED pool,
         IsLattice(lattice'), lattice'.sentence = lattice.sentence,
         pc' \notin {"initPartial", "setResult"}
  PROVE  IInv'
BY DEF IInv, SentenceKnown, ResultKnown

LEMMA InitIInv == Init => IInv
<1> SUFFICES ASSUME Init PROVE IInv
  OBVIOUS
<1>1. PoolInv(pool)
  BY EmptyPoolInv DEF Init
<1>2. SentenceKnown /\ ResultKnown
  BY DEF Init, SentenceKnown, ResultKnown, IsLattice
<1>3. QED  BY <1>1, <1>2 DEF IInv

(* A tagger's settings are not the lattice's. *)
LEMMA SettingInv ==
  ASSUME IInv, Setting
  PROVE  IInv'
<1>1. pool' = pool /\ lattice' = lattice /\ pc' = pc /\ pc = "idle"
  BY DEF Setting, SetRequestType, SetPartial, SetAllMorphs, SetLatticeLevel, SetTheta,
         Choose, Idle
<1>2. QED  BY <1>1, FrameInv DEF IInv, SentenceKnown

(* The calls of a tagger. *)
LEMMA TaggerCallInv ==
  ASSUME IInv, TaggerCall
  PROVE  IInv'
<1>1. ASSUME NEW op, NEW t \in Texts, NEW n, NEW dest, TaggerParse(op, t, n, dest)
      PROVE  IInv'
  <2> DEFINE l == InitRequestType(lattice)
             m == [l EXCEPT !.request_type = WithNBest(op, @)]
  <2>1. SetSentence(m, pool, t, Caller)
    BY <1>1 DEF TaggerParse
  <2>2. PoolInv(pool') /\ IsLattice(lattice') /\ IsSentence(lattice'.sentence)
    BY <2>1, SetSentenceInv DEF IInv
  <2>3. pc' = "initPartial"
    BY <1>1 DEF TaggerParse
  <2>4. QED  BY <2>2, <2>3 DEF IInv, SentenceKnown, ResultKnown
<1>2. ASSUME NEW op, NEW dest, CallNext(op, dest)
      PROVE  IInv'
  <2>1. pool' = pool /\ pc' \in {"idle", "write"}
    BY <1>2 DEF CallNext, Searching, HasResult, Idle
  <2>2. IsLattice(lattice') /\ lattice'.sentence = lattice.sentence
    BY <1>2 DEF CallNext, Advance, IInv, SentenceKnown, IsLattice
  <2>3. QED  BY <2>1, <2>2, FrameInv
<1>3. QED  BY <1>1, <1>2 DEF TaggerCall, TaggerNext

(* The calls on a client's lattice. *)
LEMMA ClientCallInv ==
  ASSUME IInv, ClientCall
  PROVE  IInv'
<1>1. ASSUME NEW t \in Texts, ClientSetSentence(t) PROVE IInv'
  <2>1. PoolInv(pool') /\ IsLattice(lattice') /\ IsSentence(lattice'.sentence)
    BY <1>1, SetSentenceInv DEF ClientSetSentence, IInv
  <2>2. pc' = "idle"
    BY <1>1 DEF ClientSetSentence, Idle
  <2>3. QED  BY <2>1, <2>2 DEF IInv, SentenceKnown, ResultKnown
<1>2. CASE ClientClear
  <2>1. PoolInv(pool')
    BY <1>2, FreePoolInv DEF ClientClear, IInv
  <2>2. IsLattice(lattice') /\ lattice'.sentence = None /\ pc' = "idle"
    BY <1>2 DEF ClientClear, ClearedLattice, IsLattice, Idle
  <2>3. QED  BY <2>1, <2>2 DEF IInv, SentenceKnown, ResultKnown
<1>3. CASE ClientParse
  <2>1. pool' = pool /\ lattice' = lattice /\ pc' = "initPartial"
    BY <1>3 DEF ClientParse
  <2>2. lattice.sentence # None
    BY <1>3 DEF ClientParse
  <2>3. QED  BY <2>1, <2>2 DEF IInv, SentenceKnown, ResultKnown
<1>4. CASE ClientSetRequestType \/ ClientSetTheta
  <2>1. pool' = pool /\ pc' = "idle"
    BY <1>4 DEF ClientSetRequestType, ClientSetTheta, Idle
  <2>2. IsLattice(lattice') /\ lattice'.sentence = lattice.sentence
    BY <1>4 DEF ClientSetRequestType, ClientSetTheta, IInv, SentenceKnown, IsLattice
  <2>3. QED  BY <2>1, <2>2, FrameInv
<1>5. ASSUME NEW dest, ClientToString(dest) PROVE IInv'
  <2>1. pool' = pool /\ lattice' = lattice /\ pc' = "write"
    BY <1>5 DEF ClientToString
  <2>2. QED  BY <2>1, FrameInv DEF IInv, SentenceKnown
<1>6. ASSUME NEW n, NEW dest, ClientEnumerate(n, dest) PROVE IInv'
  <2>1. pool' = pool /\ lattice' = lattice /\ pc' = "enumerate"
    BY <1>6 DEF ClientEnumerate
  <2>2. QED  BY <2>1, FrameInv DEF IInv, SentenceKnown
<1>7. ASSUME NEW t \in Texts, NEW k \in 1..Len(Results[t]), ClientSetResult(t, k)
      PROVE  IInv'
  <2> DEFINE text == CopySize(Bytes(Rendered(t, k)))
             req == CopySize(Size[t])
  <2>1. PICK i \in FirstFit(pool, text) : \E j \in FirstFit(Take(pool, i, text), req) :
          SetSentence(lattice, Take(Take(pool, i, text), j, req), t,
                      Given(Take(pool, i, text), j, req))
    BY <1>7 DEF ClientSetResult
  <2> DEFINE p == Take(pool, i, text)
  <2>2. PoolInv(p)
    BY TakePoolInv, ResultRequest DEF IInv
  <2>3. PICK j \in FirstFit(p, req) : SetSentence(lattice, Take(p, j, req), t, Given(p, j, req))
    BY <2>1
  <2> HIDE DEF p
  <2>4. PoolInv(Take(p, j, req))
    BY <2>2, TakePoolInv, TextRequest
  <2>5. PoolInv(pool') /\ IsLattice(lattice') /\ IsSentence(lattice'.sentence)
    BY <2>3, <2>4, SetSentenceInv
  <2>6. asked'.text = t /\ IsCall(call') /\ call'.i = 0 /\ call'.n = k
    BY <1>7 DEF ClientSetResult, NoCall, IsCall
  <2>7. QED  BY <2>5, <2>6 DEF IInv, SentenceKnown, ResultKnown
<1>8. QED
  BY <1>1, <1>2, <1>3, <1>4, <1>5, <1>6, <1>7 DEF ClientCall

(* The steps inside a call. *)
LEMMA WorkInv ==
  ASSUME IInv, Work
  PROVE  IInv'
<1>1. CASE InitPartial
  <2>1. IsSentence(lattice.sentence) /\ pc' = "analyze"
    BY <1>1 DEF InitPartial, IInv, SentenceKnown
  <2>2. CASE "PARTIAL" \in lattice.request_type
    <3>1. Joined[lattice.sentence.text] \in Texts
      BY <2>1, TextsAssumption DEF IsSentence
    <3>2. PoolInv(pool') /\ IsLattice(lattice') /\ IsSentence(lattice'.sentence)
      BY <1>1, <2>2, <3>1, SetSentenceInv DEF InitPartial, IInv
    <3>3. QED  BY <2>1, <3>2 DEF IInv, SentenceKnown, ResultKnown
  <2>3. CASE "PARTIAL" \notin lattice.request_type
    <3>1. pool' = pool /\ lattice' = lattice
      BY <1>1, <2>3 DEF InitPartial
    <3>2. QED  BY <2>1, <3>1, FrameInv DEF IInv, SentenceKnown
  <2>4. QED  BY <2>2, <2>3
<1>2. CASE Analyze
  <2>1. pool' = pool /\ pc' \in {"idle", "write", "enumerate"}
    BY <1>2 DEF Analyze, Use
  <2>2. IsLattice(lattice') /\ lattice'.sentence = lattice.sentence
    BY <1>2 DEF Analyze, IInv, SentenceKnown, IsLattice
  <2>3. QED  BY <2>1, <2>2, FrameInv
<1>3. CASE WriteOut \/ RefuseNumber \/ EndEnumeration
  <2>1. pool' = pool /\ lattice' = lattice /\ pc' = "idle"
    BY <1>3 DEF WriteOut, RefuseNumber, EndEnumeration
  <2>2. QED  BY <2>1, FrameInv DEF IInv, SentenceKnown
<1>4. CASE Enumerate
  <2>1. pool' = pool /\ pc' = "enumerate"
    BY <1>4 DEF Enumerate
  <2>2. IsLattice(lattice') /\ lattice'.sentence = lattice.sentence
    BY <1>4 DEF Enumerate, Advance, IInv, SentenceKnown, IsLattice
  <2>3. QED  BY <2>1, <2>2, FrameInv
<1>5. CASE CopyFeature
  <2> DEFINE words == Results[asked.text][call.n]
             req == CopySize(words[call.i + 1].feature)
  <2>1. /\ pc = "setResult" /\ pc' = "setResult" /\ asked' = asked
        /\ call.i < Len(words) /\ call' = [call EXCEPT !.i = @ + 1]
    BY <1>5 DEF CopyFeature
  <2>2. /\ asked.text \in Texts /\ IsCall(call) /\ call.i \in Nat
        /\ call.n \in 1..Len(Results[asked.text])
        /\ IsLattice(lattice) /\ IsSentence(lattice.sentence)
    BY <2>1 DEF IInv, SentenceKnown, ResultKnown
  <2>3. req \in Nat
    BY <2>1, <2>2, FeatureRequest
  <2>4. PICK i \in FirstFit(pool, req) :
          pool' = Take(pool, i, req) /\ lattice' = Overwritten(lattice, Given(pool, i, req))
    BY <1>5 DEF CopyFeature
  <2>5. PoolInv(pool')
    BY <2>3, <2>4, TakePoolInv DEF IInv
  <2>6. IsLattice(lattice') /\ IsSentence(lattice'.sentence)
    BY <2>2, <2>4 DEF Overwritten, IsLattice, IsSentence
  <2>7. IsCall(call') /\ call'.i \in Nat /\ call'.n = call.n
    BY <2>1, <2>2 DEF IsCall
  <2>8. QED  BY <2>1, <2>2, <2>5, <2>6, <2>7 DEF IInv, SentenceKnown, ResultKnown
<1>6. CASE EndSetResult
  <2>1. pool' = pool /\ pc' = "idle"
    BY <1>6 DEF EndSetResult
  <2>2. IsLattice(lattice') /\ lattice'.sentence = lattice.sentence
    BY <1>6 DEF EndSetResult, IInv, SentenceKnown, IsLattice
  <2>3. QED  BY <2>1, <2>2, FrameInv
<1>7. QED  BY <1>1, <1>2, <1>3, <1>4, <1>5, <1>6 DEF Work

(* formatNode and nextNode belong to both kinds of lattice. *)
LEMMA SharedCallInv ==
  ASSUME IInv, NextNode \/ (\E dest \in Dests : FormatNode(dest))
  PROVE  IInv'
<1>1. CASE NextNode
  <2>1. pool' = pool /\ pc' \in {"idle", "write"}
    BY <1>1 DEF NextNode, CallNext, Searching, HasResult, Idle
  <2>2. IsLattice(lattice') /\ lattice'.sentence = lattice.sentence
    BY <1>1 DEF NextNode, CallNext, Advance, IInv, SentenceKnown, IsLattice
  <2>3. QED  BY <2>1, <2>2, FrameInv
<1>2. ASSUME NEW dest, FormatNode(dest) PROVE IInv'
  <2>1. pool' = pool /\ lattice' = lattice /\ pc' = "idle"
    BY <1>2 DEF FormatNode, HasResult, Idle
  <2>2. QED  BY <2>1, FrameInv DEF IInv, SentenceKnown
<1>3. QED  BY <1>1, <1>2

LEMMA NextIInv ==
  ASSUME IInv, [Next]_vars
  PROVE  IInv'
<1>1. CASE UNCHANGED vars
  BY <1>1 DEF vars, settings, IInv, SentenceKnown, ResultKnown
<1>2. QED
  BY <1>1, SettingInv, TaggerCallInv, ClientCallInv, WorkInv, SharedCallInv DEF Next

(* Under any sequence of calls the pool of a lattice is sound and its      *)
(* requests are those of known texts.                                      *)
THEOREM PoolInvariant == Spec => []IInv
<1>1. QED  BY InitIInv, NextIInv, PTL DEF Spec

-----------------------------------------------------------------------------

(* For all texts, sizes and settings: strings given out since the pool of  *)
(* a lattice was last freed lie in its chunks and share no byte, whatever  *)
(* mixture of parses, partial parses and set_result filled it.             *)
THEOREM NoOverlap == Spec => []RegionsDisjoint
<1>1. IInv => RegionsDisjoint
  BY SoundDisjoint DEF IInv, PoolInv, RegionsDisjoint
<1>2. QED  BY <1>1, PoolInvariant, PTL

(* For all sizes of chunks and strings, and any division of the strings    *)
(* into short and long below a chunk's size: however often the lattice is  *)
(* used, its chunks but one are covered by the heaviest use between two    *)
(* frees, and once more for every long string it took in; short strings    *)
(* never make it grow beyond that.                                         *)
THEOREM PoolStaysBounded == Spec => []PoolBounded
<1>1. IInv => PoolBounded
  BY AccountedBounded DEF IInv, PoolInv, PoolBounded
<1>2. QED  BY <1>1, PoolInvariant, PTL

-----------------------------------------------------------------------------
(* What a call leaves for the next: the settings an analysis reads, and    *)
(* the agenda a search goes on with.                                       *)

IsAsked(a) == DOMAIN a = {"text", "request_type", "theta", "served"}

Analyzing == pc \in {"initPartial", "analyze"}

\* until it reads them, the lattice has the request types the caller chose
RequestInv ==
  /\ Analyzing => IsAsked(asked) /\ asked.request_type = lattice.request_type
  /\ used # None => IsAsked(asked) /\ used.request_type = asked.request_type

AgendaLive == \A e \in agenda : e.live /\ e.text = asked.text

\* a result that can be gone on from is one whose analysis made the agenda anew
SearchInv ==
  /\ Analyzing =>
       /\ lattice.result = None
       /\ call.op = "parseNBest" => "NBEST" \in lattice.request_type
  /\ pc = "initPartial" => asked.text = Analyzed(lattice.sentence.text, lattice.request_type)
  /\ pc = "analyze" => asked.text = lattice.sentence.text
  /\ pc = "setResult" => used = None
  /\ pc = "enumerate" => IsAsked(asked) /\ AgendaLive
  /\ lattice.result # None /\ used # None /\ "NBEST" \in used.request_type => AgendaLive

CallsInv == IInv /\ RequestInv /\ SearchInv

LEMMA SetSentenceSets ==
  ASSUME NEW l, NEW p, NEW t, NEW src, SetSentence(l, p, t, src)
  PROVE  /\ lattice'.request_type = l.request_type
         /\ lattice'.result = None /\ lattice'.sentence.text = t
<1>1. ASSUME NEW at
      PROVE  /\ Loaded(l, t, at, src).request_type = l.request_type
             /\ Loaded(l, t, at, src).result = None /\ Loaded(l, t, at, src).sentence.text = t
  BY DEF Loaded
<1>2. \E at : lattice' = Loaded(l, t, at, src)
  BY DEF SetSentence
<1>3. QED  BY <1>1, <1>2

LEMMA ServedOneMoreKeeps ==
  ASSUME IsAsked(asked)
  PROVE  /\ IsAsked(ServedOneMore)
         /\ ServedOneMore.request_type = asked.request_type
         /\ ServedOneMore.text = asked.text
BY DEF IsAsked, ServedOneMore

(* A step outside of an analysis that forgets the present result and the   *)
(* settings that were read.                                                *)
LEMMA ForgetInv ==
  ASSUME used' = None, pc' \in {"idle", "setResult"}
  PROVE  RequestInv' /\ SearchInv'
BY DEF RequestInv, SearchInv, Analyzing

(* A step that leaves the search alone and begins none.                    *)
LEMMA QuietInv ==
  ASSUME CallsInv, UNCHANGED <<agenda, used, asked>>,
         lattice'.result = lattice.result \/ lattice'.result = None,
         pc' \in {"idle", "write"}
  PROVE  RequestInv' /\ SearchInv'
BY DEF CallsInv, RequestInv, SearchInv, Analyzing, AgendaLive

LEMMA CallsTagger ==
  ASSUME CallsInv, NEW op, NEW t \in Texts, NEW n, NEW dest, TaggerParse(op, t, n, dest)
  PROVE  RequestInv' /\ SearchInv'
<1> DEFINE l == InitRequestType(lattice)
           m == [l EXCEPT !.request_type = WithNBest(op, @)]
           r == WithNBest(op, request_type)
<1>1. SetSentence(m, pool, t, Caller) /\ asked' = Ask(t, r, theta)
      /\ pc' = "initPartial" /\ used' = None /\ call' = [NoCall EXCEPT !.op = op, !.n = n, !.dest = dest]
  BY DEF TaggerParse
<1>2. IsLattice(lattice)
  BY DEF CallsInv, IInv, SentenceKnown
<1>3. m.request_type = r
  BY <1>2 DEF IsLattice, InitRequestType
<1> HIDE DEF m
<1>4. lattice'.request_type = r /\ lattice'.result = None /\ lattice'.sentence.text = t
  BY <1>1, <1>3, SetSentenceSets
<1>5. IsAsked(asked') /\ asked'.request_type = r /\ asked'.text = Analyzed(t, r)
  BY <1>1 DEF Ask, IsAsked
<1>6. call'.op = op
  BY <1>1 DEF NoCall
<1>7. op = "parseNBest" => "NBEST" \in r
  BY DEF WithNBest
<1> HIDE DEF r
<1>8. QED  BY <1>1, <1>4, <1>5, <1>6, <1>7 DEF RequestInv, SearchInv, Analyzing

LEMMA CallsNext ==
  ASSUME CallsInv, NEW op, NEW dest, CallNext(op, dest)
  PROVE  RequestInv' /\ SearchInv'
<1>1. /\ lattice.result # None /\ used # None /\ "NBEST" \in used.request_type
      /\ asked' = ServedOneMore /\ used' = used /\ pc' \in {"idle", "write"}
      /\ agenda' \subseteq agenda
  BY DEF CallNext, Searching, HasResult, Idle, Advance
<1>2. IsAsked(asked) /\ used.request_type = asked.request_type /\ AgendaLive
  BY <1>1 DEF CallsInv, RequestInv, SearchInv
<1>3. IsAsked(asked') /\ asked'.request_type = asked.request_type /\ asked'.text = asked.text
  BY <1>1, <1>2, ServedOneMoreKeeps
<1>4. AgendaLive'
  BY <1>1, <1>2, <1>3 DEF AgendaLive
<1>5. QED  BY <1>1, <1>2, <1>3, <1>4 DEF RequestInv, SearchInv, Analyzing

LEMMA CallsClient ==
  ASSUME CallsInv, ClientCall
  PROVE  RequestInv' /\ SearchInv'
<1>1. ASSUME NEW t \in Texts, ClientSetSentence(t) PROVE RequestInv' /\ SearchInv'
  BY <1>1, ForgetInv DEF ClientSetSentence, Idle
<1>2. CASE ClientClear
  BY <1>2, ForgetInv DEF ClientClear, Idle
<1>3. CASE ClientParse
  <2>1. /\ lattice' = lattice /\ pc' = "initPartial" /\ used' = used /\ used = None
        /\ lattice.result = None /\ call'.op = "parseLattice"
        /\ asked' = Ask(lattice.sentence.text, lattice.request_type, lattice.theta)
    BY <1>3 DEF ClientParse, NoCall
  <2>2. /\ IsAsked(asked') /\ asked'.request_type = lattice.request_type
        /\ asked'.text = Analyzed(lattice.sentence.text, lattice.request_type)
    BY <2>1 DEF Ask, IsAsked
  <2>3. QED  BY <2>1, <2>2 DEF RequestInv, SearchInv, Analyzing
<1>4. CASE ClientSetRequestType \/ ClientSetTheta
  <2>1. UNCHANGED <<agenda, used, asked>> /\ pc' = "idle"
    BY <1>4 DEF ClientSetRequestType, ClientSetTheta, Idle
  <2>2. lattice'.result = lattice.result
    BY <1>4 DEF ClientSetRequestType, ClientSetTheta, CallsInv, IInv, SentenceKnown, IsLattice
  <2>3. QED  BY <2>1, <2>2, QuietInv
<1>5. ASSUME NEW dest, ClientToString(dest) PROVE RequestInv' /\ SearchInv'
  BY <1>5, QuietInv DEF ClientToString
<1>6. ASSUME NEW n, NEW dest, ClientEnumerate(n, dest) PROVE RequestInv' /\ SearchInv'
  <2>1. /\ lattice.result # None /\ used # None /\ "NBEST" \in used.request_type
        /\ UNCHANGED <<lattice, agenda, used, asked>> /\ pc' = "enumerate"
    BY <1>6 DEF ClientEnumerate, Searching, HasResult
  <2>2. IsAsked(asked) /\ AgendaLive
    BY <2>1 DEF CallsInv, RequestInv, SearchInv
  <2>3. QED  BY <2>1, <2>2 DEF CallsInv, RequestInv, SearchInv, Analyzing, AgendaLive
<1>7. ASSUME NEW t \in Texts, NEW k \in 1..Len(Results[t]), ClientSetResult(t, k)
      PROVE  RequestInv' /\ SearchInv'
  BY <1>7, ForgetInv DEF ClientSetResult
<1>8. QED
  BY <1>1, <1>2, <1>3, <1>4, <1>5, <1>6, <1>7 DEF ClientCall

LEMMA CallsWork ==
  ASSUME CallsInv, Work
  PROVE  RequestInv' /\ SearchInv'
<1>1. CASE InitPartial
  <2>1. pc = "initPartial" /\ pc' = "analyze" /\ UNCHANGED <<call, used, asked>>
    BY <1>1 DEF InitPartial
  <2>2. /\ IsAsked(asked) /\ asked.request_type = lattice.request_type
        /\ asked.text = Analyzed(lattice.sentence.text, lattice.request_type)
        /\ call.op = "parseNBest" => "NBEST" \in lattice.request_type
        /\ lattice.result = None
    BY <2>1 DEF CallsInv, RequestInv, SearchInv, Analyzing
  <2>3. /\ lattice'.request_type = lattice.request_type /\ lattice'.result = None
        /\ lattice'.sentence.text = Analyzed(lattice.sentence.text, lattice.request_type)
    <3>1. CASE "PARTIAL" \in lattice.request_type
      BY <1>1, <3>1, SetSentenceSets DEF InitPartial, Analyzed
    <3>2. CASE "PARTIAL" \notin lattice.request_type
      BY <1>1, <2>2, <3>2 DEF InitPartial, Analyzed
    <3>3. QED  BY <3>1, <3>2
  <2>4. QED  BY <2>1, <2>2, <2>3 DEF CallsInv, RequestInv, SearchInv, Analyzing
<1>2. CASE Analyze
  <2>1. /\ pc = "analyze" /\ asked' = asked
        /\ used' = [request_type |-> lattice.request_type, theta |-> lattice.theta]
        /\ pc' \in {"idle", "write", "enumerate"}
    BY <1>2 DEF Analyze, Use
  <2>2. /\ IsAsked(asked) /\ asked.request_type = lattice.request_type
        /\ asked.text = lattice.sentence.text /\ lattice.result = None
        /\ call.op = "parseNBest" => "NBEST" \in lattice.request_type
    BY <2>1 DEF CallsInv, RequestInv, SearchInv, Analyzing
  <2>3. used'.request_type = asked.request_type
    BY <2>1, <2>2
  <2>4. CASE lattice.sentence.text \in TooLong
    <3>1. pc' = "idle" /\ lattice' = lattice
      BY <1>2, <2>4 DEF Analyze
    <3>2. QED  BY <2>1, <2>2, <2>3, <3>1 DEF RequestInv, SearchInv, Analyzing
  <2>5. CASE lattice.sentence.text \notin TooLong
    <3>1. "NBEST" \in lattice.request_type => AgendaLive'
      <4>1. "NBEST" \in lattice.request_type => agenda' = NewAgenda(lattice)
        BY <1>2, <2>5 DEF Analyze
      <4>2. QED  BY <2>1, <2>2, <4>1 DEF NewAgenda, AgendaLive
    <3>2. pc' = "enumerate" => call.op = "parseNBest"
      BY <1>2, <2>5 DEF Analyze, Use
    <3>3. QED  BY <2>1, <2>2, <2>3, <3>1, <3>2 DEF RequestInv, SearchInv, Analyzing
  <2>6. QED  BY <2>4, <2>5
<1>3. CASE WriteOut \/ RefuseNumber \/ EndEnumeration
  <2>1. UNCHANGED <<lattice, agenda, used, asked>> /\ pc' = "idle"
    BY <1>3 DEF WriteOut, RefuseNumber, EndEnumeration
  <2>2. QED  BY <2>1, QuietInv
<1>4. CASE Enumerate
  <2>1. /\ pc = "enumerate" /\ pc' = "enumerate" /\ used' = used
        /\ asked' = ServedOneMore /\ agenda' \subseteq agenda
    BY <1>4 DEF Enumerate, Advance
  <2>2. IsAsked(asked) /\ AgendaLive /\ (used # None => used.request_type = asked.request_type)
    BY <2>1 DEF CallsInv, RequestInv, SearchInv
  <2>3. IsAsked(asked') /\ asked'.request_type = asked.request_type /\ asked'.text = asked.text
    BY <2>1, <2>2, ServedOneMoreKeeps
  <2>4. AgendaLive'
    BY <2>1, <2>2, <2>3 DEF AgendaLive
  <2>5. QED  BY <2>1, <2>2, <2>3, <2>4 DEF RequestInv, SearchInv, Analyzing
<1>5. CASE CopyFeature \/ EndSetResult
  <2>1. pc = "setResult" /\ pc' \in {"idle", "setResult"} /\ used' = used
    BY <1>5 DEF CopyFeature, EndSetResult
  <2>2. used' = None
    BY <2>1 DEF CallsInv, SearchInv
  <2>3. QED  BY <2>1, <2>2, ForgetInv
<1>6. QED  BY <1>1, <1>2, <1>3, <1>4, <1>5 DEF Work

LEMMA NextCallsInv ==
  ASSUME CallsInv, [Next]_vars
  PROVE  CallsInv'
<1>1. IInv'
  BY NextIInv DEF CallsInv
<1>2. CASE Setting
  <2>1. UNCHANGED <<lattice, agenda, used, asked>> /\ pc' = "idle"
    BY <1>2 DEF Setting, SetRequestType, SetPartial, SetAllMorphs, SetLatticeLevel, SetTheta,
           Choose, Idle
  <2>2. QED  BY <1>1, <2>1, QuietInv DEF CallsInv
<1>3. CASE TaggerCall
  BY <1>1, <1>3, CallsTagger, CallsNext DEF TaggerCall, TaggerNext, CallsInv
<1>4. CASE NextNode
  BY <1>1, <1>4, CallsNext DEF NextNode, CallsInv
<1>5. ASSUME NEW dest, FormatNode(dest) PROVE CallsInv'
  <2>1. UNCHANGED <<lattice, agenda, used, asked>> /\ pc' = "idle"
    BY <1>5 DEF FormatNode, HasResult, Idle
  <2>2. QED  BY <1>1, <2>1, QuietInv DEF CallsInv
<1>6. CASE UNCHANGED vars
  BY <1>1, <1>6 DEF vars, settings, CallsInv, RequestInv, SearchInv, Analyzing, AgendaLive
<1>7. QED
  BY <1>1, <1>2, <1>3, <1>4, <1>5, <1>6, CallsClient, CallsWork DEF Next, CallsInv

LEMMA CallsInvariant == Spec => []CallsInv
<1>1. Init => CallsInv
  <2>1. Init => RequestInv /\ SearchInv
    BY DEF Init, RequestInv, SearchInv, Analyzing
  <2>2. QED  BY <2>1, InitIInv DEF CallsInv
<1>2. QED  BY <1>1, NextCallsInv, PTL DEF Spec

(* For all texts, settings and sequences of calls: an analysis reads the   *)
(* request types chosen last, not those of a call before (tagger.cpp:207,  *)
(* 567, 674).                                                              *)
THEOREM RequestTypesReach == Spec => []RequestInForce
<1>1. CallsInv => RequestInForce
  BY DEF CallsInv, RequestInv, RequestInForce
<1>2. QED  BY <1>1, CallsInvariant, PTL

(* However a search was left, the next one reads only nodes of the present *)
(* sentence: NBestGenerator::set empties the agenda (nbest_generator.cpp   *)
(* 12), and next is answered only after it.                                *)
THEOREM SearchReadsLive == Spec => []NextReadsLive
<1>1. CallsInv => NextReadsLive
  BY DEF CallsInv, SearchInv, NextReadsLive, Searching, HasResult, AgendaLive
<1>2. QED  BY <1>1, CallsInvariant, PTL

-----------------------------------------------------------------------------
(* The types of what the calls hand to each other.                         *)

LEMMA CallerRegions == Caller \in Region /\ LocalBuffer \in Region
BY DEF Caller, LocalBuffer, Region

LEMMA GivenRegion ==
  ASSUME NEW p, PoolInv(p), NEW t \in Texts, NEW i \in FirstFit(p, CopySize(Size[t]))
  PROVE  Given(p, i, CopySize(Size[t])) \in Region
BY TakeApart, TextRequest DEF PoolInv

(* set_sentence leaves a lattice of its type, with a sentence and without  *)
(* a result, and only dead nodes in the agenda.                            *)
LEMMA SetSentenceTypes ==
  ASSUME NEW l, l.request_type \in RequestTypeSet, NEW p, PoolInv(p),
         NEW t \in Texts, NEW src \in Region, SetSentence(l, p, t, src)
  PROVE  /\ lattice' \in LatticeType /\ lattice'.sentence # None /\ lattice'.result = None
         /\ agenda' = Dead(agenda)
<1> DEFINE req == CopySize(Size[t])
<1>1. agenda' = Dead(agenda)
  BY DEF SetSentence
<1>2. \E at \in Region : lattice' = Loaded(l, t, at, src)
  <2>1. CASE Stored(l.request_type)
    <3>1. PICK i \in FirstFit(Free(p), req) : lattice' = Loaded(l, t, Given(Free(p), i, req), src)
      BY <2>1 DEF SetSentence
    <3>2. Given(Free(p), i, req) \in Region
      BY FreePoolInv, GivenRegion
    <3>3. QED  BY <3>1, <3>2
  <2>2. CASE ~ Stored(l.request_type)
    BY <2>2 DEF SetSentence
  <2>3. QED  BY <2>1, <2>2
<1>3. PICK at \in Region : lattice' = Loaded(l, t, at, src)
  BY <1>2
<1>4. DefaultTheta \in ThetaSet
  BY DEF ThetaSet
<1>5. [text |-> t, at |-> at, intact |-> at = src \/ ~ Overlap(at, src)] \in SentenceType
  BY <1>3 DEF SentenceType
<1>6. /\ lattice'.sentence = [text |-> t, at |-> at, intact |-> at = src \/ ~ Overlap(at, src)]
      /\ lattice'.result = None
  BY <1>3 DEF Loaded
<1>7. lattice' \in LatticeType
  BY <1>3, <1>4, <1>5 DEF Loaded, LatticeType
<1>8. QED  BY <1>1, <1>5, <1>6, <1>7, NoneAssumption

LEMMA DeadTypes ==
  ASSUME \A e \in agenda : e \in AgendaType
  PROVE  \A e \in Dead(agenda) : e \in AgendaType
BY DEF Dead, AgendaType

(* What is asked for is typed, whoever asks. *)
LEMMA AskType ==
  ASSUME NEW t \in Texts, NEW r \in RequestTypeSet, NEW th \in ThetaSet
  PROVE  Ask(t, r, th) \in AskedType /\ Ask(t, r, th) # None
<1>1. Analyzed(t, r) \in Texts
  BY TextsAssumption DEF Analyzed
<1>2. QED  BY <1>1, NoneAssumption DEF Ask, AskedType

LEMMA ServedType ==
  ASSUME asked \in AskedType
  PROVE  ServedOneMore \in AskedType /\ ServedOneMore # None
<1>1. QED  BY NoneAssumption DEF ServedOneMore, AskedType

(* A result is listed under its rank, or as the list of all morphs. *)
LEMMA ListedType ==
  ASSUME NEW t \in Texts, NEW k \in Nat, k <= Len(Results[t]), NEW l
  PROVE  Listed(t, k, l) \in ResultType /\ Listed(t, k, l) # None
<1>1. Len(Results[t]) \in Nat
  BY TextsAssumption
<1>2. QED  BY <1>1, NoneAssumption DEF Listed, ResultType

LEMMA ResultsLen ==
  ASSUME NEW t \in Texts
  PROVE  Len(Results[t]) \in Nat /\ (t \notin TooLong => 1 <= Len(Results[t]))
BY TextsAssumption

(* One more result of the agenda. *)
LEMMA AdvanceTypes ==
  ASSUME TypeOK, NEW e \in NextResult, Advance(e)
  PROVE  /\ \A f \in agenda' : f \in AgendaType
         /\ lattice' \in LatticeType /\ lattice'.result # None
         /\ lattice'.sentence = lattice.sentence
         /\ lattice'.request_type = lattice.request_type
<1>1. e \in AgendaType
  BY DEF TypeOK, NextResult, Best
<1>2. Listed(e.text, e.rank, lattice) \in ResultType /\ Listed(e.text, e.rank, lattice) # None
  <2>1. e.text \in Texts /\ e.rank \in Nat /\ e.rank <= Len(Results[e.text])
    BY <1>1 DEF AgendaType
  <2>2. QED  BY <2>1, ListedType
<1>3. QED  BY <1>2 DEF TypeOK, Advance, LatticeType

LEMMA InitTypes == Init => TypeOK
BY DEF Init, TypeOK, LatticeType, RequestTypeSet, ThetaSet

LEMMA SettingTypes ==
  ASSUME TypeOK, Setting
  PROVE  TypeOK'
<1>1. /\ UNCHANGED <<lattice, agenda, pc, asked>>
      /\ request_type' \in RequestTypes /\ theta' \in Thetas
  BY DEF TypeOK, Setting, SetRequestType, SetPartial, SetAllMorphs, SetLatticeLevel, SetTheta,
         Choose, Allowed
<1>2. QED  BY <1>1 DEF TypeOK

LEMMA TaggerParseTypes ==
  ASSUME IInv, TypeOK, NEW op, NEW t \in Texts, NEW n, NEW dest, TaggerParse(op, t, n, dest)
  PROVE  TypeOK'
<1> DEFINE l == InitRequestType(lattice)
           m == [l EXCEPT !.request_type = WithNBest(op, @)]
           r == WithNBest(op, request_type)
<1>1. /\ SetSentence(m, pool, t, Caller) /\ asked' = Ask(t, r, theta) /\ pc' = "initPartial"
      /\ UNCHANGED settings
  BY DEF TaggerParse
<1>2. r \in RequestTypeSet /\ theta \in ThetaSet
  BY DEF TypeOK, RequestTypeSet, ThetaSet, WithNBest
<1>3. m.request_type = r
  BY DEF TypeOK, LatticeType, InitRequestType
<1> HIDE DEF m, r
<1>4. /\ lattice' \in LatticeType /\ lattice'.sentence # None /\ lattice'.result = None
      /\ agenda' = Dead(agenda)
  BY <1>1, <1>2, <1>3, SetSentenceTypes, CallerRegions DEF IInv
<1>5. asked' \in AskedType /\ asked' # None
  BY <1>1, <1>2, AskType
<1>6. \A e \in agenda' : e \in AgendaType
  BY <1>4, DeadTypes DEF TypeOK
<1>7. QED  BY <1>1, <1>4, <1>5, <1>6 DEF TypeOK, settings

LEMMA CallNextTypes ==
  ASSUME TypeOK, NEW op, NEW dest, CallNext(op, dest)
  PROVE  TypeOK'
<1>1. /\ lattice.result # None /\ asked' = ServedOneMore /\ pc' \in {"idle", "write"}
      /\ UNCHANGED settings
  BY DEF CallNext, Searching, HasResult, Idle
<1>2. asked \in AskedType /\ lattice.sentence # None
  BY <1>1 DEF TypeOK
<1>3. asked' \in AskedType /\ asked' # None
  BY <1>1, <1>2, ServedType
<1>4. /\ \A f \in agenda' : f \in AgendaType
      /\ lattice' \in LatticeType /\ lattice'.result # None
      /\ lattice'.sentence = lattice.sentence
  <2>1. CASE HasNext
    <3>1. PICK e \in NextResult : Advance(e)
      BY <2>1 DEF CallNext
    <3>2. QED  BY <3>1, AdvanceTypes
  <2>2. CASE ~ HasNext
    BY <1>1, <2>2 DEF CallNext, TypeOK
  <2>3. QED  BY <2>1, <2>2
<1>5. QED  BY <1>1, <1>2, <1>3, <1>4 DEF TypeOK, settings

LEMMA ClientTypes ==
  ASSUME IInv, TypeOK, ClientCall
  PROVE  TypeOK'
<1>1. ASSUME NEW t \in Texts, ClientSetSentence(t) PROVE TypeOK'
  <2>1. /\ SetSentence(lattice, pool, t, Caller) /\ asked' = None /\ pc' = "idle"
        /\ UNCHANGED settings
    BY <1>1 DEF ClientSetSentence, Idle
  <2>2. /\ lattice' \in LatticeType /\ lattice'.sentence # None /\ lattice'.result = None
        /\ agenda' = Dead(agenda)
    BY <2>1, SetSentenceTypes, CallerRegions DEF IInv, TypeOK, LatticeType
  <2>3. QED  BY <2>1, <2>2, DeadTypes DEF TypeOK, settings
<1>2. CASE ClientClear
  <2>1. /\ lattice' \in LatticeType /\ lattice'.result = None /\ agenda' = Dead(agenda)
        /\ asked' = None /\ pc' = "idle" /\ UNCHANGED settings
    BY <1>2 DEF ClientClear, Idle, ClearedLattice, TypeOK, LatticeType, ThetaSet
  <2>2. QED  BY <2>1, DeadTypes DEF TypeOK, settings
<1>3. CASE ClientParse
  <2>1. /\ UNCHANGED <<settings, lattice, agenda>> /\ pc' = "initPartial"
        /\ lattice.sentence # None /\ lattice.result = None
        /\ asked' = Ask(lattice.sentence.text, lattice.request_type, lattice.theta)
    BY <1>3 DEF ClientParse
  <2>2. /\ lattice.sentence.text \in Texts /\ lattice.request_type \in RequestTypeSet
        /\ lattice.theta \in ThetaSet
    BY <2>1 DEF TypeOK, LatticeType, SentenceType
  <2>3. asked' \in AskedType /\ asked' # None
    BY <2>1, <2>2, AskType
  <2>4. QED  BY <2>1, <2>3 DEF TypeOK, settings
<1>4. CASE ClientSetRequestType
  <2>1. PICK r \in RequestTypes : lattice' = [lattice EXCEPT !.request_type = r]
    BY <1>4 DEF ClientSetRequestType
  <2>2. r \in RequestTypeSet
    BY DEF RequestTypeSet
  <2>3. /\ lattice' \in LatticeType /\ lattice'.result = lattice.result
        /\ lattice'.sentence = lattice.sentence
    BY <2>1, <2>2 DEF TypeOK, LatticeType
  <2>4. QED  BY <1>4, <2>3 DEF ClientSetRequestType, TypeOK, settings
<1>5. CASE ClientSetTheta
  <2>1. PICK th \in Thetas : lattice' = [lattice EXCEPT !.theta = th]
    BY <1>5 DEF ClientSetTheta
  <2>2. th \in ThetaSet
    BY DEF ThetaSet
  <2>3. /\ lattice' \in LatticeType /\ lattice'.result = lattice.result
        /\ lattice'.sentence = lattice.sentence
    BY <2>1, <2>2 DEF TypeOK, LatticeType
  <2>4. QED  BY <1>5, <2>3 DEF ClientSetTheta, TypeOK, settings
<1>6. ASSUME NEW dest, ClientToString(dest) PROVE TypeOK'
  BY <1>6 DEF ClientToString, HasResult, TypeOK, settings
<1>7. ASSUME NEW n, NEW dest, ClientEnumerate(n, dest) PROVE TypeOK'
  BY <1>7 DEF ClientEnumerate, Searching, HasResult, TypeOK, settings
<1>8. ASSUME NEW t \in Texts, NEW k \in 1..Len(Results[t]), ClientSetResult(t, k)
      PROVE  TypeOK'
  <2> DEFINE text == CopySize(Bytes(Rendered(t, k)))
             req == CopySize(Size[t])
  <2>1. PICK i \in FirstFit(pool, text) : \E j \in FirstFit(Take(pool, i, text), req) :
          SetSentence(lattice, Take(Take(pool, i, text), j, req), t,
                      Given(Take(pool, i, text), j, req))
    BY <1>8 DEF ClientSetResult
  <2> DEFINE p == Take(pool, i, text)
  <2>2. PoolInv(p)
    BY TakePoolInv, ResultRequest DEF IInv
  <2>3. PICK j \in FirstFit(p, req) : SetSentence(lattice, Take(p, j, req), t, Given(p, j, req))
    BY <2>1
  <2> HIDE DEF p
  <2>4. PoolInv(Take(p, j, req)) /\ Given(p, j, req) \in Region
    BY <2>2, TakePoolInv, TextRequest, GivenRegion
  <2>5. /\ lattice' \in LatticeType /\ lattice'.sentence # None /\ lattice'.result = None
        /\ agenda' = Dead(agenda)
    BY <2>3, <2>4, SetSentenceTypes DEF TypeOK, LatticeType
  <2>6. /\ asked' = [text |-> t, request_type |-> {}, theta |-> DefaultTheta, served |-> k]
        /\ pc' = "setResult" /\ UNCHANGED settings
    BY <1>8 DEF ClientSetResult
  <2>7. k \in Nat /\ {} \in RequestTypeSet /\ DefaultTheta \in ThetaSet
    BY ResultsLen DEF RequestTypeSet, ThetaSet
  <2>8. asked' \in AskedType /\ asked' # None
    <3>1. asked' \in AskedType
      BY <1>8, <2>6, <2>7 DEF AskedType
    <3>2. QED  BY <3>1, NoneAssumption
  <2>9. QED  BY <2>5, <2>6, <2>8, DeadTypes DEF TypeOK, settings
<1>9. QED
  BY <1>1, <1>2, <1>3, <1>4, <1>5, <1>6, <1>7, <1>8 DEF ClientCall

LEMMA WorkTypes ==
  ASSUME IInv, TypeOK, Work
  PROVE  TypeOK'
<1>1. CASE InitPartial
  <2>1. /\ UNCHANGED <<settings, asked>> /\ pc = "initPartial" /\ pc' = "analyze"
        /\ lattice.sentence # None /\ asked # None
    BY <1>1 DEF InitPartial, TypeOK
  <2>2. CASE "PARTIAL" \in lattice.request_type
    <3>1. Joined[lattice.sentence.text] \in Texts /\ lattice.request_type \in RequestTypeSet
      BY <2>1, TextsAssumption DEF TypeOK, LatticeType, SentenceType
    <3>2. /\ lattice' \in LatticeType /\ lattice'.sentence # None
          /\ agenda' = Dead(agenda)
      BY <1>1, <2>2, <3>1, SetSentenceTypes, CallerRegions DEF InitPartial, IInv
    <3>3. QED  BY <2>1, <3>2, DeadTypes DEF TypeOK, settings
  <2>3. CASE "PARTIAL" \notin lattice.request_type
    <3>1. UNCHANGED <<lattice, agenda>>
      BY <1>1, <2>3 DEF InitPartial
    <3>2. QED  BY <2>1, <3>1 DEF TypeOK, settings
  <2>4. QED  BY <2>2, <2>3
<1>2. CASE Analyze
  <2>1. /\ UNCHANGED <<settings, asked>> /\ pc = "analyze" /\ asked # None
        /\ pc' \in {"idle", "write", "enumerate"}
    BY <1>2 DEF Analyze, Use, TypeOK
  <2> DEFINE t == lattice.sentence.text
  <2>2. t \in Texts /\ lattice.sentence # None
    BY <2>1 DEF TypeOK, LatticeType, SentenceType
  <2>3. CASE t \in TooLong
    BY <1>2, <2>1, <2>2, <2>3 DEF Analyze, TypeOK, settings
  <2>4. CASE t \notin TooLong
    <3>1. Len(Results[t]) \in Nat /\ 1 <= Len(Results[t])
      BY <2>2, <2>4, ResultsLen
    <3>2. Listed(t, 1, lattice) \in ResultType /\ Listed(t, 1, lattice) # None
      BY <2>2, <3>1, ListedType
    <3>3. /\ lattice' \in LatticeType /\ lattice'.result # None
          /\ lattice'.sentence = lattice.sentence
      BY <1>2, <2>4, <3>2 DEF Analyze, TypeOK, LatticeType
    <3>4. \A e \in NewAgenda(lattice) : e \in AgendaType
      <4>1. ASSUME NEW k \in 1..Len(Results[t])
            PROVE  [text |-> t, rank |-> k, live |-> TRUE] \in AgendaType
        <5>1. k \in Nat \ {0} /\ k <= Len(Results[t])
          BY <3>1, <4>1
        <5>2. QED  BY <2>2, <5>1 DEF AgendaType
      <4>2. QED  BY <4>1 DEF NewAgenda
    <3>5. agenda' = NewAgenda(lattice) \/ agenda' = agenda
      BY <1>2, <2>4 DEF Analyze
    <3>6. \A e \in agenda' : e \in AgendaType
      BY <3>4, <3>5 DEF TypeOK
    <3>7. QED  BY <2>1, <2>2, <3>3, <3>6 DEF TypeOK, settings
  <2>5. QED  BY <2>3, <2>4
<1>3. CASE WriteOut \/ RefuseNumber \/ EndEnumeration
  <2>1. UNCHANGED <<settings, lattice, agenda, asked>> /\ pc' = "idle"
    BY <1>3 DEF WriteOut, RefuseNumber, EndEnumeration
  <2>2. pc # "idle"
    BY <1>3 DEF WriteOut, RefuseNumber, EndEnumeration
  <2>3. QED  BY <2>1, <2>2 DEF TypeOK, settings
<1>4. CASE Enumerate
  <2>1. /\ UNCHANGED settings /\ pc = "enumerate" /\ pc' = "enumerate" /\ asked' = ServedOneMore
        /\ asked \in AskedType /\ lattice.sentence # None
    BY <1>4 DEF Enumerate, TypeOK
  <2>2. asked' \in AskedType /\ asked' # None
    BY <2>1, ServedType
  <2>3. PICK e \in NextResult : Advance(e)
    BY <1>4 DEF Enumerate
  <2>4. /\ \A f \in agenda' : f \in AgendaType
        /\ lattice' \in LatticeType /\ lattice'.result # None
        /\ lattice'.sentence = lattice.sentence
    BY <2>3, AdvanceTypes
  <2>5. QED  BY <2>1, <2>2, <2>4 DEF TypeOK, settings
<1>5. CASE CopyFeature
  <2>1. /\ UNCHANGED <<settings, agenda, pc, asked>> /\ pc = "setResult"
        /\ \E region : lattice' = Overwritten(lattice, region)
        /\ lattice.sentence # None /\ asked # None
    BY <1>5 DEF CopyFeature, TypeOK
  <2>2. PICK region : lattice' = Overwritten(lattice, region)
    BY <2>1
  <2>3. /\ lattice.sentence \in SentenceType
    BY <2>1 DEF TypeOK, LatticeType
  <2>4. [lattice.sentence EXCEPT !.intact = @ /\ ~ Overlap(lattice.sentence.at, region)] \in SentenceType
    BY <2>3 DEF SentenceType
  <2>5. lattice' = [lattice EXCEPT !.sentence =
          [lattice.sentence EXCEPT !.intact = @ /\ ~ Overlap(lattice.sentence.at, region)]]
    BY <2>2 DEF Overwritten
  <2>6. /\ lattice' \in LatticeType /\ lattice'.result = lattice.result
        /\ lattice'.sentence \in SentenceType
    <3> DEFINE new == [lattice.sentence EXCEPT !.intact = @ /\ ~ Overlap(lattice.sentence.at, region)]
    <3> HIDE DEF new
    <3>1. new \in SentenceType /\ lattice' = [lattice EXCEPT !.sentence = new]
      BY <2>4, <2>5 DEF new
    <3>2. QED  BY <3>1 DEF TypeOK, LatticeType
  <2>7. lattice'.sentence # None
    BY <2>6, NoneAssumption
  <2>8. QED  BY <2>1, <2>6, <2>7 DEF TypeOK, settings
<1>6. CASE EndSetResult
  <2>1. /\ UNCHANGED <<settings, agenda, asked>> /\ pc = "setResult" /\ pc' = "idle"
        /\ lattice' = [lattice EXCEPT !.result = [text |-> asked.text, rank |-> call.n]]
        /\ lattice.sentence # None /\ asked # None
    BY <1>6 DEF EndSetResult, TypeOK
  <2>2. asked.text \in Texts /\ call.n \in 1..Len(Results[asked.text])
    BY <2>1 DEF IInv, ResultKnown
  <2>3. call.n \in Nat /\ call.n <= Len(Results[asked.text])
    BY <2>2, ResultsLen
  <2>4. [text |-> asked.text, rank |-> call.n] \in ResultType
    BY <2>2, <2>3 DEF ResultType
  <2>5. lattice' \in LatticeType /\ lattice'.sentence = lattice.sentence
    BY <2>1, <2>4 DEF TypeOK, LatticeType
  <2>6. QED  BY <2>1, <2>5 DEF TypeOK, settings
<1>7. QED  BY <1>1, <1>2, <1>3, <1>4, <1>5, <1>6 DEF Work

LEMMA NextTypes ==
  ASSUME IInv, TypeOK, [Next]_vars
  PROVE  TypeOK'
<1>1. CASE TaggerCall
  BY <1>1, TaggerParseTypes, CallNextTypes DEF TaggerCall, TaggerNext
<1>2. CASE NextNode
  BY <1>2, CallNextTypes DEF NextNode
<1>3. ASSUME NEW dest, FormatNode(dest) PROVE TypeOK'
  BY <1>3 DEF FormatNode, HasResult, Idle, TypeOK, settings
<1>4. CASE UNCHANGED vars
  BY <1>4 DEF vars, settings, TypeOK
<1>5. QED
  BY <1>1, <1>2, <1>3, <1>4, SettingTypes, ClientTypes, WorkTypes DEF Next

(* For all texts, settings and sequences of calls: between calls and       *)
(* inside them a lattice holds what its readers take for granted, a        *)
(* sentence under every result, and a result wherever one is written out   *)
(* (tagger.cpp:567 to 872).                                                *)
THEOREM SessionTypes == Spec => []TypeOK
<1>1. QED  BY InitTypes, NextTypes, PoolInvariant, PTL DEF Spec

-----------------------------------------------------------------------------
(* Where the text of a lattice lies.  A set_result that is not to store    *)
(* the sentence leaves it in a pool that has been freed: there it survives *)
(* because it was cut from a longer text in front of it, and the chunk of  *)
(* that text has room for everything that is copied afterwards.            *)

TextSize(t, k) == CopySize(Bytes(Rendered(t, k)))

IsCopied(t, k, c) ==
  /\ c \in [0..Len(Results[t][k]) -> 0..TextSize(t, k) - 1]
  /\ c[0] = 0
  /\ \A i \in 1..Len(Results[t][k]) : c[i] = c[i - 1] + CopySize(Results[t][k][i].feature)

\* the bytes of the features of the first i words of result k of t
Copied(t, k) == CHOOSE c : IsCopied(t, k, c)

\* behind the first n bytes of chunk g
Beyond(at, g, n) == at.chunk > g \/ (at.chunk = g /\ at.from >= n)

SentenceSafe ==
  lattice.sentence # None =>
    /\ lattice.sentence.intact
    /\ lattice.sentence.at.chunk >= 0
    /\ owner = "tagger" /\ "ALLOCATE_SENTENCE" \in lattice.request_type =>
         lattice.sentence.at.chunk >= 1

\* while features are copied into the pool
CopyingSafe ==
  pc = "setResult" =>
    /\ owner = "client" /\ Joined[asked.text] = asked.text
    /\ \/ lattice.sentence.at \in pool.allocated
       \/ /\ pool.pi <= Copied(asked.text, call.n)[call.i]
          /\ \E g \in pool.li .. Len(pool.freelist) :
               /\ pool.freelist[g] >= TextSize(asked.text, call.n)
               /\ Beyond(lattice.sentence.at, g, TextSize(asked.text, call.n))

TextInv == SentenceSafe /\ CopyingSafe

(* What the features of a result take is known, and less than its text. *)
LEMMA CopiedSums ==
  ASSUME NEW t \in Texts, Joined[t] = t, NEW k \in 1..Len(Results[t])
  PROVE  CopySize(Size[t]) < TextSize(t, k) /\ IsCopied(t, k, Copied(t, k))
<1>1. /\ CopySize(Size[t]) < TextSize(t, k)
      /\ \E c \in [0..Len(Results[t][k]) -> 0..TextSize(t, k) - 1] : IsCopied(t, k, c)
  BY ResultTextAssumption DEF TextSize, IsCopied
<1>2. QED  BY <1>1 DEF Copied

(* alloc does not go past a chunk with room. *)
LEMMA FitsBefore ==
  ASSUME NEW p, Sound(p), NEW req \in Nat, NEW i \in FirstFit(p, req),
         NEW g \in p.li .. Len(p.freelist), Fits(p, g, req)
  PROVE  i \in p.li .. g /\ i \in 1 .. Len(p.freelist) /\ Take(p, i, req).freelist = p.freelist
<1>1. p.li \in Nat \ {0} /\ Len(p.freelist) \in Nat
  BY DEF Sound, Pool
<1>2. i \in p.li .. Len(p.freelist) + 1 /\ \A j \in p.li .. i - 1 : ~ Fits(p, j, req)
  BY DEF FirstFit
<1>3. i <= g
  <2>1. SUFFICES ASSUME i > g PROVE FALSE
    BY <1>1, <1>2
  <2>2. g \in p.li .. i - 1
    BY <1>1, <1>2, <2>1
  <2>3. QED  BY <1>2, <2>2
<1>4. i \in p.li .. g /\ i \in 1 .. Len(p.freelist)
  BY <1>1, <1>2, <1>3
<1>5. QED  BY <1>1, <1>4 DEF Take

(* set_sentence leaves the text where it was, or copies it to a place that *)
(* does not meet the one it is copied from: it stays in front of that.     *)
LEMMA SetSentenceAt ==
  ASSUME NEW l, NEW p, PoolInv(p), NEW t \in Texts, NEW src \in Region,
         SetSentence(l, p, t, src),
         \/ src.chunk <= 0
         \/ \E g \in 1 .. Len(p.freelist) :
              p.freelist[g] > CopySize(Size[t]) /\ Beyond(src, g, CopySize(Size[t]))
  PROVE  /\ lattice'.sentence.intact /\ lattice'.request_type = l.request_type
         /\ IF Stored(l.request_type)
            THEN lattice'.sentence.at.chunk \in Nat \ {0} /\ lattice'.sentence.at \in pool'.allocated
            ELSE lattice'.sentence.at = src /\ pool' = Free(p)
<1> DEFINE req == CopySize(Size[t])
           free == Free(p)
<1>1. req \in Nat
  BY TextRequest
<1>2. ASSUME NEW at, lattice' = Loaded(l, t, at, src)
      PROVE  /\ lattice'.sentence.intact = (at = src \/ ~ Overlap(at, src))
             /\ lattice'.sentence.at = at /\ lattice'.request_type = l.request_type
  BY <1>2 DEF Loaded
<1>3. CASE Stored(l.request_type)
  <2>1. PICK i \in FirstFit(free, req) :
          pool' = Take(free, i, req) /\ lattice' = Loaded(l, t, Given(free, i, req), src)
    BY <1>3 DEF SetSentence
  <2>2. PICK at : at = Given(free, i, req)
    OBVIOUS
  <2>3. /\ Sound(free) /\ free.li = 1 /\ free.pi = 0 /\ free.freelist = p.freelist
    BY FreePoolInv DEF PoolInv, Free
  <2>4. at \in pool'.allocated
    BY <2>1, <2>2 DEF Take
  <2> HIDE DEF req, free
  <2>5. /\ i \in Nat \ {0} /\ Len(p.freelist) \in Nat
        /\ at = [chunk |-> i, from |-> 0, size |-> req]
    BY <2>1, <2>2, <2>3 DEF Given, Start, FirstFit, Sound, Pool
  <2>6. ~ Overlap(at, src)
    <3>1. CASE src.chunk <= 0
      BY <2>5, <3>1 DEF Overlap, Region
    <3>2. CASE src.chunk > 0
      <4>1. PICK g \in 1 .. Len(p.freelist) : p.freelist[g] > req /\ Beyond(src, g, req)
        BY <3>2 DEF Region, req
      <4>2. Fits(free, g, req)
        BY <1>1, <2>3, <4>1 DEF Fits, Start
      <4>3. i <= g
        <5>1. g \in free.li .. Len(free.freelist)
          BY <2>3, <4>1
        <5>2. i \in free.li .. g
          BY <1>1, <2>1, <2>3, <4>2, <5>1, FitsBefore
        <5>3. QED  BY <2>3, <5>2
      <4>4. QED  BY <1>1, <2>5, <4>1, <4>3 DEF Overlap, Beyond, Region
    <3>3. QED  BY <3>1, <3>2 DEF Region
  <2>7. lattice' = Loaded(l, t, at, src)
    BY <2>1, <2>2
  <2>8. /\ lattice'.sentence.intact /\ lattice'.request_type = l.request_type
        /\ lattice'.sentence.at = at
    BY <1>2, <2>6, <2>7
  <2>9. at.chunk \in Nat \ {0}
    BY <2>5
  <2>10. QED  BY <1>3, <2>4, <2>8, <2>9
<1>4. CASE ~ Stored(l.request_type)
  <2>1. pool' = Free(p) /\ lattice' = Loaded(l, t, src, src)
    BY <1>4 DEF SetSentence
  <2>2. QED  BY <1>2, <1>4, <2>1
<1>5. QED  BY <1>3, <1>4

(* A step that moves no text. *)
LEMMA StillInv ==
  ASSUME TextInv, UNCHANGED owner, lattice'.sentence = lattice.sentence,
         owner = "client" \/ lattice'.request_type = lattice.request_type,
         pc' # "setResult"
  PROVE  TextInv'
BY DEF TextInv, SentenceSafe, CopyingSafe

LEMMA TextTaggerParse ==
  ASSUME IInv, TypeOK, NEW op, NEW t \in Texts, NEW n, NEW dest, TaggerParse(op, t, n, dest)
  PROVE  TextInv'
<1> DEFINE l == InitRequestType(lattice)
           m == [l EXCEPT !.request_type = WithNBest(op, @)]
<1>1. /\ SetSentence(m, pool, t, Caller) /\ pc' = "initPartial" /\ PoolInv(pool)
  BY DEF TaggerParse, IInv
<1> HIDE DEF m
<1>2. Caller \in Region /\ Caller.chunk = 0
  BY CallerRegions DEF Caller
<1>3. /\ lattice'.sentence.intact /\ lattice'.request_type = m.request_type
      /\ IF Stored(m.request_type)
         THEN lattice'.sentence.at.chunk \in Nat \ {0}
         ELSE lattice'.sentence.at = Caller
  BY <1>1, <1>2, SetSentenceAt
<1>4. "ALLOCATE_SENTENCE" \in lattice'.request_type => Stored(m.request_type)
  BY <1>3 DEF Stored
<1>5. QED  BY <1>1, <1>2, <1>3, <1>4 DEF TextInv, SentenceSafe, CopyingSafe

LEMMA TextClientSetSentence ==
  ASSUME IInv, NEW t \in Texts, ClientSetSentence(t)
  PROVE  TextInv'
<1>1. /\ SetSentence(lattice, pool, t, Caller) /\ pc' = "idle" /\ PoolInv(pool)
      /\ owner' = "client"
  BY DEF ClientSetSentence, IInv, Idle, settings
<1>2. Caller \in Region /\ Caller.chunk = 0
  BY CallerRegions DEF Caller
<1>3. /\ lattice'.sentence.intact
      /\ IF Stored(lattice.request_type)
         THEN lattice'.sentence.at.chunk \in Nat \ {0}
         ELSE lattice'.sentence.at = Caller
  BY <1>1, <1>2, SetSentenceAt
<1>4. QED  BY <1>1, <1>2, <1>3 DEF TextInv, SentenceSafe, CopyingSafe

(* set_result takes the text of the result first, so that the sentence cut *)
(* from it lies behind.                                                    *)
LEMMA TextClientSetResult ==
  ASSUME IInv, NEW t \in Texts, NEW k \in 1..Len(Results[t]), ClientSetResult(t, k)
  PROVE  TextInv'
<1> DEFINE text == TextSize(t, k)
           req == CopySize(Size[t])
<1>1. text \in Nat /\ req \in Nat /\ PoolInv(pool)
  BY ResultRequest, TextRequest DEF TextSize, IInv
<1>2. /\ Joined[t] = t /\ owner' = "client" /\ pc' = "setResult"
      /\ asked'.text = t /\ call'.n = k /\ call'.i = 0
  BY DEF ClientSetResult, settings, NoCall
<1>3. req < text /\ Copied(t, k)[0] = 0
  BY <1>2, CopiedSums DEF IsCopied
<1>4. PICK i \in FirstFit(pool, text) : \E j \in FirstFit(Take(pool, i, text), req) :
        SetSentence(lattice, Take(Take(pool, i, text), j, req), t,
                    Given(Take(pool, i, text), j, req))
  BY DEF ClientSetResult, TextSize
<1> DEFINE p == Take(pool, i, text)
<1>5. PICK j \in FirstFit(p, req) : SetSentence(lattice, Take(p, j, req), t, Given(p, j, req))
  BY <1>4
<1>6. /\ PoolInv(p) /\ Sound(p) /\ p.li = i /\ p.pi = Start(pool, i) + text
      /\ i \in Nat \ {0} /\ Start(pool, i) \in Nat
  <2>1. PoolInv(p) /\ Sound(p)
    BY <1>1, TakePoolInv DEF PoolInv
  <2>2. pool \in Pool
    BY <1>1 DEF PoolInv, Sound
  <2>3. QED  BY <1>1, <2>1, <2>2 DEF Take, FirstFit, Start, Pool
\* the chunk of the text
<1>7. i \in 1 .. Len(p.freelist) /\ p.freelist[i] >= text /\ p.freelist[i] \in Nat
  <2>1. PICK new : new = Given(pool, i, text)
    OBVIOUS
  <2>2. new \in p.allocated /\ new.chunk = i /\ new.from = Start(pool, i) /\ new.size = text
    BY <1>1, <2>1, TakeApart DEF PoolInv
  <2> HIDE DEF p, text
  <2>3. i \in 1 .. Len(p.freelist) /\ Start(pool, i) + text <= p.freelist[i]
    BY <1>6, <2>2 DEF Sound, Inside
  <2>4. p.freelist \in Seq(Nat)
    BY <1>6 DEF Sound, Pool
  <2>5. QED  BY <1>1, <1>6, <2>3, <2>4
<1> HIDE DEF p, text, req
<1>8. PICK src : src = Given(p, j, req)
  OBVIOUS
<1>9. src \in Region /\ src.chunk = j /\ src.from = Start(p, j)
  <2>1. /\ Given(p, j, req) \in Region /\ Given(p, j, req).chunk = j
        /\ Given(p, j, req).from = Start(p, j)
    BY <1>1, <1>5, <1>6, TakeApart
  <2>2. QED  BY <1>8, <2>1
<1>10. j \in Nat /\ i <= j
  BY <1>5, <1>6 DEF FirstFit, Sound, Pool
<1>11. Beyond(src, i, text) /\ Beyond(src, i, req)
  <2>1. CASE j = i
    BY <1>1, <1>3, <1>6, <1>9, <2>1 DEF Beyond, Start
  <2>2. CASE j # i
    BY <1>6, <1>9, <1>10, <2>2 DEF Beyond
  <2>3. QED  BY <2>1, <2>2
<1>12. PICK q : q = Take(p, j, req)
  OBVIOUS
<1>13. /\ PoolInv(q) /\ Len(q.freelist) \in Nat
       /\ i \in 1 .. Len(q.freelist) /\ q.freelist[i] = p.freelist[i]
  <2>1. PoolInv(q)
    BY <1>1, <1>5, <1>6, <1>12, TakePoolInv
  <2>2. q.freelist = IF j > Len(p.freelist)
                     THEN Append(p.freelist, Bigger(req, DefaultSize)) ELSE p.freelist
    BY <1>12 DEF Take
  <2>3. p.freelist \in Seq(Nat) /\ Bigger(req, DefaultSize) \in Nat
    BY <1>1, <1>6, ChunkSizes DEF Sound, Pool, Bigger
  <2>4. QED  BY <1>7, <2>1, <2>2, <2>3
<1>14. SetSentence(lattice, q, t, src)
  BY <1>5, <1>8, <1>12
<1>15. /\ lattice'.sentence.intact
       /\ IF Stored(lattice.request_type)
          THEN lattice'.sentence.at.chunk \in Nat \ {0} /\ lattice'.sentence.at \in pool'.allocated
          ELSE lattice'.sentence.at = src /\ pool' = Free(q)
  <2>1. q.freelist[i] > CopySize(Size[t]) /\ Beyond(src, i, CopySize(Size[t]))
    BY <1>1, <1>3, <1>7, <1>11, <1>13 DEF req
  <2>2. \E g \in 1 .. Len(q.freelist) :
          q.freelist[g] > CopySize(Size[t]) /\ Beyond(src, g, CopySize(Size[t]))
    BY <1>13, <2>1
  <2>3. QED  BY <1>9, <1>13, <1>14, <2>2, SetSentenceAt
<1>16. Free(q).li = 1 /\ Free(q).pi = 0 /\ Free(q).freelist = q.freelist
  BY DEF Free
<1>17. SentenceSafe'
  BY <1>2, <1>9, <1>10, <1>15 DEF SentenceSafe
<1>18. CopyingSafe'
  <2>1. CASE Stored(lattice.request_type)
    BY <1>2, <1>15, <2>1 DEF CopyingSafe
  <2>2. CASE ~ Stored(lattice.request_type)
    <3>1. lattice'.sentence.at = src /\ pool' = Free(q)
      BY <1>15, <2>2
    <3>2. /\ pool'.pi <= Copied(asked'.text, call'.n)[call'.i]
          /\ i \in pool'.li .. Len(pool'.freelist)
          /\ pool'.freelist[i] >= TextSize(asked'.text, call'.n)
          /\ Beyond(lattice'.sentence.at, i, TextSize(asked'.text, call'.n))
      BY <1>2, <1>3, <1>7, <1>11, <1>13, <1>16, <3>1 DEF text
    <3>3. QED  BY <1>2, <3>2 DEF CopyingSafe
  <2>3. QED  BY <2>1, <2>2
<1>19. QED  BY <1>17, <1>18 DEF TextInv

LEMMA TextClientCall ==
  ASSUME IInv, TypeOK, TextInv, ClientCall
  PROVE  TextInv'
<1>1. CASE ClientClear
  <2>1. lattice'.sentence = None /\ pc' = "idle"
    BY <1>1 DEF ClientClear, ClearedLattice, Idle
  <2>2. QED  BY <2>1 DEF TextInv, SentenceSafe, CopyingSafe
<1>2. CASE ClientParse
  BY <1>2, StillInv DEF ClientParse, settings
<1>3. CASE ClientSetRequestType \/ ClientSetTheta
  <2>1. UNCHANGED owner /\ owner = "client" /\ pc' = "idle"
    BY <1>3 DEF ClientSetRequestType, ClientSetTheta, Idle, settings
  <2>2. lattice'.sentence = lattice.sentence
    BY <1>3 DEF ClientSetRequestType, ClientSetTheta, TypeOK, LatticeType
  <2>3. QED  BY <2>1, <2>2, StillInv
<1>4. ASSUME NEW dest, ClientToString(dest) PROVE TextInv'
  BY <1>4, StillInv DEF ClientToString, settings
<1>5. ASSUME NEW n, NEW dest, ClientEnumerate(n, dest) PROVE TextInv'
  BY <1>5, StillInv DEF ClientEnumerate, settings
<1>6. QED
  BY <1>1, <1>2, <1>3, <1>4, <1>5, TextClientSetSentence, TextClientSetResult DEF ClientCall

LEMMA TextCopyFeature ==
  ASSUME IInv, TypeOK, TextInv, CopyFeature
  PROVE  TextInv'
<1> DEFINE t == asked.text
           k == call.n
           words == Results[t][k]
           req == CopySize(words[call.i + 1].feature)
           at == lattice.sentence.at
<1>1. /\ pc = "setResult" /\ pc' = "setResult" /\ asked' = asked /\ UNCHANGED owner
      /\ call.i < Len(words) /\ call' = [call EXCEPT !.i = @ + 1]
  BY DEF CopyFeature, settings
<1>2. /\ t \in Texts /\ IsCall(call) /\ call.i \in Nat /\ k \in 1..Len(Results[t])
      /\ PoolInv(pool) /\ lattice.sentence # None
  BY <1>1 DEF IInv, ResultKnown, TypeOK
<1>3. call'.i = call.i + 1 /\ call'.n = k
  BY <1>1, <1>2 DEF IsCall
<1>4. lattice.sentence \in SentenceType /\ lattice \in LatticeType /\ at \in Region
  BY <1>2 DEF TypeOK, LatticeType, SentenceType
<1>5. req \in Nat
  BY <1>1, <1>2, FeatureRequest
<1>6. PICK i \in FirstFit(pool, req) :
        pool' = Take(pool, i, req) /\ lattice' = Overwritten(lattice, Given(pool, i, req))
  BY DEF CopyFeature
<1>7. PICK new : new = Given(pool, i, req)
  OBVIOUS
<1>8. /\ lattice'.sentence.at = at /\ lattice'.request_type = lattice.request_type
      /\ lattice'.sentence.intact = (lattice.sentence.intact /\ ~ Overlap(at, new))
  BY <1>4, <1>6, <1>7 DEF Overwritten, LatticeType, SentenceType
<1>9. owner = "client" /\ Joined[t] = t /\ lattice.sentence.intact /\ at.chunk >= 0
  BY <1>1, <1>2 DEF TextInv, SentenceSafe, CopyingSafe
<1>10. CASE at \in pool.allocated
  <2>1. ~ Overlap(at, new) /\ at \in pool'.allocated
    <3>1. ~ Overlap(at, new)
      BY <1>2, <1>5, <1>6, <1>7, <1>10, TakeApart, ZenonT(30) DEF PoolInv
    <3>2. pool'.allocated = pool.allocated \union {new}
      BY <1>6, <1>7 DEF Take
    <3>3. QED  BY <1>10, <3>1, <3>2
  <2>2. QED  BY <1>1, <1>8, <1>9, <2>1 DEF TextInv, SentenceSafe, CopyingSafe
<1>11. CASE at \notin pool.allocated
  <2>1. /\ pool.pi <= Copied(t, k)[call.i]
        /\ \E g \in pool.li .. Len(pool.freelist) :
             pool.freelist[g] >= TextSize(t, k) /\ Beyond(at, g, TextSize(t, k))
    BY <1>1, <1>11 DEF TextInv, CopyingSafe
  <2>2. PICK copied : copied = Copied(t, k)
    OBVIOUS
  <2>3. IsCopied(t, k, copied)
    BY <1>2, <1>9, <2>2, CopiedSums
  <2>4. PICK text : text = TextSize(t, k)
    OBVIOUS
  <2>5. text \in Nat
    BY <1>2, <2>4, ResultRequest DEF TextSize
  <2>6. Len(words) \in Nat
    BY <1>2, TextsAssumption
  <2>7. /\ call.i + 1 \in 1..Len(words) /\ call.i + 1 - 1 = call.i
        /\ call.i \in 0..Len(words) /\ call.i + 1 \in 0..Len(words)
    <3> HIDE DEF words
    <3>1. QED  BY <1>1, <1>2, <2>6
  <2>8. copied[call.i + 1] = copied[call.i] + req
    <3>1. \A j \in 1..Len(Results[t][k]) :
            copied[j] = copied[j - 1] + CopySize(Results[t][k][j].feature)
      BY <2>3 DEF IsCopied
    <3>2. PICK m : m = call.i + 1
      OBVIOUS
    <3>3. m \in 1..Len(Results[t][k]) /\ m - 1 = call.i
      BY <2>7, <3>2
    <3>4. copied[m] = copied[m - 1] + CopySize(Results[t][k][m].feature)
      BY <3>1, <3>3, Zenon
    <3>5. QED  BY <3>2, <3>3, <3>4
  <2>9. copied[call.i] \in 0..text - 1 /\ copied[call.i + 1] \in 0..text - 1
    BY <2>3, <2>4, <2>7 DEF IsCopied
  <2> HIDE DEF t, k, words, req, at
  <2>10. pool.pi \in Nat /\ pool.pi + req <= copied[call.i + 1] /\ pool.pi + req < text
    <3>1. pool.pi \in Nat
      BY <1>2 DEF PoolInv, Sound, Pool
    <3>2. QED  BY <1>5, <2>1, <2>2, <2>5, <2>8, <2>9, <3>1
  <2>11. PICK g \in pool.li .. Len(pool.freelist) : pool.freelist[g] >= text /\ Beyond(at, g, text)
    BY <2>1, <2>4
  <2>12. /\ Sound(pool) /\ pool \in Pool /\ Len(pool.freelist) \in Nat /\ pool.li \in Nat \ {0}
         /\ g \in Nat /\ pool.freelist[g] \in Nat
    BY <1>2, <2>11 DEF PoolInv, Sound, Pool
  <2>13. Start(pool, g) + req < text /\ Start(pool, i) + req < text /\ Start(pool, i) <= pool.pi
         /\ Start(pool, i) \in Nat
    BY <1>5, <2>5, <2>10 DEF Start
  <2>14. Fits(pool, g, req)
    BY <1>5, <2>5, <2>10, <2>11, <2>12 DEF Fits, Start
  <2>15. i \in pool.li .. g /\ Take(pool, i, req).freelist = pool.freelist
    BY <1>5, <1>6, <2>11, <2>12, <2>14, FitsBefore
  <2>16. pool'.li = i /\ pool'.pi = Start(pool, i) + req /\ pool'.freelist = pool.freelist
    BY <1>6, <2>15 DEF Take
  <2>17. new = [chunk |-> i, from |-> Start(pool, i), size |-> req]
    BY <1>7 DEF Given
  <2>18. ~ Overlap(at, new)
    BY <1>4, <1>5, <2>5, <2>11, <2>12, <2>13, <2>15, <2>17 DEF Overlap, Beyond, Region
  <2>19. SentenceSafe'
    BY <1>1, <1>8, <1>9, <2>18 DEF SentenceSafe
  <2>20. CopyingSafe'
    <3>1. pool'.pi <= Copied(t, k)[call.i + 1]
      BY <1>5, <2>2, <2>9, <2>10, <2>13, <2>16
    <3>2. g \in pool'.li .. Len(pool'.freelist) /\ pool'.freelist[g] >= TextSize(t, k)
          /\ Beyond(at, g, TextSize(t, k))
      BY <2>4, <2>11, <2>12, <2>15, <2>16
    <3>3. QED  BY <1>1, <1>3, <1>8, <1>9, <3>1, <3>2 DEF CopyingSafe, t, k
  <2>21. QED  BY <2>19, <2>20 DEF TextInv
<1>12. QED  BY <1>10, <1>11

LEMMA TextWork ==
  ASSUME IInv, TypeOK, TextInv, Work
  PROVE  TextInv'
<1>1. CASE InitPartial
  <2>1. UNCHANGED owner /\ pc = "initPartial" /\ pc' = "analyze" /\ lattice.sentence # None
    BY <1>1 DEF InitPartial, settings, TypeOK
  <2>2. CASE "PARTIAL" \in lattice.request_type
    <3>1. PICK t \in Texts : SetSentence(lattice, pool, t, LocalBuffer)
      BY <1>1, <2>1, <2>2, TextsAssumption DEF InitPartial, TypeOK, LatticeType, SentenceType
    <3>2. LocalBuffer \in Region /\ LocalBuffer.chunk <= 0 /\ Stored(lattice.request_type)
      BY <2>2, CallerRegions DEF LocalBuffer, Stored
    <3>3. lattice'.sentence.intact /\ lattice'.sentence.at.chunk \in Nat \ {0}
      BY <3>1, <3>2, SetSentenceAt DEF IInv
    <3>4. QED  BY <2>1, <3>3 DEF TextInv, SentenceSafe, CopyingSafe
  <2>3. CASE "PARTIAL" \notin lattice.request_type
    BY <1>1, <2>1, <2>3, StillInv DEF InitPartial
  <2>4. QED  BY <2>2, <2>3
<1>2. CASE Analyze
  <2>1. UNCHANGED owner /\ pc' \in {"idle", "write", "enumerate"}
    BY <1>2 DEF Analyze, Use, settings
  <2>2. lattice'.sentence = lattice.sentence /\ lattice'.request_type = lattice.request_type
    BY <1>2 DEF Analyze, TypeOK, LatticeType
  <2>3. QED  BY <2>1, <2>2, StillInv
<1>3. CASE WriteOut \/ RefuseNumber \/ EndEnumeration
  BY <1>3, StillInv DEF WriteOut, RefuseNumber, EndEnumeration, settings
<1>4. CASE Enumerate
  <2>1. UNCHANGED owner /\ pc' = "enumerate"
    BY <1>4 DEF Enumerate, settings
  <2>2. lattice'.sentence = lattice.sentence /\ lattice'.request_type = lattice.request_type
    BY <1>4, AdvanceTypes DEF Enumerate
  <2>3. QED  BY <2>1, <2>2, StillInv
<1>5. CASE EndSetResult
  <2>1. UNCHANGED owner /\ pc' = "idle"
    BY <1>5 DEF EndSetResult, settings
  <2>2. lattice'.sentence = lattice.sentence /\ lattice'.request_type = lattice.request_type
    BY <1>5 DEF EndSetResult, TypeOK, LatticeType
  <2>3. QED  BY <2>1, <2>2, StillInv
<1>6. QED  BY <1>1, <1>2, <1>3, <1>4, <1>5, TextCopyFeature DEF Work

LEMMA NextTextInv ==
  ASSUME IInv, TypeOK, TextInv, [Next]_vars
  PROVE  TextInv'
<1>1. CASE Setting
  BY <1>1, StillInv DEF Setting, SetRequestType, SetPartial, SetAllMorphs, SetLatticeLevel,
     SetTheta, Choose, Idle
<1>2. ASSUME NEW op, NEW dest, CallNext(op, dest) PROVE TextInv'
  <2>1. UNCHANGED owner /\ pc' \in {"idle", "write"}
    BY <1>2 DEF CallNext, Searching, HasResult, Idle, settings
  <2>2. lattice'.sentence = lattice.sentence /\ lattice'.request_type = lattice.request_type
    <3>1. CASE HasNext
      BY <1>2, <3>1, AdvanceTypes DEF CallNext
    <3>2. CASE ~ HasNext
      BY <1>2, <3>2 DEF CallNext
    <3>3. QED  BY <3>1, <3>2
  <2>3. QED  BY <2>1, <2>2, StillInv
<1>3. CASE TaggerCall \/ NextNode
  BY <1>2, <1>3, TextTaggerParse DEF TaggerCall, TaggerNext, NextNode
<1>4. ASSUME NEW dest, FormatNode(dest) PROVE TextInv'
  BY <1>4, StillInv DEF FormatNode, HasResult, Idle, settings
<1>5. CASE UNCHANGED vars
  BY <1>5 DEF vars, settings, TextInv, SentenceSafe, CopyingSafe
<1>6. QED
  BY <1>1, <1>3, <1>4, <1>5, TextClientCall, TextWork DEF Next

LEMMA TextInvariant == Spec => []TextInv
<1>1. Init => TextInv
  BY DEF Init, TextInv, SentenceSafe, CopyingSafe
<1>2. QED  BY <1>1, NextTextInv, PoolInvariant, SessionTypes, PTL DEF Spec

(* For all texts, sizes and settings, and every sequence of calls: the     *)
(* text under the nodes of a finished call is the caller's own or one in   *)
(* the pool that nothing has been written over, even where set_result      *)
(* leaves it in memory that has been freed (tagger.cpp:798 to 872), and a  *)
(* tagger's ALLOCATE_SENTENCE has copied it.                               *)
THEOREM TextSurvives == Spec => []TextIntact
<1>1. TextInv => TextIntact
  BY DEF TextInv, SentenceSafe, TextIntact, Caller, LocalBuffer
<1>2. QED  BY <1>1, TextInvariant, PTL

-----------------------------------------------------------------------------
(* What a finished call answers. *)

ResultShown == lattice.result = [text |-> asked.text, rank |-> Shown(LastShown)]

\* what the caller has not been through, in the agenda of the search
Remaining == { [text |-> asked.text, rank |-> k, live |-> TRUE] : k \in asked.served + 1 .. Count }

SearchOpen == lattice.result # None /\ used # None /\ "NBEST" \in used.request_type

ResultInv ==
  lattice.result # None =>
    /\ pc \notin {"initPartial", "analyze", "setResult"} /\ ResultShown
    /\ used # None => asked.text \notin TooLong /\ lattice.request_type = asked.request_type

AnalysisInv ==
  /\ call.op \in {"parse", "parseToNode", "parseNBestInit", "parseNBest", "parseLattice"}
  /\ call.served = 0 /\ call.i = 0 /\ asked.served = 0

WriteInv ==
  /\ call.op \in {"parse", "next", "toString"}
  /\ call.op = "parse" => asked.served = 0
  /\ call.op = "next" => asked.served \in 1..Count

\* the texts of the results so far are in the buffer, while there is room
EnumerationInv ==
  /\ call.op \in {"parseNBest", "enumNBest"} /\ SearchOpen
  /\ call.i \in Nat /\ call.served \in Nat /\ asked.served = call.served + call.i
  /\ call.i > 0 => call.n \in 1..NBestMax /\ call.i <= call.n /\ asked.served <= Count
  /\ Holds(call.os, call.dest, Enumeration(call.served, call.i))

CallInv ==
  /\ IsCall(call) /\ call.dest \in Dests
  /\ pc \in {"initPartial", "analyze"} => AnalysisInv
  /\ pc = "write" => WriteInv
  /\ pc = "enumerate" => EnumerationInv
  /\ pc = "setResult" =>
       call.op = "setResult" /\ asked.served = call.n /\ asked.request_type = {}

AnswerInv ==
  /\ ResultInv /\ (SearchOpen => agenda = Remaining) /\ CallInv /\ OwnBuffer /\ AnswerRight

SessionInv == TypeOK /\ CallsInv /\ AnswerInv

-----------------------------------------------------------------------------

\* the calls that are begun: with a number of results or without, or with a buffer
LEMMA NumberCall ==
  ASSUME NEW op, NEW n, NEW dest, call' = [NoCall EXCEPT !.op = op, !.n = n, !.dest = dest]
  PROVE  /\ IsCall(call') /\ call'.op = op /\ call'.n = n /\ call'.dest = dest
         /\ call'.i = 0 /\ call'.served = 0
BY DEF NoCall, IsCall

LEMMA PlainCall ==
  ASSUME NEW op, NEW dest, call' = [NoCall EXCEPT !.op = op, !.dest = dest]
  PROVE  IsCall(call') /\ call'.op = op /\ call'.dest = dest /\ call'.i = 0 /\ call'.served = 0
BY DEF NoCall, IsCall

LEMMA BufferCall ==
  ASSUME NEW op, NEW n, NEW dest, NEW os, NEW s,
         call' = [NoCall EXCEPT !.op = op, !.n = n, !.dest = dest, !.os = os, !.served = s]
  PROVE  /\ IsCall(call') /\ call'.op = op /\ call'.n = n /\ call'.dest = dest
         /\ call'.os = os /\ call'.i = 0 /\ call'.served = s
BY DEF NoCall, IsCall

(* What is due to a caller is said of the text and the request types he    *)
(* asked for.                                                              *)
LEMMA SameText ==
  ASSUME asked'.text = asked.text, asked'.request_type = asked.request_type
  PROVE  /\ Count' = Count
         /\ \A k : Shown(k)' = Shown(k)
         /\ \A k : TextOf(k)' = TextOf(k)
         /\ \A from : Left(from)' = Left(from)
         /\ \A from, n : Enumeration(from, n)' = Enumeration(from, n)
<1>1. Count' = Count
  BY DEF Count
<1>2. ASSUME NEW k PROVE Shown(k)' = Shown(k)
  BY DEF Shown
<1>3. ASSUME NEW k PROVE TextOf(k)' = TextOf(k)
  BY <1>2 DEF TextOf
<1>4. ASSUME NEW from PROVE Left(from)' = Left(from)
  BY <1>1 DEF Left
<1>5. ASSUME NEW from, NEW n PROVE Enumeration(from, n)' = Enumeration(from, n)
  BY <1>3, <1>4 DEF Enumeration
<1> QED BY <1>1, <1>2, <1>3, <1>4, <1>5

LEMMA AskedNumbers ==
  ASSUME asked \in AskedType
  PROVE  /\ asked.text \in Texts /\ asked.served \in Nat
         /\ Count \in Nat /\ (asked.text \notin TooLong => 1 <= Count)
         /\ LastShown \in Nat /\ (1 <= Count => LastShown \in 1..Count)
<1>1. asked.text \in Texts /\ asked.served \in Nat
  BY DEF AskedType
<1>2. Count \in Nat /\ (asked.text \notin TooLong => 1 <= Count)
  BY <1>1, ResultsLen DEF Count
<1>3. LastShown \in Nat /\ (1 <= Count => LastShown \in 1..Count)
  BY <1>1, <1>2 DEF LastShown
<1> QED BY <1>1, <1>2, <1>3

LEMMA TextTypes ==
  ASSUME asked \in AskedType, NEW k \in 0..Count
  PROVE  Shown(k) \in 0..Count /\ TextOf(k) \in Seq(PieceType)
<1>1. Shown(k) \in 0..Count
  BY AskedNumbers DEF Shown
<1>2. TextOf(k) \in Seq(PieceType)
  BY <1>1, AskedNumbers, RenderedType DEF TextOf, Count
<1> QED BY <1>1, <1>2

LEMMA LeftType ==
  ASSUME asked \in AskedType, NEW from \in Nat
  PROVE  Left(from) \in 0..Count /\ (from <= Count => Left(from) = Count - from)
BY AskedNumbers DEF Left

LEMMA EnumerationType ==
  ASSUME asked \in AskedType, NEW from \in Nat, NEW n \in Nat
  PROVE  Enumeration(from, n) \in Seq(PieceType)
<1> DEFINE m == IF n <= Left(from) THEN n ELSE Left(from)
           texts == [i \in 1..m |-> TextOf(from + i)]
<1>1. m \in Nat /\ m <= Left(from) /\ Left(from) \in Nat
  BY AskedNumbers, LeftType
<1>2. ASSUME NEW i \in 1..m PROVE TextOf(from + i) \in Seq(PieceType)
  <2>1. from + i \in 0..Count
    BY <1>1, AskedNumbers DEF Left
  <2> QED BY <2>1, TextTypes
<1> HIDE DEF m
<1>3. texts \in Seq(Seq(PieceType))
  BY <1>1, <1>2
<1>4. Enumeration(from, n) = FlattenSeq(texts)
  BY DEF Enumeration, m
<1> HIDE DEF texts
<1> QED BY <1>3, <1>4, FlattenType

LEMMA EnumerationEmpty ==
  ASSUME asked \in AskedType, NEW from \in Nat
  PROVE  Enumeration(from, 0) = <<>>
<1> DEFINE texts == [i \in 1..0 |-> TextOf(from + i)]
<1>1. Left(from) \in Nat
  BY AskedNumbers, LeftType
<1>2. Enumeration(from, 0) = FlattenSeq(texts)
  BY <1>1 DEF Enumeration
<1>3. texts = <<>>
  OBVIOUS
<1>4. FlattenSeq(<<>>) = <<>>
  BY DEF FlattenSeq
<1> QED BY <1>2, <1>3, <1>4

LEMMA EnumerationMore ==
  ASSUME asked \in AskedType, NEW from \in Nat, NEW i \in Nat, from + i < Count
  PROVE  Enumeration(from, i + 1) = Enumeration(from, i) \o TextOf(from + i + 1)
<1> DEFINE texts(m) == [j \in 1..m |-> TextOf(from + j)]
<1>0. Count \in Nat /\ from <= Count /\ Left(from) = Count - from
  BY AskedNumbers, LeftType
<1>1. i + 1 <= Left(from) /\ i <= Left(from)
  BY <1>0
<1>2. Enumeration(from, i + 1) = FlattenSeq(texts(i + 1)) /\ Enumeration(from, i) = FlattenSeq(texts(i))
  BY <1>1 DEF Enumeration
<1>3. ASSUME NEW j \in 1..i + 1 PROVE TextOf(from + j) \in Seq(PieceType)
  <2>1. from + j \in 0..Count
    BY <1>0
  <2> QED BY <2>1, TextTypes
<1>4. texts(i) \in Seq(Seq(PieceType)) /\ texts(i + 1) \in Seq(Seq(PieceType))
  <2>1. ASSUME NEW m \in Nat, m <= i + 1 PROVE texts(m) \in Seq(Seq(PieceType))
    <3>1. ASSUME NEW j \in 1..m PROVE TextOf(from + j) \in Seq(PieceType)
      <4>1. j \in 1..i + 1
        BY <2>1
      <4> QED BY <1>3, <4>1, Zenon
    <3> QED BY <3>1
  <2>2. i <= i + 1 /\ i + 1 <= i + 1 /\ i + 1 \in Nat
    OBVIOUS
  <2> HIDE DEF texts
  <2> QED BY <2>1, <2>2, Zenon
<1>5. /\ Len(texts(i)) = i /\ Len(texts(i + 1)) = i + 1
      /\ \A k \in 1..i : texts(i)[k] = texts(i + 1)[k]
      /\ texts(i + 1)[i + 1] = TextOf(from + (i + 1))
  OBVIOUS
<1> HIDE DEF texts
<1>6. FlattenSeq(texts(i + 1)) = FlattenSeq(texts(i)) \o texts(i + 1)[Len(texts(i + 1))]
  BY <1>4, <1>5, FlattenMore
<1>7. from + (i + 1) = from + i + 1
  OBVIOUS
<1> QED BY <1>2, <1>5, <1>6, <1>7

-----------------------------------------------------------------------------
LEMMA NoneIsDest == None \in Dests
BY DEF Dests

LEMMA ClearedOwn ==
  ASSUME OwnBuffer
  PROVE  IsBuffer(Cleared(ostrs)) /\ Cleared(ostrs).capacity = None
<1>1. Holds(Cleared(Buffer(None)), None, <<>>)
  BY ClearedHolds, NoneIsDest
<1> QED BY <1>1 DEF Holds, Buffer

\* what is kept of the buffer a call has written
LEMMA KeptOwn ==
  ASSUME OwnBuffer, NEW dest, NEW os, NEW text, Holds(os, dest, text), ostrs' = Kept(os, dest)
  PROVE  OwnBuffer'
<1>1. CASE dest = None
  BY <1>1 DEF Kept, Holds, OwnBuffer
<1>2. CASE dest # None
  BY <1>2 DEF Kept, OwnBuffer
<1> QED BY <1>1, <1>2

LEMMA SetSentenceBuffer ==
  ASSUME OwnBuffer, NEW l, NEW p, NEW t, NEW src, SetSentence(l, p, t, src)
  PROVE  OwnBuffer'
<1>1. ostrs' = Cleared(ostrs)
  BY DEF SetSentence
<1> QED BY <1>1, ClearedOwn DEF OwnBuffer

LEMMA GivesText ==
  ASSUME NEW text, Due' = [ok |-> TRUE, text |-> text], Right(answer', text, call'.dest)
  PROVE  AnswerRight'
<1>1. Due'.ok /\ Due'.text = text
  OBVIOUS
<1>2. \A x : Fitting(x)' <=> HasRoom(x, call'.dest)
  BY DEF Fitting, HasRoom
<1> HIDE DEF Due
<1> QED BY <1>1, <1>2 DEF AnswerRight, Right

LEMMA StaySame ==
  ASSUME UNCHANGED <<used, asked>>, lattice'.result = lattice.result
  PROVE  /\ Remaining' = Remaining /\ (ResultShown' <=> ResultShown)
         /\ (SearchOpen' <=> SearchOpen) /\ LastShown' = LastShown
<1>1. Count' = Count /\ \A k : Shown(k)' = Shown(k)
  BY SameText
<1>2. LastShown' = LastShown
  BY <1>1 DEF LastShown
<1>3. Remaining' = Remaining
  BY <1>1 DEF Remaining
<1>4. ResultShown' <=> ResultShown
  <2>1. Shown(LastShown)' = Shown(LastShown)
    BY <1>2 DEF Shown
  <2> QED BY <2>1 DEF ResultShown
<1>5. SearchOpen' <=> SearchOpen
  BY DEF SearchOpen
<1> QED BY <1>2, <1>3, <1>4, <1>5

(* A step that leaves result and search as they are. *)
LEMMA GoesOn ==
  ASSUME AnswerInv, UNCHANGED <<lattice, agenda, used, asked>>,
         pc' \in {"idle", "write", "enumerate"},
         IsCall(call'), call'.dest \in Dests, OwnBuffer',
         pc' = "idle" => AnswerRight', pc' = "write" => WriteInv',
         pc' = "enumerate" => EnumerationInv'
  PROVE  AnswerInv'
<1>1. /\ Remaining' = Remaining /\ (ResultShown' <=> ResultShown) /\ (SearchOpen' <=> SearchOpen)
  BY StaySame
<1>2. ResultInv'
  BY <1>1 DEF AnswerInv, ResultInv
<1>3. (SearchOpen => agenda = Remaining)'
  BY <1>1 DEF AnswerInv
<1>4. CallInv'
  BY DEF CallInv
<1>5. AnswerRight'
  <2>1. pc' # "idle" => AnswerRight'
    BY DEF AnswerRight, Idle
  <2> QED BY <2>1
<1> QED BY <1>2, <1>3, <1>4, <1>5 DEF AnswerInv

\* an answer stays right while its call is the last
LEMMA DueSame ==
  ASSUME UNCHANGED <<call, used, asked>>
  PROVE  Due' = Due /\ \A x : Fitting(x)' <=> Fitting(x)
<1>1. /\ Count' = Count /\ \A k : Shown(k)' = Shown(k) /\ TextOf(k)' = TextOf(k)
      /\ \A from, n : Enumeration(from, n)' = Enumeration(from, n)
  BY SameText
<1>2. LastShown' = LastShown
  BY <1>1 DEF LastShown
<1>3. Shown(LastShown)' = Shown(LastShown) /\ TextOf(LastShown)' = TextOf(LastShown)
  <2>1. Shown(LastShown)' = Shown(LastShown)
    BY <1>2 DEF Shown
  <2> QED BY <2>1 DEF TextOf
<1>4. /\ TextOf(1)' = TextOf(1) /\ TextOf(asked.served)' = TextOf(asked.served)
  BY <1>1 DEF TextOf, Shown
<1>5. Enumeration(call.served, call.n)' = Enumeration(call.served, call.n)
  <2>1. Left(call.served)' = Left(call.served)
    BY <1>1 DEF Left
  <2>2. \A i : TextOf(call.served + i)' = TextOf(call.served + i)
    BY DEF TextOf, Shown
  <2> QED BY <2>1, <2>2 DEF Enumeration
<1>6. Due' = Due
  BY <1>1, <1>2, <1>3, <1>4, <1>5 DEF Due
<1>7. \A x : Fitting(x)' <=> Fitting(x)
  BY DEF Fitting
<1> QED BY <1>6, <1>7

LEMMA RightStays ==
  ASSUME AnswerRight, UNCHANGED <<pc, call, answer, used, asked>>
  PROVE  AnswerRight'
<1>1. Due' = Due /\ \A x : Fitting(x)' <=> Fitting(x)
  BY DueSame
<1>2. Fitting(Due.text)' <=> Fitting(Due.text)
  BY <1>1 DEF Fitting
<1>3. Fitting(answer.text)' <=> Fitting(answer.text)
  BY DEF Fitting
<1> QED BY <1>1, <1>2, <1>3 DEF AnswerRight, Idle

(* A step of neither the call nor its lattice. *)
LEMMA Untouched ==
  ASSUME AnswerInv, UNCHANGED <<lattice, agenda, ostrs, pc, call, answer, used, asked>>
  PROVE  AnswerInv'
<1>1. /\ Remaining' = Remaining /\ (ResultShown' <=> ResultShown) /\ (SearchOpen' <=> SearchOpen)
  BY StaySame
<1>2. ResultInv'
  BY <1>1 DEF AnswerInv, ResultInv
<1>3. (SearchOpen => agenda = Remaining)'
  BY <1>1 DEF AnswerInv
<1>4. OwnBuffer' /\ AnswerRight'
  BY RightStays DEF AnswerInv, OwnBuffer
<1>5. Count' = Count /\ Enumeration(call.served, call.i)' = Enumeration(call.served, call.i)
  <2>1. Count' = Count /\ \A from : Left(from)' = Left(from)
    BY SameText
  <2>2. Left(call.served)' = Left(call.served)
    BY <2>1 DEF Left
  <2>3. \A i : TextOf(call.served + i)' = TextOf(call.served + i)
    BY DEF TextOf, Shown
  <2> QED BY <2>1, <2>2, <2>3 DEF Enumeration
<1>6. CallInv'
  BY <1>1, <1>5 DEF AnswerInv, CallInv, AnalysisInv, WriteInv, EnumerationInv
<1> QED BY <1>2, <1>3, <1>4, <1>6 DEF AnswerInv

(* A call that begins an analysis, and one that forgets the sentence's.    *)
LEMMA Begins ==
  ASSUME lattice'.result = None, pc' \in {"initPartial", "analyze"}, IsCall(call'),
         call'.dest \in Dests, AnalysisInv', OwnBuffer'
  PROVE  AnswerInv'
<1>1. ResultInv' /\ ~ SearchOpen' /\ AnswerRight'
  BY DEF ResultInv, SearchOpen, AnswerRight, Idle
<1>2. CallInv'
  BY DEF CallInv
<1> QED BY <1>1, <1>2 DEF AnswerInv

LEMMA Forgets ==
  ASSUME lattice'.result = None, pc' = "idle", call' = NoCall, asked' = None, OwnBuffer'
  PROVE  AnswerInv'
<1>1. ResultInv' /\ ~ SearchOpen' /\ AnswerRight'
  BY DEF ResultInv, SearchOpen, AnswerRight, Idle
<1>2. CallInv'
  BY NoneIsDest DEF CallInv, NoCall, IsCall
<1> QED BY <1>1, <1>2 DEF AnswerInv
-----------------------------------------------------------------------------
(* The next result.  The agenda holds what the caller has not been through *)
(* and nothing else, so that the cheapest of it is the next.               *)

LEMMA OpenSearch ==
  ASSUME SessionInv, SearchOpen
  PROVE  /\ asked \in AskedType /\ lattice.request_type = asked.request_type
         /\ asked.text \notin TooLong /\ agenda = Remaining /\ ResultShown
         /\ (HasNext <=> agenda # {})
<1>1. lattice.result # None /\ used # None /\ "NBEST" \in used.request_type
  BY DEF SearchOpen
<1>2. asked \in AskedType
  BY <1>1 DEF SessionInv, TypeOK
<1>3. /\ lattice.request_type = asked.request_type /\ asked.text \notin TooLong
      /\ agenda = Remaining /\ ResultShown
  BY <1>1 DEF SessionInv, AnswerInv, ResultInv
<1>4. used.request_type = asked.request_type
  BY <1>1 DEF SessionInv, CallsInv, RequestInv
<1> QED BY <1>1, <1>2, <1>3, <1>4 DEF HasNext

LEMMA TakesNext ==
  ASSUME SessionInv, SearchOpen, NEW e \in NextResult, Advance(e),
         asked' = ServedOneMore, used' = used
  PROVE  /\ asked.served < Count /\ asked'.served = asked.served + 1
         /\ asked'.text = asked.text /\ asked'.request_type = asked.request_type
         /\ Listed(e.text, e.rank, lattice) = [text |-> asked.text, rank |-> Shown(asked.served + 1)]
         /\ lattice'.result = Listed(e.text, e.rank, lattice)
         /\ lattice'.request_type = lattice.request_type
         /\ agenda' = Remaining' /\ ResultShown' /\ SearchOpen'
         /\ LastShown' = asked'.served
<1>1. /\ asked \in AskedType /\ lattice.request_type = asked.request_type
      /\ agenda = Remaining
  BY OpenSearch
<1>2. asked.served \in Nat /\ Count \in Nat
  BY <1>1, AskedNumbers
<1>3. e.rank \in asked.served + 1 .. Count /\ e = [text |-> asked.text, rank |-> e.rank, live |-> TRUE]
  <2>1. e \in Remaining
    BY <1>1 DEF NextResult
  <2>2. PICK k \in asked.served + 1 .. Count : e = [text |-> asked.text, rank |-> k, live |-> TRUE]
    BY <2>1 DEF Remaining
  <2> QED BY <2>2
<1>4. asked.served < Count
  BY <1>2, <1>3
<1>5. e.rank = asked.served + 1
  <2> DEFINE f == [text |-> asked.text, rank |-> asked.served + 1, live |-> TRUE]
  <2>1. asked.served + 1 \in asked.served + 1 .. Count
    BY <1>2, <1>4
  <2>2. f \in agenda /\ f.live /\ f.rank = asked.served + 1
    BY <1>1, <2>1 DEF Remaining
  <2>3. e.live
    BY <1>3
  <2>4. \A g \in agenda : g.live => e.rank <= g.rank
    BY <2>3 DEF NextResult, Best
  <2> HIDE DEF f
  <2>5. e.rank <= asked.served + 1
    BY <2>2, <2>4
  <2> QED BY <1>2, <1>3, <2>5
<1>6. /\ asked'.served = asked.served + 1
      /\ asked'.text = asked.text /\ asked'.request_type = asked.request_type
      /\ Count = Len(Results[asked.text])
  BY <1>1, <1>2, <1>4 DEF ServedOneMore, AskedType, Count
<1>7. /\ Count' = Count /\ \A k : Shown(k)' = Shown(k)
  BY <1>6, SameText
<1>8. Listed(e.text, e.rank, lattice) = [text |-> asked.text, rank |-> Shown(asked.served + 1)]
  BY <1>1, <1>3, <1>5 DEF Listed, Shown
<1>9. /\ lattice'.result = Listed(e.text, e.rank, lattice)
      /\ lattice'.request_type = lattice.request_type
  BY DEF Advance, SessionInv, TypeOK, LatticeType
<1>10. agenda' = Remaining'
  <2>1. agenda' = Remaining \ {e}
    BY <1>1 DEF Advance
  <2>2. Remaining' = { [text |-> asked.text, rank |-> k, live |-> TRUE] : k \in asked.served + 2 .. Count }
    <3>1. asked'.served + 1 = asked.served + 2
      BY <1>2, <1>6
    <3> QED BY <1>6, <1>7, <3>1 DEF Remaining
  <2>3. asked.served + 1 .. Count = (asked.served + 2 .. Count) \union {asked.served + 1}
    BY <1>2, <1>4
  <2>4. e = [text |-> asked.text, rank |-> asked.served + 1, live |-> TRUE]
    BY <1>3, <1>5
  <2>5. \A k \in asked.served + 2 .. Count : [text |-> asked.text, rank |-> k, live |-> TRUE] # e
    <3> SUFFICES ASSUME NEW k \in asked.served + 2 .. Count,
                        [text |-> asked.text, rank |-> k, live |-> TRUE] = e
                 PROVE  FALSE
      OBVIOUS
    <3>1. k = asked.served + 1
      BY <2>4
    <3> QED BY <1>2, <3>1
  <2>6. Remaining = Remaining' \union {e}
    BY <2>2, <2>3, <2>4 DEF Remaining
  <2>7. e \notin Remaining'
    BY <2>2, <2>5
  <2> QED BY <2>1, <2>6, <2>7
<1>11. LastShown' = asked'.served
  BY <1>2, <1>4, <1>6, <1>7 DEF LastShown
<1>12. ResultShown'
  <2>1. Shown(LastShown)' = Shown(asked.served + 1)
    BY <1>6, <1>11 DEF Shown
  <2> QED BY <1>6, <1>8, <1>9, <2>1 DEF ResultShown
<1>13. SearchOpen'
  <2>1. lattice'.result # None
    BY AdvanceTypes DEF SessionInv
  <2> QED BY <2>1 DEF SearchOpen
<1> QED BY <1>4, <1>6, <1>8, <1>9, <1>10, <1>11, <1>12, <1>13

LEMMA NoneLeft ==
  ASSUME SessionInv, SearchOpen, ~ HasNext
  PROVE  agenda = {} /\ Count <= asked.served /\ 1 <= Count
<1>1. asked \in AskedType /\ agenda = Remaining /\ agenda = {} /\ asked.text \notin TooLong
  BY OpenSearch
<1>2. asked.served \in Nat /\ Count \in Nat /\ 1 <= Count
  BY <1>1, AskedNumbers
<1>3. ~ (asked.served < Count)
  <2> SUFFICES ASSUME asked.served < Count PROVE FALSE
    OBVIOUS
  <2>1. Count \in asked.served + 1 .. Count
    BY <1>2
  <2>2. [text |-> asked.text, rank |-> Count, live |-> TRUE] \in Remaining
    BY <2>1 DEF Remaining
  <2> QED BY <1>1, <2>2
<1> QED BY <1>1, <1>2, <1>3

LEMMA TriesOnceMore ==
  ASSUME SessionInv, SearchOpen, ~ HasNext, UNCHANGED <<lattice, agenda, used>>,
         asked' = ServedOneMore
  PROVE  /\ asked'.text = asked.text /\ asked'.request_type = asked.request_type
         /\ asked'.served > Count' /\ agenda' = Remaining' /\ ResultShown' /\ SearchOpen'
<1>1. agenda = {} /\ Count <= asked.served /\ 1 <= Count
  BY NoneLeft
<1>2. asked \in AskedType /\ ResultShown /\ asked.served \in Nat /\ Count \in Nat
  BY OpenSearch, AskedNumbers
<1>3. /\ asked'.text = asked.text /\ asked'.request_type = asked.request_type
      /\ asked'.served \in Nat /\ asked'.served > Count
  BY <1>1, <1>2 DEF ServedOneMore, AskedType, Count
<1>4. /\ Count' = Count /\ \A k : Shown(k)' = Shown(k)
  BY <1>3, SameText
<1>5. agenda' = Remaining'
  <2>1. asked'.served + 1 .. Count' = {}
    BY <1>2, <1>3, <1>4
  <2>2. Remaining' = {}
    BY <2>1 DEF Remaining
  <2> QED BY <1>1, <2>2
<1>6. LastShown' = LastShown
  BY <1>1, <1>2, <1>3, <1>4 DEF LastShown
<1>7. ResultShown'
  <2>1. Shown(LastShown)' = Shown(LastShown)
    BY <1>3, <1>6 DEF Shown
  <2> QED BY <1>2, <1>3, <2>1 DEF ResultShown
<1>8. SearchOpen'
  BY DEF SearchOpen
<1> QED BY <1>3, <1>4, <1>5, <1>7, <1>8

-----------------------------------------------------------------------------
(* The calls. *)

LEMMA InitAnswer == Init => AnswerInv
<1> SUFFICES ASSUME Init PROVE AnswerInv
  OBVIOUS
<1>1. /\ lattice.result = None /\ pc = "idle" /\ call = NoCall /\ asked = None /\ ostrs = Growing
  BY DEF Init
<1>2. ResultInv /\ ~ SearchOpen /\ AnswerRight
  BY <1>1 DEF ResultInv, SearchOpen, AnswerRight
<1>3. CallInv
  BY <1>1, NoneIsDest DEF CallInv, NoCall, IsCall
<1>4. OwnBuffer
  BY <1>1, BytesEmpty DEF OwnBuffer, IsBuffer, Growing
<1> QED BY <1>2, <1>3, <1>4 DEF AnswerInv

LEMMA TaggerParseAnswer ==
  ASSUME SessionInv,
         NEW op \in {"parse", "parseToNode", "parseNBestInit", "parseNBest"},
         NEW t \in Texts, NEW n, NEW dest \in Dests, TaggerParse(op, t, n, dest)
  PROVE  AnswerInv'
<1> DEFINE l == [InitRequestType(lattice) EXCEPT !.request_type = WithNBest(op, @)]
<1>1. /\ SetSentence(l, pool, t, Caller) /\ asked' = Ask(t, WithNBest(op, request_type), theta)
      /\ pc' = "initPartial" /\ call' = [NoCall EXCEPT !.op = op, !.n = n, !.dest = dest]
  BY DEF TaggerParse
<1> HIDE DEF l
<1>2. lattice'.result = None
  BY <1>1, SetSentenceSets
<1>3. OwnBuffer'
  BY <1>1, SetSentenceBuffer DEF SessionInv, AnswerInv
<1>4. asked'.served = 0
  BY <1>1 DEF Ask
<1>5. IsCall(call') /\ call'.op = op /\ call'.dest = dest /\ call'.i = 0 /\ call'.served = 0
  BY <1>1, NumberCall
<1>6. AnalysisInv'
  BY <1>4, <1>5 DEF AnalysisInv
<1> QED BY <1>1, <1>2, <1>3, <1>5, <1>6, Begins

LEMMA CallNextAnswer ==
  ASSUME SessionInv, NEW op \in {"next", "nextNode"}, NEW dest \in Dests, CallNext(op, dest)
  PROVE  AnswerInv'
<1>1. /\ Searching /\ pc = "idle" /\ asked' = ServedOneMore /\ used' = used /\ ostrs' = ostrs
      /\ call' = [NoCall EXCEPT !.op = op, !.dest = dest]
  BY DEF CallNext, Searching, HasResult, Idle
<1>2. SearchOpen
  BY <1>1 DEF Searching, HasResult, SearchOpen
<1>4. IsCall(call') /\ call'.op = op /\ call'.dest = dest
  BY <1>1, PlainCall
<1>5. OwnBuffer'
  BY <1>1 DEF SessionInv, AnswerInv, OwnBuffer
<1>6. asked \in AskedType /\ lattice.request_type = asked.request_type /\ asked.text \notin TooLong
  BY <1>2, OpenSearch
<1>7. asked.served \in Nat /\ Count \in Nat
  BY <1>6, AskedNumbers
<1>8. CASE HasNext
  <2>1. PICK e \in NextResult :
          /\ Advance(e)
          /\ answer' = IF op = "next" THEN Done ELSE Nodes(Listed(e.text, e.rank, lattice))
    BY <1>8 DEF CallNext
  <2>2. pc' = IF op = "next" THEN "write" ELSE "idle"
    BY <1>8 DEF CallNext
  <2>3. /\ asked.served < Count /\ asked'.served = asked.served + 1
        /\ asked'.text = asked.text /\ asked'.request_type = asked.request_type
        /\ Listed(e.text, e.rank, lattice) = [text |-> asked.text, rank |-> Shown(asked.served + 1)]
        /\ lattice'.request_type = lattice.request_type
        /\ agenda' = Remaining' /\ ResultShown' /\ SearchOpen'
    BY <1>1, <1>2, <2>1, TakesNext
  <2>4. ResultInv'
    BY <1>6, <2>2, <2>3 DEF ResultInv
  <2>5. Count' = Count
    BY <2>3, SameText
  <2>6. CallInv'
    BY <1>4, <1>7, <2>2, <2>3, <2>5 DEF CallInv, WriteInv
  <2>7. AnswerRight'
    <3>1. CASE op = "next"
      BY <2>2, <3>1 DEF AnswerRight, Idle
    <3>2. CASE op = "nextNode"
      <4>1. answer' = [ok |-> TRUE, text |-> Rendered(asked.text, Shown(asked.served + 1))]
        BY <2>1, <2>3, <3>2 DEF Nodes
      <4>2. TextOf(asked.served)' = Rendered(asked.text, Shown(asked.served + 1))
        BY <2>3 DEF TextOf, Shown
      <4>3. Due' = [ok |-> TRUE, text |-> TextOf(asked.served)']
        BY <1>4, <1>6, <1>7, <2>3, <2>5, <3>2 DEF Due
      <4> QED BY <4>1, <4>2, <4>3 DEF AnswerRight
    <3> QED BY <3>1, <3>2
  <2> QED BY <1>5, <2>3, <2>4, <2>6, <2>7 DEF AnswerInv
<1>9. CASE ~ HasNext
  <2>1. UNCHANGED <<lattice, agenda, pc>> /\ answer' = Failed
    BY <1>9 DEF CallNext
  <2>2. /\ asked'.text = asked.text /\ asked'.request_type = asked.request_type
        /\ asked'.served > Count' /\ agenda' = Remaining' /\ ResultShown' /\ SearchOpen'
    BY <1>1, <1>2, <1>9, <2>1, TriesOnceMore
  <2>3. ResultInv'
    BY <1>1, <1>6, <2>1, <2>2 DEF ResultInv
  <2>4. CallInv'
    BY <1>1, <1>4, <2>1 DEF CallInv
  <2>5. AnswerRight'
    <3>1. Due' = Failed
      BY <1>4, <1>6, <2>2 DEF Due
    <3> QED BY <2>1, <3>1 DEF AnswerRight
  <2> QED BY <1>5, <2>2, <2>3, <2>4, <2>5 DEF AnswerInv
<1> QED BY <1>8, <1>9

\* a result there is, was asked for, and can be written
LEMMA ResultThere ==
  ASSUME SessionInv, lattice.result # None
  PROVE  /\ asked \in AskedType /\ ResultShown
         /\ (used # None => asked.text \notin TooLong)
         /\ Shown(LastShown) \in 0..Count
         /\ TextOf(LastShown) = Rendered(lattice.result.text, lattice.result.rank)
         /\ TextOf(LastShown) \in Seq(PieceType)
<1>1. asked \in AskedType /\ ResultShown /\ (used # None => asked.text \notin TooLong)
  BY DEF SessionInv, TypeOK, AnswerInv, ResultInv
<1>2. lattice.result \in ResultType
  BY DEF SessionInv, TypeOK, LatticeType
<1>3. lattice.result.text = asked.text /\ lattice.result.rank = Shown(LastShown)
  BY <1>1 DEF ResultShown
<1>4. Shown(LastShown) \in 0..Count
  BY <1>1, <1>2, <1>3, AskedNumbers DEF ResultType, Count
<1>5. TextOf(LastShown) = Rendered(lattice.result.text, lattice.result.rank)
  BY <1>3 DEF TextOf
<1>6. TextOf(LastShown) \in Seq(PieceType)
  BY <1>1, <1>4, AskedNumbers, RenderedType DEF TextOf, Count
<1> QED BY <1>1, <1>4, <1>5, <1>6

LEMMA FormatNodeAnswer ==
  ASSUME SessionInv, NEW dest \in Dests, FormatNode(dest)
  PROVE  AnswerInv'
<1> DEFINE words == WordsOf(lattice.result.text, lattice.result.rank)
           node == NodePieces(lattice.result.text, lattice.result.rank, 1)
           os == WriteAll(Cleared(Buffer(dest)), node)
<1>1. /\ lattice.result # None /\ pc = "idle" /\ pc' = "idle"
      /\ UNCHANGED <<lattice, agenda, used, asked>>
      /\ call' = [NoCall EXCEPT !.op = "formatNode", !.dest = dest]
  BY DEF FormatNode, HasResult, Idle
<1>2. /\ asked \in AskedType /\ ResultShown /\ (used # None => asked.text \notin TooLong)
      /\ Shown(LastShown) \in 0..Count
  BY <1>1, ResultThere
<1>3. lattice.result.text = asked.text /\ lattice.result.rank = Shown(LastShown)
  BY <1>2 DEF ResultShown
<1>5. IsCall(call') /\ call'.op = "formatNode" /\ call'.dest = dest
  BY <1>1, PlainCall
<1>6. Holds(Cleared(Buffer(dest)), dest, <<>>) /\ OwnBuffer
  BY ClearedHolds DEF SessionInv, AnswerInv
<1>7. Shown(LastShown)' = Shown(LastShown)
  BY <1>1, StaySame DEF Shown
<1>8. CASE words = <<>>
  <2>1. answer' = Failed /\ ostrs' = Kept(Cleared(Buffer(dest)), dest)
    BY <1>8 DEF FormatNode
  <2>2. OwnBuffer'
    BY <1>6, <2>1, KeptOwn
  <2>3. Due' = Failed
    BY <1>1, <1>2, <1>3, <1>5, <1>7, <1>8 DEF Due
  <2>4. AnswerRight'
    BY <2>1, <2>3 DEF AnswerRight
  <2> QED BY <1>1, <1>5, <2>2, <2>4, GoesOn DEF SessionInv
<1>9. CASE words # <<>>
  <2>1. answer' = Str(os) /\ ostrs' = Kept(os, dest)
    BY <1>9 DEF FormatNode
  <2>2. node \in Seq(PieceType)
    <3>1. asked.text \in Texts /\ Count = Len(Results[asked.text])
      BY <1>2, AskedNumbers DEF Count
    <3>2. words \in Seq(WordType)
      BY <1>2, <1>3, <3>1, WordsType
    <3>3. 1 \in 1..Len(words)
      BY <1>9, <3>2
    <3> HIDE DEF words
    <3>4. 1 \in 1..Len(WordsOf(asked.text, Shown(LastShown)))
      BY <1>3, <3>3 DEF words
    <3>5. NodePieces(asked.text, Shown(LastShown), 1) \in Seq(PieceType)
      BY <1>2, <3>1, <3>4, NodePiecesType
    <3> QED BY <1>3, <3>5
  <2>3. Holds(os, dest, node)
    <3>1. <<>> \in Seq(PieceType) /\ <<>> \o node = node
      BY <2>2
    <3> HIDE DEF node
    <3>2. Holds(os, dest, <<>> \o node)
      BY <1>6, <2>2, <3>1, WriteAllHolds
    <3> QED BY <3>1, <3>2
  <2>4. Due' = [ok |-> TRUE, text |-> node]
    BY <1>1, <1>2, <1>3, <1>5, <1>7, <1>9 DEF Due
  <2> HIDE DEF node, os
  <2>5. OwnBuffer'
    BY <1>6, <2>1, <2>3, KeptOwn
  <2>6. Right(answer', node, call'.dest)
    BY <1>5, <2>1, <2>2, <2>3, StrRight
  <2>7. AnswerRight'
    BY <2>4, <2>6, GivesText
  <2> QED BY <1>1, <1>5, <2>5, <2>7, GoesOn DEF SessionInv
<1> QED BY <1>8, <1>9

-----------------------------------------------------------------------------
LEMMA SettingAnswer ==
  ASSUME SessionInv, Setting
  PROVE  AnswerInv'
<1>1. UNCHANGED <<lattice, agenda, ostrs, pc, call, answer, used, asked>>
  BY DEF Setting, SetRequestType, SetPartial, SetAllMorphs, SetLatticeLevel, SetTheta, Choose
<1> QED BY <1>1, Untouched DEF SessionInv

LEMMA ClientAnswer ==
  ASSUME SessionInv, ClientCall
  PROVE  AnswerInv'
<1>0. OwnBuffer /\ AnswerInv
  BY DEF SessionInv, AnswerInv
<1>1. ASSUME NEW t \in Texts, ClientSetSentence(t) PROVE AnswerInv'
  <2>1. /\ SetSentence(lattice, pool, t, Caller) /\ pc' = "idle" /\ call' = NoCall
        /\ asked' = None
    BY <1>1 DEF ClientSetSentence, Idle
  <2>2. lattice'.result = None /\ OwnBuffer'
    BY <1>0, <2>1, SetSentenceSets, SetSentenceBuffer
  <2> QED BY <2>1, <2>2, Forgets
<1>2. CASE ClientClear
  <2>1. /\ lattice' = ClearedLattice(lattice) /\ pc' = "idle" /\ call' = NoCall
        /\ asked' = None /\ ostrs' = Cleared(ostrs)
    BY <1>2 DEF ClientClear, Idle
  <2>2. lattice'.result = None /\ OwnBuffer'
    BY <1>0, <2>1, ClearedOwn DEF ClearedLattice, OwnBuffer
  <2> QED BY <2>1, <2>2, Forgets
<1>3. CASE ClientParse
  <2>1. /\ lattice' = lattice /\ lattice.result = None /\ pc' = "initPartial"
        /\ asked' = Ask(lattice.sentence.text, lattice.request_type, lattice.theta)
        /\ call' = [NoCall EXCEPT !.op = "parseLattice"] /\ ostrs' = ostrs
    BY <1>3 DEF ClientParse
  <2>2. asked'.served = 0
    BY <2>1 DEF Ask
  <2>3. /\ IsCall(call') /\ call'.op = "parseLattice" /\ call'.dest = None
        /\ call'.i = 0 /\ call'.served = 0
    BY <2>1 DEF NoCall, IsCall
  <2>4. AnalysisInv' /\ OwnBuffer'
    BY <1>0, <2>1, <2>2, <2>3 DEF AnalysisInv, OwnBuffer
  <2> QED BY <2>1, <2>3, <2>4, NoneIsDest, Begins
<1>4. CASE ClientSetRequestType \/ ClientSetTheta
  <2>1. /\ lattice.result = None /\ pc = "idle"
        /\ UNCHANGED <<agenda, ostrs, pc, call, answer, used, asked>>
    BY <1>4 DEF ClientSetRequestType, ClientSetTheta, Idle
  <2>2. lattice'.result = None
    BY <1>4, <2>1 DEF ClientSetRequestType, ClientSetTheta, SessionInv, TypeOK, LatticeType
  <2>3. ResultInv' /\ ~ SearchOpen' /\ OwnBuffer'
    BY <1>0, <2>1, <2>2 DEF ResultInv, SearchOpen, OwnBuffer
  <2>4. CallInv'
    BY <1>0, <2>1 DEF CallInv, AnswerInv
  <2>5. AnswerRight'
    BY <1>0, <2>1, RightStays DEF AnswerInv
  <2> QED BY <2>3, <2>4, <2>5 DEF AnswerInv
<1>5. ASSUME NEW dest \in Dests, ClientToString(dest) PROVE AnswerInv'
  <2>1. /\ UNCHANGED <<lattice, agenda, ostrs, used, asked>> /\ pc' = "write"
        /\ call' = [NoCall EXCEPT !.op = "toString", !.dest = dest]
    BY <1>5 DEF ClientToString
  <2>2. IsCall(call') /\ call'.op = "toString" /\ call'.dest = dest
    BY <2>1, PlainCall
  <2>3. WriteInv' /\ OwnBuffer'
    BY <1>0, <2>1, <2>2 DEF WriteInv, OwnBuffer
  <2> QED BY <1>0, <2>1, <2>2, <2>3, GoesOn
<1>6. ASSUME NEW n, NEW dest \in Dests, ClientEnumerate(n, dest) PROVE AnswerInv'
  <2>1. /\ UNCHANGED <<lattice, agenda, ostrs, used, asked>> /\ pc' = "enumerate" /\ Searching
        /\ call' = [NoCall EXCEPT !.op = "enumNBest", !.n = n, !.dest = dest,
                                  !.os = Cleared(Buffer(dest)), !.served = asked.served]
    BY <1>6 DEF ClientEnumerate
  <2>2. /\ IsCall(call') /\ call'.op = "enumNBest" /\ call'.dest = dest
        /\ call'.os = Cleared(Buffer(dest)) /\ call'.i = 0 /\ call'.served = asked.served
    <3> DEFINE os == Cleared(Buffer(dest))
               s == asked.served
    <3>1. call' = [NoCall EXCEPT !.op = "enumNBest", !.n = n, !.dest = dest, !.os = os, !.served = s]
      BY <2>1, Zenon
    <3> HIDE DEF os, s
    <3>2. /\ IsCall(call') /\ call'.op = "enumNBest" /\ call'.dest = dest
          /\ call'.os = os /\ call'.i = 0 /\ call'.served = s
      BY <3>1 DEF NoCall, IsCall
    <3> QED BY <3>2 DEF os, s
  <2>3. SearchOpen
    BY <2>1 DEF Searching, HasResult, SearchOpen
  <2>4. asked \in AskedType /\ asked.served \in Nat
    BY <2>3, OpenSearch, AskedNumbers
  <2>5. Holds(call'.os, dest, <<>>)
    BY <1>0, <2>2, ClearedHolds
  <2>6. Enumeration(asked.served, 0) = <<>>
    BY <2>4, EnumerationEmpty
  <2>7. Enumeration(call.served, call.i)' = <<>>
    <3>1. Left(call.served)' = Left(asked.served)
      BY <2>1, <2>2 DEF Left, Count
    <3>2. \A i : TextOf(call.served + i)' = TextOf(asked.served + i)
      BY <2>1, <2>2 DEF TextOf, Shown
    <3>3. Enumeration(call.served, call.i)' = Enumeration(asked.served, 0)
      BY <2>2, <3>1, <3>2 DEF Enumeration
    <3> QED BY <2>6, <3>3
  <2>8. SearchOpen'
    BY <2>1, <2>3 DEF SearchOpen
  <2>9. EnumerationInv'
    BY <2>1, <2>2, <2>4, <2>5, <2>7, <2>8 DEF EnumerationInv
  <2>10. OwnBuffer'
    BY <1>0, <2>1 DEF OwnBuffer
  <2> QED BY <1>0, <2>1, <2>2, <2>9, <2>10, GoesOn
<1>7. ASSUME NEW t \in Texts, NEW k \in 1..Len(Results[t]), ClientSetResult(t, k)
      PROVE  AnswerInv'
  <2>1. PICK p, src : SetSentence(lattice, p, t, src)
    BY <1>7 DEF ClientSetResult
  <2>2. /\ pc' = "setResult" /\ call' = [NoCall EXCEPT !.op = "setResult", !.n = k]
        /\ asked' = [text |-> t, request_type |-> {}, theta |-> DefaultTheta, served |-> k]
    BY <1>7 DEF ClientSetResult
  <2>3. lattice'.result = None /\ OwnBuffer'
    BY <1>0, <2>1, SetSentenceSets, SetSentenceBuffer
  <2>4. IsCall(call') /\ call'.op = "setResult" /\ call'.n = k /\ call'.dest = None
    BY <2>2 DEF NoCall, IsCall
  <2>5. ResultInv' /\ ~ SearchOpen' /\ AnswerRight'
    BY <2>2, <2>3 DEF ResultInv, SearchOpen, AnswerRight, Idle
  <2>6. CallInv'
    BY <2>2, <2>4, NoneIsDest DEF CallInv
  <2> QED BY <2>3, <2>5, <2>6 DEF AnswerInv
<1> QED
  BY <1>1, <1>2, <1>3, <1>4, <1>5, <1>6, <1>7 DEF ClientCall

(* The analysis and what follows it. *)

LEMMA InitPartialAnswer ==
  ASSUME SessionInv, InitPartial
  PROVE  AnswerInv'
<1>1. /\ pc = "initPartial" /\ pc' = "analyze" /\ UNCHANGED <<call, asked>>
  BY DEF InitPartial
<1>2. lattice.result = None /\ OwnBuffer /\ IsCall(call) /\ call.dest \in Dests /\ AnalysisInv
  BY <1>1 DEF SessionInv, AnswerInv, ResultInv, CallInv
<1>3. lattice'.result = None /\ OwnBuffer'
  <2>1. CASE "PARTIAL" \in lattice.request_type
    BY <1>2, <2>1, SetSentenceSets, SetSentenceBuffer DEF InitPartial
  <2>2. CASE "PARTIAL" \notin lattice.request_type
    BY <1>2, <2>2 DEF InitPartial, OwnBuffer
  <2> QED BY <2>1, <2>2
<1>4. AnalysisInv'
  BY <1>1, <1>2 DEF AnalysisInv
<1> QED BY <1>1, <1>2, <1>3, <1>4, Begins

LEMMA AnalyzeAnswer ==
  ASSUME SessionInv, Analyze
  PROVE  AnswerInv'
<1> DEFINE t == lattice.sentence.text
<1>1. /\ pc = "analyze" /\ UNCHANGED <<ostrs, asked>>
      /\ used' = [request_type |-> lattice.request_type, theta |-> lattice.theta]
  BY DEF Analyze
<1>2. /\ lattice.result = None /\ OwnBuffer /\ IsCall(call) /\ call.dest \in Dests
      /\ AnalysisInv
  BY <1>1 DEF SessionInv, AnswerInv, ResultInv, CallInv
<1>3. asked \in AskedType /\ lattice \in LatticeType
  BY <1>1 DEF SessionInv, TypeOK
<1>4. /\ asked.text = t /\ asked.request_type = lattice.request_type
      /\ (call.op = "parseNBest" => "NBEST" \in lattice.request_type)
  BY <1>1 DEF SessionInv, CallsInv, RequestInv, SearchInv, Analyzing
<1>5. used' # None /\ used'.request_type = lattice.request_type
  <2>1. used' \in UsedType
    BY <1>1, <1>3 DEF UsedType, LatticeType
  <2> QED BY <1>1, <2>1, NoneAssumption
<1>6. OwnBuffer'
  BY <1>1, <1>2 DEF OwnBuffer
<1>7. Count \in Nat /\ asked.served = 0
  BY <1>2, <1>3, AskedNumbers DEF AnalysisInv
<1>8. CASE t \in TooLong
  <2>1. pc' = "idle" /\ answer' = Failed /\ UNCHANGED <<lattice, agenda, call>>
    BY <1>8 DEF Analyze
  <2>2. Due' = Failed
    <3>1. asked'.text \in TooLong /\ used' # None
      BY <1>1, <1>4, <1>5, <1>8
    <3> QED BY <3>1 DEF Due
  <2>3. AnswerRight'
    BY <2>1, <2>2 DEF AnswerRight
  <2>4. ResultInv' /\ ~ SearchOpen'
    BY <1>2, <2>1 DEF ResultInv, SearchOpen
  <2>5. CallInv'
    BY <1>2, <2>1 DEF CallInv
  <2> QED BY <1>6, <2>3, <2>4, <2>5 DEF AnswerInv
<1>9. CASE t \notin TooLong
  <2> DEFINE res == Listed(t, 1, lattice)
  <2>1. /\ lattice' = [lattice EXCEPT !.result = res]
        /\ agenda' = IF "NBEST" \in lattice.request_type THEN NewAgenda(lattice) ELSE agenda
        /\ Use(res)
    BY <1>9 DEF Analyze
  <2>2. 1 <= Count
    BY <1>3, <1>4, <1>9, AskedNumbers
  <2>3. /\ lattice'.result = res /\ lattice'.request_type = lattice.request_type
    BY <1>3, <2>1 DEF LatticeType
  <2>4. res = [text |-> asked.text, rank |-> Shown(1)]
    BY <1>4 DEF Listed, Shown
  <2>5. LastShown' = 1
    BY <1>1, <1>7 DEF LastShown
  <2>6. Shown(LastShown)' = Shown(1) /\ TextOf(1)' = TextOf(1)
    BY <1>1, <2>5 DEF Shown, TextOf
  <2>7. ResultShown'
    BY <1>1, <2>3, <2>4, <2>6 DEF ResultShown
  <2>8. lattice'.result # None
    <3>1. Shown(1) \in 0..Count
      BY <1>3, <1>7, <2>2, TextTypes
    <3>2. res \in ResultType
      BY <1>3, <1>7, <2>4, <3>1, AskedNumbers DEF ResultType, Count
    <3> QED BY <2>3, <3>2, NoneAssumption
  <2>9. SearchOpen' => agenda' = Remaining'
    <3> SUFFICES ASSUME SearchOpen' PROVE agenda' = Remaining'
      OBVIOUS
    <3>1. "NBEST" \in lattice.request_type
      BY <1>5 DEF SearchOpen
    <3>2. agenda' = NewAgenda(lattice)
      BY <2>1, <3>1
    <3>3. Remaining' = Remaining
      BY <1>1 DEF Remaining, Count
    <3>4. Remaining = { [text |-> asked.text, rank |-> k, live |-> TRUE] : k \in 1 .. Count }
      BY <1>7 DEF Remaining
    <3> QED BY <1>4, <3>2, <3>3, <3>4 DEF NewAgenda, Count
  <2>10. /\ IsCall(call') /\ call'.op = call.op /\ call'.dest = call.dest
         /\ call'.i = 0 /\ call'.served = 0 /\ call'.n = call.n
         /\ (call.op = "parseNBest" => call'.os = Cleared(Buffer(call.dest)))
         /\ (call.op # "parseNBest" => call' = call)
    <3>1. CASE call.op = "parseNBest"
      <4>1. call' = [call EXCEPT !.os = Cleared(Buffer(call.dest))]
        BY <2>1, <3>1 DEF Use
      <4> QED BY <1>2, <3>1, <4>1 DEF IsCall, AnalysisInv
    <3>2. CASE call.op # "parseNBest"
      <4>1. call' = call
        BY <2>1, <3>2 DEF Use
      <4> QED BY <1>2, <3>2, <4>1 DEF AnalysisInv
    <3> QED BY <3>1, <3>2
  <2>11. ASSUME pc' \in {"idle", "write", "enumerate"} PROVE ResultInv'
    BY <1>1, <1>4, <1>9, <2>3, <2>7, <2>11 DEF ResultInv
  <2>12. CASE call.op = "parse"
    <3>1. pc' = "write"
      BY <2>1, <2>12 DEF Use
    <3>2. WriteInv'
      BY <1>1, <1>7, <2>10, <2>12 DEF WriteInv
    <3>3. CallInv' /\ AnswerRight'
      BY <1>2, <2>10, <3>1, <3>2 DEF CallInv, AnswerRight, Idle
    <3> QED BY <1>6, <2>9, <2>11, <3>1, <3>3 DEF AnswerInv
  <2>13. CASE call.op = "parseNBest"
    <3>1. pc' = "enumerate"
      BY <2>1, <2>13 DEF Use
    <3>2. Holds(call'.os, call'.dest, <<>>)
      BY <1>2, <2>10, <2>13, ClearedHolds
    <3>3. Enumeration(call.served, call.i)' = <<>>
      <4>1. Enumeration(0, 0) = <<>>
        BY <1>3, EnumerationEmpty
      <4>2. Enumeration(0, 0)' = Enumeration(0, 0)
        BY <1>1, SameText
      <4>3. Enumeration(call.served, call.i)' = Enumeration(0, 0)'
        BY <2>10
      <4> QED BY <4>1, <4>2, <4>3
    <3>4. SearchOpen'
      BY <1>4, <1>5, <2>8, <2>13 DEF SearchOpen
    <3>5. EnumerationInv'
      BY <1>1, <1>7, <2>10, <2>13, <3>2, <3>3, <3>4 DEF EnumerationInv
    <3>6. CallInv' /\ AnswerRight'
      BY <1>2, <2>10, <3>1, <3>5 DEF CallInv, AnswerRight, Idle
    <3> QED BY <1>6, <2>9, <2>11, <3>1, <3>6 DEF AnswerInv
  <2>14. CASE call.op = "parseToNode"
    <3>1. pc' = "idle" /\ answer' = Nodes(res)
      BY <2>1, <2>14 DEF Use
    <3>2. answer' = [ok |-> TRUE, text |-> TextOf(1)]
      <4>1. res.text = asked.text /\ res.rank = Shown(1)
        BY <2>4
      <4> HIDE DEF res
      <4> QED BY <3>1, <4>1 DEF Nodes, TextOf
    <3>3. Due' = [ok |-> TRUE, text |-> TextOf(1)]
      BY <1>1, <1>4, <1>9, <2>6, <2>10, <2>14 DEF Due
    <3>4. CallInv' /\ AnswerRight'
      BY <1>2, <2>10, <3>1, <3>2, <3>3 DEF CallInv, AnswerRight
    <3> QED BY <1>6, <2>9, <2>11, <3>1, <3>4 DEF AnswerInv
  <2>15. CASE call.op \in {"parseNBestInit", "parseLattice"}
    <3>1. pc' = "idle" /\ answer' = Done
      BY <2>1, <2>15 DEF Use
    <3>2. Due' = Done
      BY <1>1, <1>4, <1>9, <2>10, <2>15 DEF Due
    <3>3. CallInv' /\ AnswerRight'
      BY <1>2, <2>10, <3>1, <3>2 DEF CallInv, AnswerRight
    <3> QED BY <1>6, <2>9, <2>11, <3>1, <3>3 DEF AnswerInv
  <2> QED BY <1>2, <2>12, <2>13, <2>14, <2>15 DEF AnalysisInv
<1> QED BY <1>8, <1>9

-----------------------------------------------------------------------------
LEMMA WriteOutAnswer ==
  ASSUME SessionInv, WriteOut
  PROVE  AnswerInv'
<1> DEFINE text == Rendered(lattice.result.text, lattice.result.rank)
           os == WriteAll(Cleared(Buffer(call.dest)), text)
<1>1. /\ pc = "write" /\ pc' = "idle" /\ UNCHANGED <<lattice, agenda, call, used, asked>>
      /\ answer' = Str(os) /\ ostrs' = Kept(os, call.dest)
  BY DEF WriteOut
<1>2. IsCall(call) /\ call.dest \in Dests /\ WriteInv /\ OwnBuffer /\ AnswerInv
  BY <1>1 DEF SessionInv, AnswerInv, CallInv
<1>3. lattice.result # None
  BY <1>1 DEF SessionInv, TypeOK
<1>4. /\ asked \in AskedType /\ (used # None => asked.text \notin TooLong)
      /\ TextOf(LastShown) = text /\ text \in Seq(PieceType)
  BY <1>3, ResultThere
<1>5. asked.served \in Nat /\ Count \in Nat
  BY <1>4, AskedNumbers
<1>6. Holds(os, call.dest, text)
  <2>1. Holds(Cleared(Buffer(call.dest)), call.dest, <<>>)
    BY <1>2, ClearedHolds
  <2>2. <<>> \in Seq(PieceType) /\ <<>> \o text = text
    BY <1>4
  <2> HIDE DEF text
  <2>3. Holds(os, call.dest, <<>> \o text)
    BY <1>2, <1>4, <2>1, <2>2, WriteAllHolds
  <2> QED BY <2>2, <2>3
<1>7. Due = [ok |-> TRUE, text |-> TextOf(LastShown)]
  <2>1. call.op = "parse" => LastShown = 1
    BY <1>2 DEF WriteInv, LastShown
  <2>2. call.op = "next" => LastShown = asked.served /\ ~ (asked.served > Count)
    BY <1>2, <1>5 DEF WriteInv, LastShown
  <2>3. call.op \in {"parse", "next", "toString"}
    BY <1>2 DEF WriteInv
  <2> QED BY <1>4, <2>1, <2>2, <2>3 DEF Due
<1>8. Due' = [ok |-> TRUE, text |-> text]
  <2>1. Due' = Due
    BY <1>1, DueSame
  <2> QED BY <1>4, <1>7, <2>1
<1> HIDE DEF text, os
<1>9. OwnBuffer'
  BY <1>1, <1>2, <1>6, KeptOwn
<1>10. Right(answer', text, call'.dest)
  BY <1>1, <1>2, <1>4, <1>6, StrRight
<1>11. AnswerRight'
  BY <1>8, <1>10, GivesText
<1> QED BY <1>1, <1>2, <1>9, <1>11, GoesOn

(* The enumeration of results. *)

LEMMA RefuseNumberAnswer ==
  ASSUME SessionInv, RefuseNumber
  PROVE  AnswerInv'
<1>1. /\ pc = "enumerate" /\ call.n \notin 1..NBestMax /\ pc' = "idle" /\ answer' = Failed
      /\ UNCHANGED <<lattice, agenda, call, used, asked>> /\ ostrs' = Kept(call.os, call.dest)
  BY DEF RefuseNumber
<1>2. IsCall(call) /\ call.dest \in Dests /\ EnumerationInv /\ OwnBuffer /\ AnswerInv
  BY <1>1 DEF SessionInv, AnswerInv, CallInv
<1>3. OwnBuffer'
  BY <1>1, <1>2, KeptOwn DEF EnumerationInv
<1>4. Due' = Failed
  <2>1. Due = Failed
    BY <1>1, <1>2 DEF Due, EnumerationInv
  <2> QED BY <1>1, <2>1, DueSame
<1>5. AnswerRight'
  BY <1>1, <1>4 DEF AnswerRight
<1> QED BY <1>1, <1>2, <1>3, <1>5, GoesOn

LEMMA EnumerateAnswer ==
  ASSUME SessionInv, Enumerate
  PROVE  AnswerInv'
<1>1. /\ pc = "enumerate" /\ pc' = "enumerate" /\ call.n \in 1..NBestMax /\ call.i < call.n
      /\ asked' = ServedOneMore /\ used' = used /\ ostrs' = ostrs
  BY DEF Enumerate
<1>2. /\ IsCall(call) /\ call.dest \in Dests /\ EnumerationInv /\ OwnBuffer
  BY <1>1 DEF SessionInv, AnswerInv, CallInv
<1>3. PICK e \in NextResult :
        /\ Advance(e)
        /\ LET res == Listed(e.text, e.rank, lattice) IN
           call' = [call EXCEPT !.i = @ + 1, !.os = WriteAll(@, Rendered(res.text, res.rank))]
  BY DEF Enumerate
<1>4. SearchOpen /\ call.i \in Nat /\ call.served \in Nat /\ asked.served = call.served + call.i
  BY <1>2 DEF EnumerationInv
<1>5. /\ asked \in AskedType /\ lattice.request_type = asked.request_type
      /\ asked.text \notin TooLong
  BY <1>4, OpenSearch
<1>6. /\ asked.served < Count /\ asked'.served = asked.served + 1
      /\ asked'.text = asked.text /\ asked'.request_type = asked.request_type
      /\ Listed(e.text, e.rank, lattice) = [text |-> asked.text, rank |-> Shown(asked.served + 1)]
      /\ lattice'.request_type = lattice.request_type
      /\ agenda' = Remaining' /\ ResultShown' /\ SearchOpen'
  BY <1>1, <1>3, <1>4, TakesNext
<1>7. Count \in Nat /\ Count' = Count
  BY <1>5, <1>6, AskedNumbers, SameText
<1> DEFINE text == TextOf(asked.served + 1)
<1>8. call' = [call EXCEPT !.i = @ + 1, !.os = WriteAll(@, text)]
  <2> DEFINE res == Listed(e.text, e.rank, lattice)
  <2>1. res.text = asked.text /\ res.rank = Shown(asked.served + 1)
    BY <1>6
  <2>2. call' = [call EXCEPT !.i = @ + 1, !.os = WriteAll(@, Rendered(res.text, res.rank))]
    BY <1>3
  <2> HIDE DEF res
  <2> QED BY <2>1, <2>2 DEF TextOf
<1>9. text \in Seq(PieceType)
  <2>1. asked.served + 1 \in 0..Count
    BY <1>4, <1>6, <1>7
  <2> QED BY <1>5, <2>1, TextTypes
<1> HIDE DEF text
<1>10. /\ IsCall(call') /\ call'.i = call.i + 1 /\ call'.os = WriteAll(call.os, text)
       /\ call'.op = call.op /\ call'.n = call.n /\ call'.dest = call.dest
       /\ call'.served = call.served
  BY <1>2, <1>8 DEF IsCall
<1>11. Enumeration(call.served, call.i) \in Seq(PieceType)
  BY <1>4, <1>5, EnumerationType
<1>12. Holds(call'.os, call'.dest, Enumeration(call.served, call.i) \o text)
  <2>1. Holds(call.os, call.dest, Enumeration(call.served, call.i))
    BY <1>2 DEF EnumerationInv
  <2>2. Holds(WriteAll(call.os, text), call.dest, Enumeration(call.served, call.i) \o text)
    BY <1>2, <1>9, <1>11, <2>1, WriteAllHolds
  <2> QED BY <1>10, <2>2
<1>13. Enumeration(call.served, call.i)' = Enumeration(call.served, call.i) \o text
  <2>1. Enumeration(call.served, call.i + 1) = Enumeration(call.served, call.i) \o TextOf(call.served + call.i + 1)
    BY <1>4, <1>5, <1>6, EnumerationMore
  <2>2. Enumeration(call.served, call.i)' = Enumeration(call.served, call.i + 1)
    <3>1. Left(call.served)' = Left(call.served)
      BY <1>7, <1>10 DEF Left
    <3>2. \A i : TextOf(call.served + i)' = TextOf(call.served + i)
      BY <1>6, <1>10 DEF TextOf, Shown
    <3> DEFINE m == IF call.i + 1 <= Left(call.served) THEN call.i + 1 ELSE Left(call.served)
    <3>3. Enumeration(call.served, call.i)' = FlattenSeq([i \in 1..m |-> TextOf(call.served + i)'])
      BY <1>10, <3>1 DEF Enumeration
    <3>4. [i \in 1..m |-> TextOf(call.served + i)'] = [i \in 1..m |-> TextOf(call.served + i)]
      BY <3>2
    <3> QED BY <3>3, <3>4 DEF Enumeration
  <2> QED BY <1>4, <2>1, <2>2 DEF text
<1>14. EnumerationInv'
  <2>1. Holds(call.os, call.dest, Enumeration(call.served, call.i))'
    BY <1>12, <1>13
  <2>2. (call.op \in {"parseNBest", "enumNBest"})'
    BY <1>2, <1>10 DEF EnumerationInv
  <2>3. /\ (call.i \in Nat /\ call.served \in Nat /\ asked.served = call.served + call.i)'
        /\ (call.i > 0 => call.n \in 1..NBestMax /\ call.i <= call.n /\ asked.served <= Count)'
    BY <1>1, <1>4, <1>6, <1>7, <1>10
  <2> QED BY <1>6, <2>1, <2>2, <2>3 DEF EnumerationInv
<1>15. ResultInv'
  BY <1>1, <1>5, <1>6 DEF ResultInv
<1>16. CallInv' /\ AnswerRight' /\ OwnBuffer'
  BY <1>1, <1>2, <1>10, <1>14 DEF CallInv, AnswerRight, Idle, OwnBuffer
<1> QED BY <1>6, <1>15, <1>16 DEF AnswerInv

LEMMA EndEnumerationAnswer ==
  ASSUME SessionInv, EndEnumeration
  PROVE  AnswerInv'
<1>1. /\ pc = "enumerate" /\ call.n \in 1..NBestMax /\ (call.i = call.n \/ ~ HasNext)
      /\ pc' = "idle" /\ answer' = Str(call.os)
      /\ UNCHANGED <<lattice, agenda, call, used, asked>> /\ ostrs' = Kept(call.os, call.dest)
  BY DEF EndEnumeration
<1>2. IsCall(call) /\ call.dest \in Dests /\ EnumerationInv /\ OwnBuffer /\ AnswerInv
  BY <1>1 DEF SessionInv, AnswerInv, CallInv
<1>3. /\ SearchOpen /\ call.op \in {"parseNBest", "enumNBest"}
      /\ call.i \in Nat /\ call.served \in Nat /\ asked.served = call.served + call.i
      /\ (call.i > 0 => call.i <= call.n /\ asked.served <= Count)
      /\ Holds(call.os, call.dest, Enumeration(call.served, call.i))
  BY <1>2 DEF EnumerationInv
<1>4. asked \in AskedType /\ asked.text \notin TooLong /\ Count \in Nat
  BY <1>3, OpenSearch, AskedNumbers
<1>5. Enumeration(call.served, call.n) = Enumeration(call.served, call.i)
  <2>1. CASE call.i = call.n
    BY <2>1
  <2>2. CASE ~ HasNext
    <3>1. Count <= asked.served
      BY <1>3, <2>2, NoneLeft
    <3>2. Left(call.served) <= call.i /\ Left(call.served) \in Nat
      BY <1>3, <1>4, <3>1 DEF Left
    <3>3. Left(call.served) <= call.n \/ call.n < Left(call.served)
      BY <1>1, <3>2
    <3>4. call.i <= call.n
      BY <1>1, <1>3
    <3>5. (IF call.n <= Left(call.served) THEN call.n ELSE Left(call.served)) = Left(call.served)
      BY <1>1, <1>3, <3>2, <3>4
    <3>6. (IF call.i <= Left(call.served) THEN call.i ELSE Left(call.served)) = Left(call.served)
      BY <1>3, <3>2
    <3> QED BY <3>5, <3>6 DEF Enumeration
  <2> QED BY <1>1, <2>1, <2>2
<1> DEFINE text == Enumeration(call.served, call.i)
<1>6. text \in Seq(PieceType)
  BY <1>3, <1>4, EnumerationType
<1>7. Due' = [ok |-> TRUE, text |-> text]
  <2>1. Due = [ok |-> TRUE, text |-> text]
    BY <1>1, <1>3, <1>4, <1>5 DEF Due
  <2> QED BY <1>1, <2>1, DueSame
<1>8. Holds(call.os, call.dest, text)
  BY <1>3
<1> HIDE DEF text
<1>9. OwnBuffer'
  BY <1>1, <1>2, <1>8, KeptOwn
<1>10. Right(answer', text, call'.dest)
  BY <1>1, <1>2, <1>6, <1>8, StrRight
<1>11. AnswerRight'
  BY <1>7, <1>10, GivesText
<1> QED BY <1>1, <1>2, <1>9, <1>11, GoesOn

(* A result of the caller's own. *)

LEMMA SetResultInv ==
  ASSUME SessionInv, pc = "setResult"
  PROVE  /\ lattice.result = None /\ used = None /\ asked \in AskedType
         /\ IsCall(call) /\ call.dest \in Dests /\ call.op = "setResult"
         /\ asked.served = call.n /\ asked.request_type = {} /\ OwnBuffer
<1>1. lattice.result = None
  BY DEF SessionInv, AnswerInv, ResultInv
<1>2. used = None /\ asked \in AskedType
  BY DEF SessionInv, CallsInv, SearchInv, TypeOK
<1>3. /\ IsCall(call) /\ call.dest \in Dests /\ call.op = "setResult"
      /\ asked.served = call.n /\ asked.request_type = {} /\ OwnBuffer
  BY DEF SessionInv, AnswerInv, CallInv
<1> QED BY <1>1, <1>2, <1>3

LEMMA CopyFeatureAnswer ==
  ASSUME SessionInv, CopyFeature
  PROVE  AnswerInv'
<1>1. /\ pc = "setResult" /\ pc' = "setResult" /\ call' = [call EXCEPT !.i = @ + 1]
      /\ UNCHANGED <<ostrs, used, asked>>
  BY DEF CopyFeature
<1>2. /\ lattice.result = None /\ IsCall(call) /\ call.dest \in Dests /\ call.op = "setResult"
      /\ asked.served = call.n /\ asked.request_type = {} /\ OwnBuffer
  BY <1>1, SetResultInv
<1>3. lattice'.result = None
  BY <1>2 DEF CopyFeature, Overwritten, SessionInv, TypeOK, LatticeType
<1>4. /\ IsCall(call') /\ call'.op = "setResult" /\ call'.n = call.n /\ call'.dest = call.dest
  BY <1>1, <1>2 DEF IsCall
<1>5. ResultInv' /\ ~ SearchOpen' /\ AnswerRight' /\ OwnBuffer'
  BY <1>1, <1>2, <1>3 DEF ResultInv, SearchOpen, AnswerRight, Idle, OwnBuffer
<1>6. CallInv'
  BY <1>1, <1>2, <1>4 DEF CallInv
<1> QED BY <1>5, <1>6 DEF AnswerInv

LEMMA EndSetResultAnswer ==
  ASSUME SessionInv, EndSetResult
  PROVE  AnswerInv'
<1>1. /\ pc = "setResult" /\ pc' = "idle" /\ answer' = Done
      /\ lattice' = [lattice EXCEPT !.result = [text |-> asked.text, rank |-> call.n]]
      /\ UNCHANGED <<agenda, ostrs, call, used, asked>>
  BY DEF EndSetResult
<1>2. /\ used = None /\ IsCall(call) /\ call.dest \in Dests /\ call.op = "setResult"
      /\ asked.served = call.n /\ asked.request_type = {} /\ OwnBuffer /\ asked \in AskedType
  BY <1>1, SetResultInv
<1>3. call.n \in 1..Count
  BY <1>1, <1>2 DEF SessionInv, CallsInv, IInv, ResultKnown, Count
<1>4. LastShown' = call.n /\ Shown(LastShown)' = call.n
  <2>1. LastShown' = call.n
    BY <1>1, <1>2, <1>3 DEF LastShown, Count
  <2> QED BY <1>1, <1>2, <2>1 DEF Shown
<1>5. lattice'.result = [text |-> asked.text, rank |-> call.n]
  BY <1>1 DEF SessionInv, TypeOK, LatticeType
<1>6. ResultInv' /\ ~ SearchOpen' /\ OwnBuffer'
  BY <1>1, <1>2, <1>4, <1>5 DEF ResultInv, ResultShown, SearchOpen, OwnBuffer
<1>7. CallInv'
  BY <1>1, <1>2 DEF CallInv
<1>8. AnswerRight'
  <2>1. Due' = Done
    BY <1>1, <1>2 DEF Due
  <2> QED BY <1>1, <2>1 DEF AnswerRight
<1> QED BY <1>6, <1>7, <1>8 DEF AnswerInv

LEMMA NextAnswer ==
  ASSUME SessionInv, [Next]_vars
  PROVE  AnswerInv'
<1>1. CASE UNCHANGED vars
  BY <1>1, Untouched DEF SessionInv, vars
<1>2. CASE TaggerCall
  <2>1. ASSUME NEW op \in {"parse", "parseToNode", "parseNBestInit", "parseNBest"},
               NEW t \in Texts, NEW n, NEW dest \in Dests, TaggerParse(op, t, n, dest)
        PROVE  AnswerInv'
    BY <2>1, TaggerParseAnswer
  <2>2. ASSUME NEW dest \in Dests, TaggerNext(dest) PROVE AnswerInv'
    BY <2>2, CallNextAnswer DEF TaggerNext
  <2>3. ASSUME NEW t \in Texts, NEW dest \in Dests, TaggerParse("parse", t, None, dest)
        PROVE  AnswerInv'
    BY <2>1, <2>3
  <2>4. ASSUME NEW t \in Texts, NEW op \in {"parseToNode", "parseNBestInit"},
               TaggerParse(op, t, None, None)
        PROVE  AnswerInv'
    BY <2>1, <2>4, NoneIsDest
  <2>5. ASSUME NEW t \in Texts, NEW n \in Numbers, NEW dest \in Dests,
               TaggerParse("parseNBest", t, n, dest)
        PROVE  AnswerInv'
    BY <2>1, <2>5
  <2> QED BY <1>2, <2>2, <2>3, <2>4, <2>5 DEF TaggerCall
<1>3. CASE NextNode
  BY <1>3, NoneIsDest, CallNextAnswer DEF NextNode
<1>4. ASSUME NEW dest \in Dests, FormatNode(dest) PROVE AnswerInv'
  BY <1>4, FormatNodeAnswer
<1>5. CASE Work
  BY <1>5, InitPartialAnswer, AnalyzeAnswer, WriteOutAnswer, RefuseNumberAnswer,
     EnumerateAnswer, EndEnumerationAnswer, CopyFeatureAnswer, EndSetResultAnswer DEF Work
<1> QED BY <1>1, <1>2, <1>3, <1>4, <1>5, SettingAnswer, ClientAnswer DEF Next

(* For all texts, settings, buffers and sequences of calls: a call that has *)
(* ended answers what its own text, the settings of its caller and the     *)
(* number of results he has been through determine (tagger.cpp:507-1034),  *)
(* whatever earlier calls left in buffers, settings and the agenda.        *)
THEOREM AnswersAreRight == Spec => []AnswerRight
<1>1. Init => SessionInv
  <2>1. Init => RequestInv /\ SearchInv
    BY DEF Init, RequestInv, SearchInv, Analyzing
  <2> QED BY <2>1, InitTypes, InitIInv, InitAnswer DEF SessionInv, CallsInv
<1>2. SessionInv /\ [Next]_vars => SessionInv'
  <2>1. ASSUME SessionInv, [Next]_vars PROVE SessionInv'
    <3>1. TypeOK'
      BY <2>1, NextTypes DEF SessionInv, CallsInv
    <3>2. CallsInv'
      BY <2>1, NextCallsInv DEF SessionInv
    <3> QED BY <2>1, <3>1, <3>2, NextAnswer DEF SessionInv
  <2> QED BY <2>1
<1>3. SessionInv => AnswerRight
  BY DEF SessionInv, AnswerInv
<1> QED BY <1>1, <1>2, <1>3, PTL DEF Spec
=============================================================================
