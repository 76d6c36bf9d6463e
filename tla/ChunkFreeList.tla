--------------------------- MODULE ChunkFreeList ---------------------------
(***************************************************************************)
(* ChunkFreeList<char> of freelist.h, the pool that a lattice takes the    *)
(* memory of its strings from: chunks that are never given back, and a     *)
(* cursor (li, pi) behind the last string.  free() only resets the cursor. *)
(*                                                                         *)
(* allocated, bytes, most and long observe the pool: the regions given out *)
(* since the last free, their total size, the largest total ever, and how  *)
(* many requests were longer than ShortRequest, which is any size below a  *)
(* chunk's.                                                                *)
(***************************************************************************)
EXTENDS Integers, Sequences

CONSTANTS
  DefaultSize,    \* of a chunk, in bytes (BUF_SIZE)
  ShortRequest    \* requests above it are counted in long

ASSUME DefaultSizeAssumption ==
  DefaultSize \in Nat \ {0} /\ ShortRequest \in 0 .. DefaultSize - 1

\* chunk 0 and below: memory that is not the pool's
Region == [chunk : Int, from : Nat, size : Nat]

Bigger(m, n) == IF m >= n THEN m ELSE n

EmptyPool == [freelist |-> <<>>, li |-> 1, pi |-> 0,
              allocated |-> {}, bytes |-> 0, most |-> 0, long |-> 0]

\* fault: the cursor stays in the chunk it had reached
FreeSameChunk(p) == [p EXCEPT !.pi = 0, !.allocated = {}, !.bytes = 0]

Free(p) == [freelist |-> p.freelist, li |-> 1, pi |-> 0,
            allocated |-> {}, bytes |-> 0, most |-> p.most, long |-> p.long]

\* where chunk i is free from, once the cursor has come to it
Start(p, i) == IF i = p.li THEN p.pi ELSE 0

Fits(p, i, req) == Start(p, i) + req < p.freelist[i]

\* the one chunk that alloc(req) stops at, behind the last if none fits
FirstFit(p, req) ==
  { i \in p.li .. Len(p.freelist) + 1 :
      /\ \A j \in p.li .. i - 1 : ~ Fits(p, j, req)
      /\ i <= Len(p.freelist) => Fits(p, i, req) }

\* long requests so far, with this one
LongRequests(p, req) == IF req > ShortRequest THEN p.long + 1 ELSE p.long

Given(p, i, req) == [chunk |-> i, from |-> Start(p, i), size |-> req]

\* fault: the cursor stops one byte short
TakeOneShort(p, i, req) ==
  [p EXCEPT !.freelist = IF i > Len(@) THEN Append(@, Bigger(req, DefaultSize)) ELSE @,
            !.li = i, !.pi = Start(p, i) + req - 1,
            !.allocated = @ \union {Given(p, i, req)},
            !.bytes = @ + req, !.most = Bigger(@, p.bytes + req),
            !.long = LongRequests(p, req)]

\* the pool after alloc(req) at chunk i, a new chunk if there is none yet
Take(p, i, req) ==
  [freelist |-> IF i > Len(p.freelist) THEN Append(p.freelist, Bigger(req, DefaultSize))
                ELSE p.freelist,
   li |-> i, pi |-> Start(p, i) + req,
   allocated |-> p.allocated \union {Given(p, i, req)},
   bytes |-> p.bytes + req, most |-> Bigger(p.most, p.bytes + req),
   long |-> LongRequests(p, req)]

Overlap(r, s) ==
  /\ r.chunk = s.chunk
  /\ r.from < s.from + s.size /\ s.from < r.from + r.size

-----------------------------------------------------------------------------

(* Strings allocated since the last free lie inside their chunks and do    *)
(* not share a byte.                                                       *)
Disjoint(p) ==
  /\ \A r \in p.allocated :
       /\ r.chunk \in 1..Len(p.freelist)
       /\ 0 <= r.from /\ r.from + r.size <= p.freelist[r.chunk]
  /\ \A r, s \in p.allocated : Overlap(r, s) => r = s

(* However often the pool is freed and used: without long requests its     *)
(* chunks, the first apart, are paid for by the heaviest use between two   *)
(* frees, since a chunk that short requests pass is full but for less than *)
(* one of them; and a long request adds no more than one chunk and what a  *)
(* heaviest use may need behind it.                                        *)
Bounded(p) ==
  LET filled == DefaultSize - ShortRequest
  IN  (Len(p.freelist) - 1) * filled <= p.most + p.long * (p.most + filled)
=============================================================================
