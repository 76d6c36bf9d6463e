------------------------ MODULE ReadWriteMutexProofs ------------------------
(***************************************************************************)
(* Proofs about read_write_mutex for any finite set of threads, built with *)
(* a compare_and_swap that returns the old value of the word, as the GCC   *)
(* and Windows branches of thread.h define it.                             *)
(*                                                                         *)
(* The words are exact (WordsExact): l is twice the announced readers plus *)
(* the writer.  So a zero l, which compare_and_swap requires, means nobody *)
(* is inside or announced, and an even l, which a reader waits for, means  *)
(* no writer is inside.  Mutual exclusion and exactness are inductive      *)
(* together, not separately.                                               *)
(***************************************************************************)
EXTENDS ReadWriteMutex, FiniteSetTheorems, TLAPS

\* TypeOK without the sign of the words, which follows from their exactness
Typed ==
  /\ l \in Int
  /\ write_pending \in Int
  /\ pc \in [Threads -> {"out"} \union ReaderPlaces \union WriterPlaces]

IInv == Typed /\ WordsExact /\ MutualExclusion

(* The sets of threads that the words count are finite. *)
LEMMA CountedSetsFinite ==
  /\ IsFiniteSet(Announced) /\ IsFiniteSet(Writers) /\ IsFiniteSet(Pending)
  /\ Cardinality(Announced) \in Nat
  /\ Cardinality(Writers) \in Nat
  /\ Cardinality(Pending) \in Nat
<1>1. /\ Announced \in SUBSET Threads
      /\ Writers \in SUBSET Threads
      /\ Pending \in SUBSET Threads
  BY DEF Announced, Writers, Pending
<1>2. IsFiniteSet(Announced) /\ IsFiniteSet(Writers) /\ IsFiniteSet(Pending)
  BY <1>1, FS_Subset, ThreadsAssumption
<1>3. QED  BY <1>2, FS_CardinalityType

(* The words start exact: nobody is anywhere in the lock. *)
LEMMA InitIInv == Init => IInv
<1> SUFFICES ASSUME Init PROVE IInv
  OBVIOUS
<1>1. Announced = {} /\ Writers = {} /\ Pending = {}
  BY DEF Init, Announced, Writers, Pending, At, WriterPlaces
<1>2. Typed
  BY DEF Init, Typed
<1>3. WordsExact
  BY <1>1, FS_EmptySet DEF Init, WordsExact, kRcIncr, kWaFlag
<1>4. MutualExclusion
  BY <1>1 DEF MutualExclusion, Writers
<1>5. QED  BY <1>2, <1>3, <1>4 DEF IInv

(* When no reader is announced and the flag is clear, l is zero, and only  *)
(* then: what the compare_and_swap of write_lock relies on.                *)
LEMMA ZeroMeansEmpty ==
  ASSUME IInv, l = 0
  PROVE  Announced = {} /\ Writers = {}
<1>1. Cardinality(Announced) = 0 /\ Cardinality(Writers) = 0
  BY CountedSetsFinite DEF IInv, WordsExact, kRcIncr, kWaFlag
<1>2. QED  BY <1>1, CountedSetsFinite, FS_EmptySet

(* An even l means that no writer is inside: what the second loop of       *)
(* read_lock relies on.                                                    *)
LEMMA EvenMeansNoWriter ==
  ASSUME IInv, l % 2 = 0
  PROVE  Writers = {}
<1> SUFFICES ASSUME Writers # {} PROVE FALSE
  OBVIOUS
<1>1. PICK w \in Writers : TRUE
  OBVIOUS
<1>2. Writers = {w}
  BY <1>1 DEF IInv, MutualExclusion, Writers
<1>3. Cardinality(Writers) = 1
  BY <1>2, FS_Singleton
<1>4. l = 2 * Cardinality(Announced) + 1
  BY <1>3, CountedSetsFinite DEF IInv, WordsExact, kRcIncr, kWaFlag
<1>5. QED  BY <1>4, CountedSetsFinite

(* Every step of one thread keeps the words exact and the sections apart.  *)
LEMMA NextIInv ==
  ASSUME ~ CasReturnsSuccess, IInv, [Next]_vars
  PROVE  IInv'
<1> USE DEF At, Goto
<1>t. Typed'
  BY DEF IInv, Typed, vars, Next, Continue, CallReadLock, SeeNoPending,
     AnnounceReader, SeeNoFlag, ReadUnlock, CallWriteLock, CompareAndSwap,
     LoopsAgain, DropFlag, DropPending, kRcIncr, kWaFlag, ReaderPlaces,
     WriterPlaces
<1>s. /\ IsFiniteSet(Announced) /\ Cardinality(Announced) \in Nat
      /\ IsFiniteSet(Writers) /\ Cardinality(Writers) \in Nat
      /\ IsFiniteSet(Pending) /\ Cardinality(Pending) \in Nat
  BY CountedSetsFinite
<1>1. ASSUME NEW t \in Threads, CallReadLock(t) \/ SeeNoPending(t)
      PROVE  IInv'
  <2>1. Announced' = Announced /\ Writers' = Writers /\ Pending' = Pending
    BY <1>1 DEF IInv, Typed, CallReadLock, SeeNoPending, Announced, Writers,
       Pending, WriterPlaces
  <2>2. Readers' = Readers
    BY <1>1 DEF IInv, Typed, CallReadLock, SeeNoPending, Readers
  <2>3. l' = l /\ write_pending' = write_pending
    BY <1>1 DEF CallReadLock, SeeNoPending
  <2>4. WordsExact'
    BY <2>1, <2>3 DEF IInv, WordsExact
  <2>5. MutualExclusion'
    BY <2>1, <2>2 DEF IInv, MutualExclusion
  <2>6. QED  BY <1>t, <2>4, <2>5 DEF IInv
<1>2. ASSUME NEW t \in Threads, AnnounceReader(t)
      PROVE  IInv'
  <2>1. /\ t \notin Announced /\ Announced' = Announced \union {t}
        /\ Writers' = Writers /\ Pending' = Pending /\ Readers' = Readers
    BY <1>2 DEF IInv, Typed, AnnounceReader, Announced, Writers, Pending,
       Readers, WriterPlaces
  <2>2. Cardinality(Announced') = Cardinality(Announced) + 1
    BY <2>1, <1>s, FS_AddElement
  <2>3. l' = l + 2 /\ write_pending' = write_pending
    BY <1>2 DEF AnnounceReader, kRcIncr
  <2>4. WordsExact'
    BY <2>1, <2>2, <2>3, <1>s DEF IInv, Typed, WordsExact, kRcIncr, kWaFlag
  <2>5. MutualExclusion'
    BY <2>1 DEF IInv, MutualExclusion
  <2>6. QED  BY <1>t, <2>4, <2>5 DEF IInv
<1>3. ASSUME NEW t \in Threads, SeeNoFlag(t)
      PROVE  IInv'
  <2>1. /\ Announced' = Announced /\ Writers' = Writers /\ Pending' = Pending
    BY <1>3 DEF IInv, Typed, SeeNoFlag, Announced, Writers, Pending,
       WriterPlaces
  <2>2. Writers = {}
    BY <1>3, EvenMeansNoWriter DEF SeeNoFlag
  <2>3. WordsExact'
    BY <1>3, <2>1 DEF IInv, SeeNoFlag, WordsExact
  <2>4. MutualExclusion'
    BY <2>1, <2>2 DEF MutualExclusion
  <2>5. QED  BY <1>t, <2>3, <2>4 DEF IInv
<1>4. ASSUME NEW t \in Threads, ReadUnlock(t)
      PROVE  IInv'
  <2>1. /\ t \in Announced /\ Announced' = Announced \ {t}
        /\ Writers' = Writers /\ Pending' = Pending /\ Readers' \subseteq Readers
    BY <1>4 DEF IInv, Typed, ReadUnlock, Announced, Writers, Pending,
       Readers, WriterPlaces
  <2>2. Cardinality(Announced') = Cardinality(Announced) - 1
    BY <2>1, <1>s, FS_RemoveElement
  <2>3. l' = l - 2 /\ write_pending' = write_pending
    BY <1>4 DEF ReadUnlock, kRcIncr
  <2>4. WordsExact'
    BY <2>1, <2>2, <2>3, <1>s DEF IInv, Typed, WordsExact, kRcIncr, kWaFlag
  <2>5. MutualExclusion'
    BY <2>1 DEF IInv, MutualExclusion
  <2>6. QED  BY <1>t, <2>4, <2>5 DEF IInv
<1>5. ASSUME NEW t \in Threads, CallWriteLock(t)
      PROVE  IInv'
  <2>1. /\ t \notin Pending /\ Pending' = Pending \union {t}
        /\ Announced' = Announced /\ Writers' = Writers /\ Readers' = Readers
    BY <1>5 DEF IInv, Typed, CallWriteLock, Announced, Writers, Pending,
       Readers, WriterPlaces
  <2>2. Cardinality(Pending') = Cardinality(Pending) + 1
    BY <2>1, <1>s, FS_AddElement
  <2>3. l' = l /\ write_pending' = write_pending + 1
    BY <1>5 DEF CallWriteLock
  <2>4. WordsExact'
    BY <2>1, <2>2, <2>3 DEF IInv, WordsExact
  <2>5. MutualExclusion'
    BY <2>1 DEF IInv, MutualExclusion
  <2>6. QED  BY <1>t, <2>4, <2>5 DEF IInv
<1>6. ASSUME NEW t \in Threads, CompareAndSwap(t)
      PROVE  IInv'
  <2>1. CASE l = 0
    <3>1. Announced = {} /\ Writers = {}
      BY <2>1, ZeroMeansEmpty
    <3>2. /\ pc' = [pc EXCEPT ![t] = "writing"]
          /\ l' = 1 /\ write_pending' = write_pending
      BY <1>6, <2>1 DEF CompareAndSwap, LoopsAgain, kWaFlag
    <3>3. Announced' = {} /\ Readers' = {} /\ Writers' = {t} /\ Pending' = Pending
      BY <1>6, <3>1, <3>2 DEF IInv, Typed, CompareAndSwap, Announced, Readers,
         Writers, Pending, WriterPlaces
    <3>4. Cardinality(Announced') = 0 /\ Cardinality(Writers') = 1
      BY <3>3, FS_EmptySet, FS_Singleton
    <3>5. WordsExact'
      BY <3>2, <3>3, <3>4 DEF IInv, WordsExact, kRcIncr, kWaFlag
    <3>6. MutualExclusion'
      BY <3>3 DEF MutualExclusion, Writers
    <3>7. QED  BY <1>t, <3>5, <3>6 DEF IInv
  <2>2. CASE l # 0
    <3>1. UNCHANGED vars
      BY <1>6, <2>2 DEF CompareAndSwap, LoopsAgain, vars
    <3>2. QED
      BY <3>1 DEF vars, IInv, Typed, WordsExact, MutualExclusion, Announced,
         Writers, Readers, Pending
  <2>3. QED  BY <2>1, <2>2
<1>7. ASSUME NEW t \in Threads, DropFlag(t)
      PROVE  IInv'
  <2>1. /\ t \in Writers /\ Writers' = Writers \ {t}
        /\ Announced' = Announced /\ Pending' = Pending /\ Readers' = Readers
    BY <1>7 DEF IInv, Typed, DropFlag, Announced, Writers, Pending,
       Readers, WriterPlaces
  <2>2. Cardinality(Writers') = Cardinality(Writers) - 1
    BY <2>1, <1>s, FS_RemoveElement
  <2>3. l' = l - 1 /\ write_pending' = write_pending
    BY <1>7 DEF DropFlag, kWaFlag
  <2>4. WordsExact'
    BY <2>1, <2>2, <2>3, <1>s DEF IInv, Typed, WordsExact, kRcIncr, kWaFlag
  <2>5. MutualExclusion'
    BY <2>1 DEF IInv, MutualExclusion, Writers
  <2>6. QED  BY <1>t, <2>4, <2>5 DEF IInv
<1>8. ASSUME NEW t \in Threads, DropPending(t)
      PROVE  IInv'
  <2>1. /\ t \in Pending /\ Pending' = Pending \ {t}
        /\ Announced' = Announced /\ Writers' = Writers /\ Readers' = Readers
    BY <1>8 DEF IInv, Typed, DropPending, Announced, Writers, Pending,
       Readers, WriterPlaces
  <2>2. Cardinality(Pending') = Cardinality(Pending) - 1
    BY <2>1, <1>s, FS_RemoveElement
  <2>3. l' = l /\ write_pending' = write_pending - 1
    BY <1>8 DEF DropPending
  <2>4. WordsExact'
    BY <2>1, <2>2, <2>3 DEF IInv, WordsExact
  <2>5. MutualExclusion'
    BY <2>1 DEF IInv, MutualExclusion
  <2>6. QED  BY <1>t, <2>4, <2>5 DEF IInv
<1>9. CASE UNCHANGED vars
  BY <1>9 DEF vars, IInv, Typed, WordsExact, MutualExclusion, Announced,
     Writers, Readers, Pending
<1>10. QED
  BY <1>1, <1>2, <1>3, <1>4, <1>5, <1>6, <1>7, <1>8, <1>9 DEF Next, Continue
-----------------------------------------------------------------------------
(* The inductive invariant holds in every reachable state. *)
THEOREM WordsAndSectionsInvariant ==
  ~ CasReturnsSuccess => (Spec => []IInv)
<1> SUFFICES ASSUME ~ CasReturnsSuccess PROVE Spec => []IInv
  OBVIOUS
<1>1. IInv /\ [Next]_vars => IInv'
  BY NextIInv
<1>2. QED  BY InitIInv, <1>1, PTL DEF Spec

(* The two signed words never go below zero, and pc keeps its type. *)
THEOREM TypeCorrect == ~ CasReturnsSuccess => (Spec => []TypeOK)
<1>1. IInv => TypeOK
  BY CountedSetsFinite
     DEF IInv, Typed, TypeOK, WordsExact, kRcIncr, kWaFlag
<1>2. QED  BY <1>1, WordsAndSectionsInvariant, PTL

(* swap never replaces the Viterbi while a parse runs, nor while another   *)
(* swap does: the writer's section excludes every other section.           *)
THEOREM SectionsExclusive == ~ CasReturnsSuccess => (Spec => []MutualExclusion)
<1>1. IInv => MutualExclusion
  BY DEF IInv
<1>2. QED  BY <1>1, WordsAndSectionsInvariant, PTL

(* l and write_pending count exactly, across the two-step write_unlock. *)
THEOREM WordsStayExact == ~ CasReturnsSuccess => (Spec => []WordsExact)
<1>1. IInv => WordsExact
  BY DEF IInv
<1>2. QED  BY <1>1, WordsAndSectionsInvariant, PTL

(* A reader still at the first loop of read_lock stays there while a       *)
(* writer waits: the writer is in the exact count that the loop reads.     *)
THEOREM WritersPreferred == ~ CasReturnsSuccess => (Spec => WriterPreference)
<1> SUFFICES ASSUME ~ CasReturnsSuccess PROVE Spec => WriterPreference
  OBVIOUS
<1> DEFINE Held(r, w) == /\ At(r, "await_no_pending")
                         /\ At(w, "cas") /\ pc'[w] = "cas"
<1>1. ASSUME IInv, [Next]_vars, NEW r \in Threads, NEW w \in Threads, Held(r, w)
      PROVE  pc'[r] = "await_no_pending"
  <2>1. w \in Pending
    BY <1>1 DEF Pending, WriterPlaces, At
  <2>2. write_pending > 0
    BY <1>1, <2>1, CountedSetsFinite, FS_EmptySet DEF IInv, WordsExact
  <2>3. ASSUME NEW t \in Threads, CallReadLock(t) \/ CallWriteLock(t) \/ Continue(t)
        PROVE  pc'[r] = "await_no_pending"
    <3>1. ~ SeeNoPending(r)
      BY <2>2 DEF SeeNoPending
    <3>2. CASE t = r
      BY <1>1, <2>3, <3>1, <3>2 DEF Continue, CallReadLock, CallWriteLock,
         AnnounceReader, SeeNoFlag, ReadUnlock, CompareAndSwap, DropFlag,
         DropPending, At, Goto
    <3>3. CASE t # r
      BY <1>1, <2>3, <3>3 DEF IInv, Typed, Continue, CallReadLock,
         CallWriteLock, SeeNoPending, AnnounceReader, SeeNoFlag, ReadUnlock,
         CompareAndSwap, DropFlag, DropPending, At, Goto
    <3>4. QED  BY <3>2, <3>3
  <2>4. QED  BY <1>1, <2>3 DEF Next, vars, At
<1>2. IInv /\ [Next]_vars =>
        [\A r, w \in Threads : Held(r, w) => pc'[r] = "await_no_pending"]_vars
  BY <1>1
<1>3. QED
  BY <1>2, WordsAndSectionsInvariant, PTL DEF Spec, WriterPreference

(* A writer enters only when no reader is announced: the word it swaps     *)
(* must be zero.                                                           *)
THEOREM AnnouncedReadersGoFirst ==
  ~ CasReturnsSuccess => (Spec => AnnouncedNotOvertaken)
<1> SUFFICES ASSUME ~ CasReturnsSuccess PROVE Spec => AnnouncedNotOvertaken
  OBVIOUS
<1> DEFINE Enters(w) == ~ At(w, "writing") /\ pc'[w] = "writing"
<1>1. ASSUME IInv, [Next]_vars, NEW w \in Threads, Enters(w)
      PROVE  Announced = {}
  <2>1. CompareAndSwap(w) /\ l = 0
    BY <1>1 DEF IInv, Typed, Next, vars, Continue, CallReadLock,
       CallWriteLock, SeeNoPending, AnnounceReader, SeeNoFlag, ReadUnlock,
       CompareAndSwap, LoopsAgain, DropFlag, DropPending, At, Goto
  <2>2. QED  BY <1>1, <2>1, ZeroMeansEmpty
<1>2. IInv /\ [Next]_vars =>
        [\A w \in Threads : Enters(w) => Announced = {}]_vars
  BY <1>1
<1>3. QED
  BY <1>2, WordsAndSectionsInvariant, PTL DEF Spec, AnnouncedNotOvertaken

(* The two words and their spin loops implement the abstract lock: every   *)
(* step is one of its seven, or changes nothing it sees.                   *)
THEOREM Refinement == ~ CasReturnsSuccess => (Spec => ImplementsReadersWriters)
<1> SUFFICES ASSUME ~ CasReturnsSuccess PROVE Spec => Abstract!Spec
  BY DEF ImplementsReadersWriters
<1>1. Init => Abstract!Init
  BY DEF Init, Abstract!Init, Admitted, Readers, Pending, Writers, At,
     WriterPlaces
<1>2. ASSUME IInv, [Next]_vars
      PROVE  [Abstract!Next]_(Abstract!lockVars)
  <2> USE DEF At, Goto, Admitted, Readers, Pending, Writers, WriterPlaces
  <2>1. ASSUME NEW t \in Threads, CallReadLock(t) \/ AnnounceReader(t)
        PROVE  UNCHANGED Abstract!lockVars
    BY <1>2, <2>1 DEF IInv, Typed, CallReadLock, AnnounceReader,
       Abstract!lockVars
  <2>2. ASSUME NEW t \in Threads, SeeNoPending(t)
        PROVE  Abstract!Admit(t)
    <3>1. Cardinality(Pending) = 0
      BY <1>2, <2>2, CountedSetsFinite DEF IInv, WordsExact, SeeNoPending
    <3>2. Pending = {}
      BY <3>1, CountedSetsFinite, FS_EmptySet
    <3>3. QED
      BY <1>2, <2>2, <3>2 DEF IInv, Typed, SeeNoPending, Abstract!Admit
  <2>3. ASSUME NEW t \in Threads, SeeNoFlag(t)
        PROVE  Abstract!BeginRead(t)
    <3>1. Writers = {}
      BY <1>2, <2>3, EvenMeansNoWriter DEF SeeNoFlag
    <3>2. QED
      BY <1>2, <2>3, <3>1 DEF IInv, Typed, SeeNoFlag, Abstract!BeginRead
  <2>4. ASSUME NEW t \in Threads, ReadUnlock(t)
        PROVE  Abstract!EndRead(t)
    BY <1>2, <2>4 DEF IInv, Typed, ReadUnlock, Abstract!EndRead
  <2>5. ASSUME NEW t \in Threads, CallWriteLock(t)
        PROVE  Abstract!AskToWrite(t)
    BY <1>2, <2>5 DEF IInv, Typed, CallWriteLock, Abstract!AskToWrite
  <2>6. ASSUME NEW t \in Threads, CompareAndSwap(t)
        PROVE  Abstract!BeginWrite(t) \/ UNCHANGED Abstract!lockVars
    <3>1. CASE l = 0
      <4>1. Announced = {} /\ Writers = {}
        BY <1>2, <3>1, ZeroMeansEmpty
      <4>2. Readers = {}
        BY <4>1 DEF Announced
      <4>3. pc' = [pc EXCEPT ![t] = "writing"]
        BY <2>6, <3>1 DEF CompareAndSwap, LoopsAgain
      <4>4. QED
        BY <1>2, <2>6, <4>1, <4>2, <4>3
           DEF IInv, Typed, CompareAndSwap, Abstract!BeginWrite
    <3>2. CASE l # 0
      <4>1. pc' = pc
        BY <2>6, <3>2 DEF CompareAndSwap, LoopsAgain
      <4>2. QED  BY <4>1 DEF Abstract!lockVars
    <3>3. QED  BY <3>1, <3>2
  <2>7. ASSUME NEW t \in Threads, DropFlag(t)
        PROVE  Abstract!EndWrite(t)
    BY <1>2, <2>7 DEF IInv, Typed, DropFlag, Abstract!EndWrite
  <2>8. ASSUME NEW t \in Threads, DropPending(t)
        PROVE  Abstract!Leave(t)
    BY <1>2, <2>8 DEF IInv, Typed, DropPending, Abstract!Leave
  <2>9. CASE UNCHANGED vars
    BY <2>9 DEF vars, Abstract!lockVars
  <2>10. QED
    BY <1>2, <2>1, <2>2, <2>3, <2>4, <2>5, <2>6, <2>7, <2>8, <2>9
       DEF Next, Continue, Abstract!Next
<1>3. QED
  BY <1>1, <1>2, WordsAndSectionsInvariant, PTL DEF Spec, Abstract!Spec
=============================================================================
