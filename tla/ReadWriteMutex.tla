--------------------------- MODULE ReadWriteMutex ---------------------------
(***************************************************************************)
(* class read_write_mutex of thread.h: a spinning readers-writer lock in   *)
(* two words.  l counts the announced readers by kRcIncr and carries the   *)
(* writer's flag kWaFlag; write_pending counts the writers between the     *)
(* first line of write_lock and the last line of write_unlock.             *)
(*                                                                         *)
(* One action is one atomic access to a shared word.  An iteration of a    *)
(* spin loop that changes nothing is a stuttering step.  Any thread may    *)
(* take either side of the lock, one at a time, which is how               *)
(* scoped_reader_lock and scoped_writer_lock are used.                     *)
(***************************************************************************)
EXTENDS Integers, FiniteSets

CONSTANTS
  Threads,
  CasReturnsSuccess   \* whether compare_and_swap yields "did it swap?"
                      \* (OSAtomicCompareAndSwapInt) rather than the old
                      \* value of the word (__sync_val_compare_and_swap,
                      \* InterlockedCompareExchange)

ASSUME ThreadsAssumption == IsFiniteSet(Threads)
ASSUME CasAssumption == CasReturnsSuccess \in BOOLEAN

VARIABLES
  l,               \* l_
  write_pending,   \* write_pending_
  pc               \* where each thread is in the lock's methods

vars == <<l, write_pending, pc>>

kWaFlag == 1
kRcIncr == 2

At(t, place) == pc[t] = place
Goto(t, from, to) == At(t, from) /\ pc' = [pc EXCEPT ![t] = to]

Init ==
  /\ l = 0
  /\ write_pending = 0
  /\ pc = [t \in Threads |-> "out"]
-----------------------------------------------------------------------------
(* read_lock, read_unlock *)

CallReadLock(t) ==
  /\ Goto(t, "out", "await_no_pending")
  /\ UNCHANGED <<l, write_pending>>

\* fault: read_lock does not look at write_pending_
SeeNoPendingUnchecked(t) ==
  /\ Goto(t, "await_no_pending", "announce")
  /\ UNCHANGED <<l, write_pending>>

\* while (write_pending_ > 0): the loop is left on reading zero
SeeNoPending(t) ==
  /\ Goto(t, "await_no_pending", "announce")
  /\ ~ (write_pending > 0)
  /\ UNCHANGED <<l, write_pending>>

AnnounceReader(t) ==
  /\ Goto(t, "announce", "await_no_flag")
  /\ l' = l + kRcIncr
  /\ UNCHANGED write_pending

\* fault: the word is compared with the flag instead of masked
SeeNoFlagUnmasked(t) ==
  /\ Goto(t, "await_no_flag", "reading")
  /\ l # kWaFlag
  /\ UNCHANGED <<l, write_pending>>

\* while ((l_ & kWaFlag) != 0)
SeeNoFlag(t) ==
  /\ Goto(t, "await_no_flag", "reading")
  /\ l % 2 = 0
  /\ UNCHANGED <<l, write_pending>>

ReadUnlock(t) ==
  /\ Goto(t, "reading", "out")
  /\ l' = l - kRcIncr
  /\ UNCHANGED write_pending
-----------------------------------------------------------------------------
(* write_lock, write_unlock *)

\* fault: the writer is not announced
CallWriteLockUnannounced(t) ==
  /\ Goto(t, "out", "cas")
  /\ UNCHANGED <<l, write_pending>>

CallWriteLock(t) ==
  /\ Goto(t, "out", "cas")
  /\ write_pending' = write_pending + 1
  /\ UNCHANGED l

\* while (compare_and_swap(&l_, 0, kWaFlag)): a non-zero result loops again
LoopsAgain(old) == IF CasReturnsSuccess THEN old = 0 ELSE old # 0

\* fault: the writer waits for the flag only, not for the readers
CompareAndSwapFlagOnly(t) ==
  /\ At(t, "cas")
  /\ l' = IF l % 2 = 0 THEN l + kWaFlag ELSE l
  /\ pc' = IF l % 2 # 0 THEN pc ELSE [pc EXCEPT ![t] = "writing"]
  /\ UNCHANGED write_pending

CompareAndSwap(t) ==
  /\ At(t, "cas")
  /\ l' = IF l = 0 THEN kWaFlag ELSE l
  /\ pc' = IF LoopsAgain(l) THEN pc ELSE [pc EXCEPT ![t] = "writing"]
  /\ UNCHANGED write_pending

\* fault: the unlock stores zero instead of taking its own flag off
DropFlagByStore(t) ==
  /\ Goto(t, "writing", "drop_pending")
  /\ l' = 0
  /\ UNCHANGED write_pending

\* fault: the unlock takes a reader's share off the word
DropFlagWrongUnit(t) ==
  /\ Goto(t, "writing", "drop_pending")
  /\ l' = l - kRcIncr
  /\ UNCHANGED write_pending

\* fault: the unlock leaves the flag set
DropFlagForgotten(t) ==
  /\ Goto(t, "writing", "drop_pending")
  /\ UNCHANGED <<l, write_pending>>

\* write_unlock is two atomic steps: the flag, then the pending count
DropFlag(t) ==
  /\ Goto(t, "writing", "drop_pending")
  /\ l' = l - kWaFlag
  /\ UNCHANGED write_pending

DropPending(t) ==
  /\ Goto(t, "drop_pending", "out")
  /\ write_pending' = write_pending - 1
  /\ UNCHANGED l
-----------------------------------------------------------------------------
(* A thread calls the lock when it likes; once inside a method, or inside  *)
(* the section the scoped lock guards, it runs on.                         *)
Continue(t) ==
  \/ SeeNoPending(t) \/ AnnounceReader(t) \/ SeeNoFlag(t) \/ ReadUnlock(t)
  \/ CompareAndSwap(t) \/ DropFlag(t) \/ DropPending(t)

Next == \E t \in Threads : CallReadLock(t) \/ CallWriteLock(t) \/ Continue(t)

Spec == Init /\ [][Next]_vars

\* sched_yield lets every spinning thread run again: each thread is scheduled
Fairness == \A t \in Threads : WF_vars(Continue(t))

FairSpec == Spec /\ Fairness
-----------------------------------------------------------------------------
ReaderPlaces == {"await_no_pending", "announce", "await_no_flag", "reading"}
WriterPlaces == {"cas", "writing", "drop_pending"}

Readers == {t \in Threads : At(t, "reading")}
Writers == {t \in Threads : At(t, "writing")}
Admitted == {t \in Threads : pc[t] \in {"announce", "await_no_flag"}}
Announced == {t \in Threads : pc[t] \in {"await_no_flag", "reading"}}
Pending == {t \in Threads : pc[t] \in WriterPlaces}

(* The two words, signed in the code, never go below zero, and the program *)
(* counters have their type.                                               *)
TypeOK ==
  /\ l \in Nat
  /\ write_pending \in Nat
  /\ pc \in [Threads -> {"out"} \union ReaderPlaces \union WriterPlaces]

(* The lock's purpose: while one thread is in a write section (swap        *)
(* replacing the Viterbi of a model) no other thread is in a write or a    *)
(* read section (parse running analyze).                                   *)
MutualExclusion ==
  /\ Writers # {} => Readers = {}
  /\ \A t, u \in Writers : t = u

(* The two words are exact at every step, across the two-step              *)
(* write_unlock and any number of announced readers that still wait: l is  *)
(* two per announced reader plus one for the writer, write_pending the     *)
(* number of threads anywhere between announcing a write and its end.      *)
WordsExact ==
  /\ l = kRcIncr * Cardinality(Announced) + kWaFlag * Cardinality(Writers)
  /\ write_pending = Cardinality(Pending)

(* Writer preference, the comment on the class: a reader that has not yet  *)
(* read "no writer is pending" is held back for as long as a writer it     *)
(* found waiting is still waiting; only readers already past that check    *)
(* may enter before the writer.                                            *)
WriterPreference ==
  [][\A r, w \in Threads :
       /\ At(r, "await_no_pending")
       /\ At(w, "cas") /\ pc'[w] = "cas"
       => pc'[r] = "await_no_pending"]_vars

(* Once a reader has announced itself in l, at most the writer already     *)
(* holding the flag goes before it: no step takes the lock for writing     *)
(* while a reader is announced.                                            *)
AnnouncedNotOvertaken ==
  [][\A w \in Threads :
       (~ At(w, "writing") /\ pc'[w] = "writing") => Announced = {}]_vars

(* The two words and their loops implement the abstract writer-preference  *)
(* lock: a reader is admitted by reading "no writer is pending".           *)
Abstract == INSTANCE ReadersWriters
              WITH admitted <- Admitted, readers <- Readers,
                   pending <- Pending, writers <- Writers
ImplementsReadersWriters == Abstract!Spec

(* Some waiting writer gets in: the readers that slipped past the check    *)
(* drain and no new one is admitted.  (Which one is not promised: weak     *)
(* fairness lets one of several writers lose every compare_and_swap.)      *)
SomeWriterEnters ==
  (\E t \in Threads : At(t, "cas")) ~> (\E t \in Threads : At(t, "writing"))

(* An announced reader is never starved, whatever the writers do. *)
AnnouncedReaderEnters ==
  \A t \in Threads : At(t, "await_no_flag") ~> At(t, "reading")

(* A reader gets in once writers stop coming: the pending count returns to *)
(* zero and stays there.                                                   *)
ReaderEntersAfterWriters ==
  <>[](Pending = {}) =>
    \A t \in Threads : At(t, "await_no_pending") ~> At(t, "reading")
=============================================================================
