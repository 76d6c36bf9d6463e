--------------------------- MODULE ReadersWriters ---------------------------
(***************************************************************************)
(* What a writer-preference lock promises: no thread is in a write section *)
(* while another is in any section, and from the moment a writer asks for  *)
(* the lock no further reader is admitted until the last such writer has   *)
(* left; readers admitted before it may still enter.  ReadWriteMutex       *)
(* (thread.h) is shown to implement this, and ModelSwap composes it with   *)
(* the model and its taggers.                                              *)
(***************************************************************************)
CONSTANT Threads

VARIABLES
  admitted,   \* readers let through to the lock, not yet inside
  readers,    \* the threads inside a read section
  pending,    \* writers that have asked and not yet left altogether
  writers     \* the threads inside a write section

lockVars == <<admitted, readers, pending, writers>>

Init == admitted = {} /\ readers = {} /\ pending = {} /\ writers = {}

Admit(t) ==
  /\ pending = {}
  /\ t \notin admitted \union readers
  /\ admitted' = admitted \union {t}
  /\ UNCHANGED <<readers, pending, writers>>

BeginRead(t) ==
  /\ t \in admitted
  /\ writers = {}
  /\ admitted' = admitted \ {t}
  /\ readers' = readers \union {t}
  /\ UNCHANGED <<pending, writers>>

EndRead(t) ==
  /\ t \in readers
  /\ readers' = readers \ {t}
  /\ UNCHANGED <<admitted, pending, writers>>

AskToWrite(t) ==
  /\ t \notin pending
  /\ pending' = pending \union {t}
  /\ UNCHANGED <<admitted, readers, writers>>

BeginWrite(t) ==
  /\ t \in pending
  /\ readers = {} /\ writers = {}
  /\ writers' = {t}
  /\ UNCHANGED <<admitted, readers, pending>>

EndWrite(t) ==
  /\ t \in writers
  /\ writers' = writers \ {t}
  /\ UNCHANGED <<admitted, readers, pending>>

Leave(t) ==
  /\ t \in pending \ writers
  /\ pending' = pending \ {t}
  /\ UNCHANGED <<admitted, readers, writers>>

Next == \E t \in Threads :
  \/ Admit(t) \/ BeginRead(t) \/ EndRead(t)
  \/ AskToWrite(t) \/ BeginWrite(t) \/ EndWrite(t) \/ Leave(t)

Spec == Init /\ [][Next]_lockVars
=============================================================================
