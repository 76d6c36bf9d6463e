----------------------------- MODULE ModelSwap ------------------------------
(***************************************************************************)
(* ModelImpl::swap against the taggers that share the model (tagger.cpp).  *)
(*                                                                         *)
(* A Viterbi owns the dictionaries, the connection matrix and the property *)
(* table of a model; the nodes a parse builds point at its features.  swap *)
(* puts the Viterbi, request type and theta of a new model in place of the *)
(* current ones under the writer lock and deletes the old Viterbi after    *)
(* unlocking.  TaggerImpl::parse holds the reader lock around analyze and  *)
(* nothing else: the lattice is read after the unlock, and createTagger,   *)
(* lookup, transition_cost and dictionary_info read the model unlocked.    *)
(*                                                                         *)
(* A Viterbi's identity stands for its contents, and a request type or a   *)
(* theta is named by the Viterbi it was loaded with.  The lock is the      *)
(* abstract one that ReadWriteMutex implements.  swap(0) returns early and *)
(* changes nothing, so it is no action; a Viterbi and a Writer exist from  *)
(* the constructor on, so is_available() is true of every created model.   *)
(***************************************************************************)
EXTENDS Naturals, FiniteSets

CONSTANTS
  Parsers,    \* threads, each with a Tagger and a Lattice of its own
  Swappers,   \* threads that call Model::swap
  Viterbis,   \* the Viterbi objects ever created, one per model
  First,      \* the one of the shared model when it is opened
  None

ASSUME ModelSwapAssumption ==
  /\ Parsers \intersect Swappers = {}
  /\ First \in Viterbis
  /\ None \notin Viterbis

VARIABLES
  viterbi,        \* viterbi_ of the shared model
  request_type,   \* request_type_, as the Viterbi it was loaded with
  theta,          \* theta_, likewise
  deletions,      \* how often the destructor of each Viterbi has run
  unused,         \* Viterbis of models not yet handed to swap
  admitted, readers, pending, writers,   \* the model's mutex_
  pc,
  held,           \* the Viterbi pointer a thread has loaded into a local
  incoming,       \* the Viterbi of the model passed to a running swap
  lattice,        \* whose features the nodes of a thread's lattice use
  tagger          \* request_type_ and theta_ of a thread's tagger

modelVars == <<viterbi, request_type, theta>>
heapVars == <<deletions, unused>>
threadVars == <<held, incoming, lattice, tagger>>
mutexVars == <<admitted, readers, pending, writers>>
vars == <<modelVars, heapVars, mutexVars, pc, threadVars>>

Threads == Parsers \union Swappers
Lock == INSTANCE ReadersWriters

Goto(t, from, to) == pc[t] = from /\ pc' = [pc EXCEPT ![t] = to]

Init ==
  /\ viterbi = First /\ request_type = First /\ theta = First
  /\ deletions = [v \in Viterbis |-> 0]
  /\ unused = Viterbis \ {First}
  /\ Lock!Init
  /\ pc = [t \in Threads |-> "out"]
  /\ held = [t \in Threads |-> None]
  /\ incoming = [t \in Swappers |-> None]
  /\ lattice = [t \in Parsers |-> None]
  /\ tagger = [t \in Parsers |-> [theta |-> None, request_type |-> None]]
-----------------------------------------------------------------------------
(* createTagger: open copies both settings, then they are copied again;    *)
(* the second copies, theta first, are the ones that stay                  *)
CopyTheta(p) ==
  /\ Goto(p, "out", "copy_request_type")
  /\ tagger' = [tagger EXCEPT ![p].theta = theta]
  /\ UNCHANGED <<modelVars, heapVars, mutexVars, held, incoming, lattice>>

CopyRequestType(p) ==
  /\ Goto(p, "copy_request_type", "out")
  /\ tagger' = [tagger EXCEPT ![p].request_type = request_type]
  /\ UNCHANGED <<modelVars, heapVars, mutexVars, held, incoming, lattice>>

\* Lattice::set_sentence frees the nodes of the sentence before
SetSentence(p) ==
  /\ Goto(p, "out", "sentence_set")
  /\ tagger[p].request_type # None
  /\ lattice' = [lattice EXCEPT ![p] = None]
  /\ UNCHANGED <<modelVars, heapVars, mutexVars, held, incoming, tagger>>

\* scoped_reader_lock: the first loop of read_lock
EnterReadLock(p) ==
  /\ Goto(p, "sentence_set", "admitted")
  /\ Lock!Admit(p)
  /\ UNCHANGED <<modelVars, heapVars, threadVars>>

\* fault: analyze runs without the reader lock
BeginParseUnlocked(p) ==
  /\ Goto(p, "admitted", "analyzing")
  /\ held' = [held EXCEPT ![p] = viterbi]
  /\ UNCHANGED <<modelVars, heapVars, mutexVars, incoming, lattice, tagger>>

\* the rest of read_lock, then model()->viterbi()
BeginParse(p) ==
  /\ Goto(p, "admitted", "analyzing")
  /\ Lock!BeginRead(p)
  /\ held' = [held EXCEPT ![p] = viterbi]
  /\ UNCHANGED <<modelVars, heapVars, incoming, lattice, tagger>>

\* analyze has linked nodes of the Viterbi it ran on into the lattice
EndParse(p) ==
  /\ Goto(p, "analyzing", "parsed")
  /\ Lock!EndRead(p)
  /\ lattice' = [lattice EXCEPT ![p] = held[p]]
  /\ held' = [held EXCEPT ![p] = None]
  /\ UNCHANGED <<modelVars, heapVars, incoming, tagger>>

\* toString, formatNode or the caller's own walk over the nodes
BeginRead(p) ==
  /\ Goto(p, "parsed", "reading_nodes")
  /\ UNCHANGED <<modelVars, heapVars, mutexVars, threadVars>>

EndRead(p) ==
  /\ Goto(p, "reading_nodes", "out")
  /\ UNCHANGED <<modelVars, heapVars, mutexVars, threadVars>>

\* lookup, transition_cost, dictionary_info: viterbi_ is loaded and used
\* with no lock
BeginQuery(p) ==
  /\ Goto(p, "out", "querying")
  /\ held' = [held EXCEPT ![p] = viterbi]
  /\ UNCHANGED <<modelVars, heapVars, mutexVars, incoming, lattice, tagger>>

EndQuery(p) ==
  /\ Goto(p, "querying", "out")
  /\ held' = [held EXCEPT ![p] = None]
  /\ UNCHANGED <<modelVars, heapVars, mutexVars, incoming, lattice, tagger>>
-----------------------------------------------------------------------------
(* swap *)

CallSwap(s, v) ==
  /\ Goto(s, "out", "called")
  /\ v \in unused
  /\ unused' = unused \ {v}
  /\ incoming' = [incoming EXCEPT ![s] = v]
  /\ UNCHANGED <<modelVars, deletions, mutexVars, held, lattice, tagger>>

\* Viterbi *current_viterbi = viterbi_, before the lock is taken
SaveCurrent(s) ==
  /\ Goto(s, "called", "saved")
  /\ held' = [held EXCEPT ![s] = viterbi]
  /\ UNCHANGED <<modelVars, heapVars, mutexVars, incoming, lattice, tagger>>

\* scoped_writer_lock: the pending count, then the flag
AskForLock(s) ==
  /\ Goto(s, "saved", "lock_asked")
  /\ Lock!AskToWrite(s)
  /\ UNCHANGED <<modelVars, heapVars, threadVars>>

LockForSwap(s) ==
  /\ Goto(s, "lock_asked", "locked")
  /\ Lock!BeginWrite(s)
  /\ UNCHANGED <<modelVars, heapVars, threadVars>>

\* fault: take_viterbi clears the pointer before it is read
InstallNothing(s) ==
  /\ Goto(s, "locked", "viterbi_installed")
  /\ viterbi' = None
  /\ UNCHANGED <<request_type, theta, heapVars, mutexVars, threadVars>>

InstallViterbi(s) ==
  /\ Goto(s, "locked", "viterbi_installed")
  /\ viterbi' = incoming[s]
  /\ UNCHANGED <<request_type, theta, heapVars, mutexVars, threadVars>>

InstallRequestType(s) ==
  /\ Goto(s, "viterbi_installed", "request_type_installed")
  /\ request_type' = incoming[s]
  /\ UNCHANGED <<viterbi, theta, heapVars, mutexVars, threadVars>>

\* fault: theta_ is not taken over
InstallThetaForgotten(s) ==
  /\ Goto(s, "request_type_installed", "flag_dropped")
  /\ Lock!EndWrite(s)
  /\ UNCHANGED <<modelVars, heapVars, threadVars>>

\* fault: the lock is not given back
InstallThetaStayLocked(s) ==
  /\ Goto(s, "request_type_installed", "flag_dropped")
  /\ theta' = incoming[s]
  /\ UNCHANGED <<viterbi, request_type, heapVars, mutexVars, threadVars>>

\* the last assignment, and the first half of the scoped lock's destructor
InstallTheta(s) ==
  /\ Goto(s, "request_type_installed", "flag_dropped")
  /\ theta' = incoming[s]
  /\ Lock!EndWrite(s)
  /\ UNCHANGED <<viterbi, request_type, heapVars, threadVars>>

LeaveLock(s) ==
  /\ Goto(s, "flag_dropped", "unlocked")
  /\ Lock!Leave(s)
  /\ UNCHANGED <<modelVars, heapVars, threadVars>>

\* fault: the passed model is deleted with the Viterbi it gave away
DeleteOldAndTaken(s) ==
  /\ Goto(s, "unlocked", "out")
  /\ deletions' = [deletions EXCEPT ![held[s]] = @ + 1, ![incoming[s]] = @ + 1]
  /\ held' = [held EXCEPT ![s] = None]
  /\ incoming' = [incoming EXCEPT ![s] = None]
  /\ UNCHANGED <<modelVars, unused, mutexVars, lattice, tagger>>

\* fault: the replaced Viterbi is not deleted
DeleteNothing(s) ==
  /\ Goto(s, "unlocked", "out")
  /\ held' = [held EXCEPT ![s] = None]
  /\ incoming' = [incoming EXCEPT ![s] = None]
  /\ UNCHANGED <<modelVars, heapVars, mutexVars, lattice, tagger>>

\* delete current_viterbi, and the passed model without its Viterbi
DeleteOld(s) ==
  /\ Goto(s, "unlocked", "out")
  /\ deletions' = [deletions EXCEPT ![held[s]] = @ + 1]
  /\ held' = [held EXCEPT ![s] = None]
  /\ incoming' = [incoming EXCEPT ![s] = None]
  /\ UNCHANGED <<modelVars, unused, mutexVars, lattice, tagger>>
-----------------------------------------------------------------------------
ParserStep(p) ==
  \/ CopyTheta(p) \/ CopyRequestType(p) \/ SetSentence(p) \/ EnterReadLock(p)
  \/ BeginParse(p) \/ EndParse(p) \/ BeginRead(p) \/ EndRead(p) \/ BeginQuery(p) \/ EndQuery(p)

SwapStep(s) ==
  \/ SaveCurrent(s) \/ AskForLock(s) \/ LockForSwap(s) \/ InstallViterbi(s)
  \/ InstallRequestType(s) \/ InstallTheta(s) \/ LeaveLock(s) \/ DeleteOld(s)

Next ==
  \/ \E p \in Parsers : ParserStep(p)
  \/ \E s \in Swappers : SwapStep(s) \/ \E v \in Viterbis : CallSwap(s, v)

Spec == Init /\ [][Next]_vars

(* A thread inside parse or swap runs on.  Weak fairness is enough to get  *)
(* the writer lock: while a swap has asked for it no reader is admitted    *)
(* (ReadersWriters), and finitely many swaps compete.                      *)
Fairness ==
  /\ \A p \in Parsers : WF_vars(BeginParse(p)) /\ WF_vars(EndParse(p))
  /\ \A s \in Swappers : WF_vars(SwapStep(s))

FairSpec == Spec /\ Fairness
-----------------------------------------------------------------------------
Live(v) == deletions[v] = 0
Locals == Viterbis \union {None}
Places ==
  {"out", "copy_request_type", "sentence_set", "admitted", "analyzing",
   "parsed", "reading_nodes", "querying", "called", "saved", "lock_asked",
   "locked", "viterbi_installed", "request_type_installed", "flag_dropped",
   "unlocked"}

TypeOK ==
  /\ viterbi \in Viterbis /\ request_type \in Viterbis /\ theta \in Viterbis
  /\ deletions \in [Viterbis -> Nat]
  /\ unused \subseteq Viterbis
  /\ admitted \subseteq Parsers /\ readers \subseteq Parsers
  /\ pending \subseteq Swappers /\ writers \subseteq Swappers
  /\ pc \in [Threads -> Places]
  /\ held \in [Threads -> Locals]
  /\ incoming \in [Swappers -> Locals]
  /\ lattice \in [Parsers -> Locals]
  /\ tagger \in [Parsers -> [theta : Locals, request_type : Locals]]

(* While analyze runs, the Viterbi it runs on is still the model's and has *)
(* not been deleted, however many swaps are under way: swap deletes only   *)
(* after its turn as the writer.                                           *)
AnalyzeOnCurrent ==
  \A p \in Parsers : pc[p] = "analyzing" => held[p] = viterbi /\ Live(viterbi)

(* Outside a swap's locked section, request type and theta are those of    *)
(* the Viterbi in use.                                                     *)
SettingsMatchViterbi ==
  writers = {} => request_type = viterbi /\ theta = viterbi

(* No destructor runs twice: "This method is thread safe" (runda.h:1109).  *)
(* True of swaps called one after another, false of concurrent ones.       *)
DeletedOnce == \A v \in Viterbis : deletions[v] <= 1

(* Nothing is leaked: once no swap runs, every Viterbi ever passed to swap *)
(* but the current one has been deleted.                                   *)
NoLeak ==
  (\A s \in Swappers : pc[s] = "out") =>
    \A v \in Viterbis \ (unused \union {viterbi}) : ~ Live(v)

(* "No need to stop the parsing thread explicitly before swapping"         *)
(* (runda.h:1111): a thread reads the result of its parse while the        *)
(* Viterbi whose features its nodes point at still exists.                 *)
ReadsLiveFeatures ==
  \A p \in Parsers : pc[p] = "reading_nodes" => Live(lattice[p])

(* Every swap that is called returns, its Viterbi installed and the one it *)
(* replaced deleted, though the parsers never stop parsing.                *)
SwapReturns ==
  \A s \in Swappers : pc[s] = "called" ~> pc[s] = "out"
=============================================================================
