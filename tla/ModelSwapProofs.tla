--------------------------- MODULE ModelSwapProofs --------------------------
(***************************************************************************)
(* However many threads parse and however many swap at once, analyze runs  *)
(* on the model's own, still existing Viterbi.  Two facts carry it: the    *)
(* lock keeps swaps out of a running analyze (LockInv), and the pointer a  *)
(* swap deletes was in use before the swap's own installation, while every *)
(* Viterbi is installed at most once (FreshInv), so what is deleted is     *)
(* never what is in use now.                                               *)
(***************************************************************************)
EXTENDS ModelSwap, TLAPS

InSection == {"locked", "viterbi_installed", "request_type_installed"}
BeforeInstall == {"called", "saved", "lock_asked", "locked"}
SavedBefore == {"saved", "lock_asked", "locked"}
AfterInstall == {"viterbi_installed", "request_type_installed", "flag_dropped",
                 "unlocked"}

(* The lock's sets are the threads' places, and its sections exclude.      *)
LockInv ==
  /\ \A p \in Parsers : p \in readers <=> pc[p] = "analyzing"
  /\ \A s \in Swappers : s \in writers <=> pc[s] \in InSection
  /\ writers # {} => readers = {}
  /\ \A s, r \in writers : s = r

(* v has been the model's Viterbi already.                                 *)
OnceInUse(v) ==
  /\ v \in Viterbis \ unused
  /\ \A s \in Swappers : pc[s] \in BeforeInstall => incoming[s] # v

FreshInv ==
  /\ OnceInUse(viterbi) /\ Live(viterbi)
  /\ \A v \in unused : Live(v)
  /\ \A s \in Swappers : pc[s] \in BeforeInstall =>
        incoming[s] \in Viterbis \ unused /\ Live(incoming[s])
  /\ \A s, r \in Swappers :
        /\ pc[s] \in BeforeInstall /\ pc[r] \in BeforeInstall
        /\ incoming[s] = incoming[r]
        => s = r
  /\ \A s \in Swappers : pc[s] \in SavedBefore => OnceInUse(held[s])
  /\ \A s \in Swappers : pc[s] \in AfterInstall =>
        OnceInUse(held[s]) /\ held[s] # viterbi

HeldInv == \A p \in Parsers : pc[p] = "analyzing" => held[p] = viterbi

(* The types that the argument needs of the variables. *)
Typed ==
  /\ viterbi \in Viterbis
  /\ deletions \in [Viterbis -> Nat]
  /\ unused \subseteq Viterbis
  /\ readers \subseteq Parsers /\ writers \subseteq Swappers
  /\ pc \in [Threads -> Places]
  /\ held \in [Threads -> Locals]
  /\ incoming \in [Swappers -> Locals]

IInv == Typed /\ LockInv /\ FreshInv /\ HeldInv

(* Nobody holds the lock or a pointer at the start, and the only Viterbi   *)
(* in use is the first.                                                    *)
LEMMA InitIInv == Init => IInv
<1> SUFFICES ASSUME Init PROVE IInv
  OBVIOUS
<1> USE ModelSwapAssumption DEF Init, Lock!Init, Threads
<1>1. Typed
  BY DEF Typed, Locals, Places
<1>2. LockInv /\ HeldInv
  BY DEF LockInv, HeldInv, InSection
<1>3. FreshInv
  BY DEF FreshInv, OnceInUse, Live, BeforeInstall, SavedBefore, AfterInstall
<1>4. QED  BY <1>1, <1>2, <1>3 DEF IInv

(* A parser's step touches neither the model nor any Viterbi. *)
LEMMA ParserKeepsIInv ==
  ASSUME IInv, NEW p \in Parsers, ParserStep(p)
  PROVE  IInv'
<1> USE ModelSwapAssumption DEF ParserStep, Goto, CopyTheta, CopyRequestType,
      SetSentence, EnterReadLock, BeginParse, EndParse, BeginRead, EndRead,
      BeginQuery, EndQuery, Lock!Admit, Lock!BeginRead, Lock!EndRead,
      modelVars, heapVars, mutexVars, threadVars, Threads, Places
<1>0. /\ UNCHANGED <<viterbi, deletions, unused, writers, incoming>>
      /\ \A s \in Swappers : pc'[s] = pc[s] /\ held'[s] = held[s]
  BY DEF IInv, Typed
<1>1. Typed'
  BY DEF IInv, Typed, Locals
<1>2. LockInv'
  BY DEF IInv, Typed, LockInv, InSection
<1>3. FreshInv'
  BY <1>0 DEF IInv, FreshInv, OnceInUse, Live
<1>4. HeldInv'
  BY DEF IInv, Typed, HeldInv
<1>5. QED  BY <1>1, <1>2, <1>3, <1>4 DEF IInv

(* What every step of a swap that leaves the model alone preserves. *)
LEMMA CallKeepsIInv ==
  ASSUME IInv, NEW s \in Swappers, NEW v \in Viterbis, CallSwap(s, v)
  PROVE  IInv'
<1> USE ModelSwapAssumption DEF CallSwap, Goto, modelVars, mutexVars, Threads,
      Places
<1>1. Typed'
  BY DEF IInv, Typed, Locals
<1>2. LockInv' /\ HeldInv'
  BY DEF IInv, Typed, LockInv, HeldInv, InSection
<1>3. FreshInv'
  BY DEF IInv, Typed, FreshInv, OnceInUse, Live, BeforeInstall, SavedBefore,
     AfterInstall
<1>4. QED  BY <1>1, <1>2, <1>3 DEF IInv

LEMMA SwapKeepsIInv ==
  ASSUME IInv, NEW s \in Swappers, SwapStep(s)
  PROVE  IInv'
<1> USE ModelSwapAssumption DEF Goto, modelVars, heapVars, mutexVars,
      threadVars, Threads, Places
<1>1. CASE SaveCurrent(s)
  <2>1. Typed' /\ LockInv' /\ HeldInv'
    BY <1>1 DEF IInv, Typed, LockInv, HeldInv, InSection, SaveCurrent, Locals
  <2>2. FreshInv'
    BY <1>1 DEF IInv, Typed, FreshInv, OnceInUse, Live, BeforeInstall,
       SavedBefore, AfterInstall, SaveCurrent
  <2>3. QED  BY <2>1, <2>2 DEF IInv
<1>2. CASE AskForLock(s)
  <2>1. Typed' /\ LockInv' /\ HeldInv'
    BY <1>2 DEF IInv, Typed, LockInv, HeldInv, InSection, AskForLock,
       Lock!AskToWrite
  <2>2. FreshInv'
    BY <1>2 DEF IInv, Typed, FreshInv, OnceInUse, Live, BeforeInstall,
       SavedBefore, AfterInstall, AskForLock
  <2>3. QED  BY <2>1, <2>2 DEF IInv
<1>3. CASE LockForSwap(s)
  <2>1. Typed' /\ LockInv' /\ HeldInv'
    BY <1>3 DEF IInv, Typed, LockInv, HeldInv, InSection, LockForSwap,
       Lock!BeginWrite
  <2>2. FreshInv'
    BY <1>3 DEF IInv, Typed, FreshInv, OnceInUse, Live, BeforeInstall,
       SavedBefore, AfterInstall, LockForSwap
  <2>3. QED  BY <2>1, <2>2 DEF IInv
<1>4. CASE InstallViterbi(s)
  <2>1. incoming[s] \in Viterbis \ unused /\ Live(incoming[s])
    BY <1>4 DEF IInv, FreshInv, BeforeInstall, InstallViterbi
  <2>2. Typed' /\ LockInv'
    BY <1>4, <2>1 DEF IInv, Typed, LockInv, InSection, InstallViterbi
  <2>3. s \in writers
    BY <1>4 DEF IInv, LockInv, InSection, InstallViterbi
  <2>4. readers = {}
    BY <2>3 DEF IInv, LockInv
  <2>5. HeldInv'
    BY <1>4, <2>4 DEF IInv, Typed, LockInv, HeldInv, InstallViterbi
  <2>6. FreshInv'
    <3>1. /\ viterbi' = incoming[s] /\ UNCHANGED <<deletions, unused, held, incoming>>
          /\ pc' = [pc EXCEPT ![s] = "viterbi_installed"] /\ pc[s] = "locked"
      BY <1>4 DEF InstallViterbi
    <3>2. \A r \in Swappers : pc'[r] \in BeforeInstall <=> pc[r] \in BeforeInstall /\ r # s
      BY <3>1 DEF IInv, Typed, BeforeInstall
    <3>3. \A w : OnceInUse(w) => OnceInUse(w)'
      BY <3>1, <3>2 DEF OnceInUse
    <3>4. OnceInUse(incoming[s])'
      BY <2>1, <3>1, <3>2 DEF IInv, FreshInv, OnceInUse, BeforeInstall
    <3>5. \A r \in Swappers : pc'[r] \in SavedBefore => OnceInUse(held[r])'
      BY <3>1, <3>3 DEF IInv, Typed, FreshInv, SavedBefore
    <3>6. \A r \in Swappers : pc'[r] \in AfterInstall =>
            OnceInUse(held[r])' /\ held[r] # incoming[s]
      BY <3>1, <3>3 DEF IInv, Typed, FreshInv, OnceInUse, AfterInstall,
         SavedBefore, BeforeInstall
    <3>7. QED
      BY <2>1, <3>1, <3>2, <3>4, <3>5, <3>6 DEF IInv, FreshInv, Live
  <2>7. QED  BY <2>2, <2>5, <2>6 DEF IInv
<1>5. CASE InstallRequestType(s)
  <2>1. Typed' /\ LockInv' /\ HeldInv'
    BY <1>5 DEF IInv, Typed, LockInv, HeldInv, InSection, InstallRequestType
  <2>2. FreshInv'
    BY <1>5 DEF IInv, Typed, FreshInv, OnceInUse, Live, BeforeInstall,
       SavedBefore, AfterInstall, InstallRequestType
  <2>3. QED  BY <2>1, <2>2 DEF IInv
<1>6. CASE InstallTheta(s)
  <2>1. Typed' /\ LockInv' /\ HeldInv'
    BY <1>6 DEF IInv, Typed, LockInv, HeldInv, InSection, InstallTheta,
       Lock!EndWrite
  <2>2. FreshInv'
    BY <1>6 DEF IInv, Typed, FreshInv, OnceInUse, Live, BeforeInstall,
       SavedBefore, AfterInstall, InstallTheta
  <2>3. QED  BY <2>1, <2>2 DEF IInv
<1>7. CASE LeaveLock(s)
  <2>1. Typed' /\ LockInv' /\ HeldInv'
    BY <1>7 DEF IInv, Typed, LockInv, HeldInv, InSection, LeaveLock, Lock!Leave
  <2>2. FreshInv'
    BY <1>7 DEF IInv, Typed, FreshInv, OnceInUse, Live, BeforeInstall,
       SavedBefore, AfterInstall, LeaveLock
  <2>3. QED  BY <2>1, <2>2 DEF IInv
<1>8. CASE DeleteOld(s)
  <2>0. OnceInUse(held[s]) /\ held[s] # viterbi
    BY <1>8 DEF IInv, FreshInv, AfterInstall, DeleteOld
  <2>1. Typed' /\ LockInv' /\ HeldInv'
    BY <1>8, <2>0 DEF IInv, Typed, LockInv, HeldInv, InSection, DeleteOld,
       Locals, OnceInUse
  <2>2. FreshInv'
    <3>1. /\ UNCHANGED <<viterbi, unused>>
          /\ pc' = [pc EXCEPT ![s] = "out"] /\ pc[s] = "unlocked"
          /\ deletions' = [deletions EXCEPT ![held[s]] = @ + 1]
          /\ \A r \in Swappers \ {s} : held'[r] = held[r] /\ incoming'[r] = incoming[r]
      BY <1>8 DEF IInv, Typed, DeleteOld
    <3>2. \A v \in Viterbis : v # held[s] => deletions'[v] = deletions[v]
      BY <3>1 DEF IInv, Typed
    <3>3. \A w : OnceInUse(w) => OnceInUse(w)'
      BY <3>1 DEF IInv, Typed, OnceInUse, BeforeInstall
    <3>4. \A v \in unused : v # held[s]
      BY <2>0 DEF OnceInUse
    <3>5. \A r \in Swappers : pc[r] \in BeforeInstall => incoming[r] # held[s]
      BY <2>0 DEF OnceInUse
    <3>6. OnceInUse(viterbi)' /\ Live(viterbi)' /\ \A v \in unused : deletions'[v] = 0
      BY <2>0, <3>1, <3>2, <3>3, <3>4 DEF IInv, Typed, FreshInv, Live
    <3>7. \A r \in Swappers : pc'[r] \in BeforeInstall =>
            /\ r # s /\ pc[r] \in BeforeInstall
            /\ incoming'[r] = incoming[r] /\ deletions'[incoming[r]] = 0
      BY <3>1, <3>2, <3>5 DEF IInv, Typed, FreshInv, Live, BeforeInstall
    <3>8. \A r \in Swappers : pc'[r] \in SavedBefore =>
            r # s /\ pc[r] \in SavedBefore /\ held'[r] = held[r]
      BY <3>1 DEF IInv, Typed, SavedBefore
    <3>9. \A r \in Swappers : pc'[r] \in AfterInstall =>
            r # s /\ pc[r] \in AfterInstall /\ held'[r] = held[r]
      BY <3>1 DEF IInv, Typed, AfterInstall
    <3>10. QED
      BY <3>1, <3>3, <3>6, <3>7, <3>8, <3>9 DEF IInv, FreshInv, Live, OnceInUse
  <2>3. QED  BY <2>1, <2>2 DEF IInv
<1>9. QED
  BY <1>1, <1>2, <1>3, <1>4, <1>5, <1>6, <1>7, <1>8 DEF SwapStep

(* Every step keeps the invariant. *)
LEMMA NextIInv == IInv /\ [Next]_vars => IInv'
<1> SUFFICES ASSUME IInv, [Next]_vars PROVE IInv'
  OBVIOUS
<1>1. CASE UNCHANGED vars
  BY <1>1 DEF vars, modelVars, heapVars, mutexVars, threadVars, IInv, Typed,
     LockInv, FreshInv, OnceInUse, Live, HeldInv
<1>2. QED
  BY <1>1, ParserKeepsIInv, CallKeepsIInv, SwapKeepsIInv DEF Next

(* For any number of parsing and of swapping threads, also when swaps run  *)
(* at the same time: analyze never runs on a Viterbi that a swap has       *)
(* replaced or deleted.                                                    *)
THEOREM AnalyzeRunsOnCurrent == Spec => []AnalyzeOnCurrent
<1>1. IInv => AnalyzeOnCurrent
  BY DEF IInv, HeldInv, FreshInv, AnalyzeOnCurrent
<1>2. QED  BY InitIInv, NextIInv, <1>1, PTL DEF Spec
-----------------------------------------------------------------------------
(* Settings.  A swap that has the lock is the only one, so that between    *)
(* its assignments the new values belong to the Viterbi just installed.    *)

HalfInstalled == {"viterbi_installed", "request_type_installed"}

SettingsInv ==
  /\ \A s \in Swappers : pc[s] \in HalfInstalled => incoming[s] = viterbi
  /\ \A s \in Swappers : pc[s] = "request_type_installed" => request_type = viterbi
  /\ (\A s \in Swappers : pc[s] \notin HalfInstalled) => request_type = viterbi /\ theta = viterbi

LEMMA ParserKeepsSettings ==
  ASSUME IInv, SettingsInv, NEW p \in Parsers, ParserStep(p)
  PROVE  SettingsInv' /\ UNCHANGED <<request_type, theta>>
<1>1. /\ UNCHANGED <<viterbi, request_type, theta, incoming>>
      /\ \A s \in Swappers : pc'[s] = pc[s]
  BY ModelSwapAssumption DEF IInv, Typed, ParserStep, Goto, CopyTheta, CopyRequestType,
     SetSentence, EnterReadLock, BeginParse, EndParse, BeginRead, EndRead,
     BeginQuery, EndQuery, modelVars, heapVars, mutexVars, threadVars, Threads
<1>2. QED  BY <1>1 DEF SettingsInv

LEMMA SwapKeepsSettings ==
  ASSUME IInv, SettingsInv, NEW s \in Swappers,
         SwapStep(s) \/ \E v \in Viterbis : CallSwap(s, v)
  PROVE  /\ SettingsInv'
         /\ request_type' \in {request_type, viterbi} /\ theta' \in {theta, viterbi}
<1> USE DEF Goto, modelVars, heapVars, mutexVars, threadVars, Threads
<1>1. ASSUME pc[s] \in InSection, NEW r \in Swappers, r # s PROVE pc[r] \notin InSection
  BY <1>1 DEF IInv, LockInv
<1>2. pc \in [Threads -> Places] /\ incoming \in [Swappers -> Locals]
  BY DEF IInv, Typed
<1>3. CASE InstallViterbi(s)
  <2>1. \A r \in Swappers : r # s => pc'[r] \notin InSection
    BY <1>1, <1>2, <1>3 DEF InstallViterbi, InSection
  <2>2. pc'[s] = "viterbi_installed" /\ viterbi' = incoming[s] /\ UNCHANGED <<incoming, request_type, theta>>
    BY <1>2, <1>3 DEF InstallViterbi
  <2>3. QED  BY <2>1, <2>2 DEF SettingsInv, InSection, HalfInstalled
<1>4. CASE InstallRequestType(s)
  <2>1. \A r \in Swappers : r # s => pc'[r] \notin InSection
    BY <1>1, <1>2, <1>4 DEF InstallRequestType, InSection
  <2>2. /\ pc'[s] = "request_type_installed" /\ request_type' = incoming[s]
        /\ incoming[s] = viterbi /\ UNCHANGED <<incoming, viterbi, theta>>
    BY <1>2, <1>4 DEF InstallRequestType, SettingsInv, HalfInstalled
  <2>3. QED  BY <2>1, <2>2 DEF SettingsInv, InSection, HalfInstalled
<1>5. CASE InstallTheta(s)
  <2>1. \A r \in Swappers : pc'[r] \notin InSection
    BY <1>1, <1>2, <1>5 DEF InstallTheta, InSection
  <2>2. /\ theta' = incoming[s] /\ incoming[s] = viterbi /\ request_type = viterbi
        /\ UNCHANGED <<incoming, viterbi, request_type>>
    BY <1>2, <1>5 DEF InstallTheta, SettingsInv, HalfInstalled
  <2>3. QED  BY <2>1, <2>2 DEF SettingsInv, InSection, HalfInstalled
<1>6. CASE \/ SaveCurrent(s) \/ AskForLock(s) \/ LockForSwap(s) \/ LeaveLock(s) \/ DeleteOld(s)
           \/ \E v \in Viterbis : CallSwap(s, v)
  <2>1. /\ UNCHANGED <<viterbi, request_type, theta>>
        /\ pc[s] \notin HalfInstalled /\ pc'[s] \notin HalfInstalled
        /\ \A r \in Swappers : r # s => pc'[r] = pc[r] /\ incoming'[r] = incoming[r]
    BY <1>2, <1>6 DEF SaveCurrent, AskForLock, LockForSwap, LeaveLock, DeleteOld, CallSwap, HalfInstalled
  <2>2. QED  BY <2>1 DEF SettingsInv, HalfInstalled
<1>7. QED  BY <1>3, <1>4, <1>5, <1>6 DEF SwapStep

ModelInv == IInv /\ SettingsInv /\ TypeOK

LEMMA InitModelInv == Init => ModelInv
<1> SUFFICES ASSUME Init PROVE SettingsInv /\ TypeOK
  BY InitIInv DEF ModelInv
<1> USE ModelSwapAssumption DEF Init, Lock!Init, Threads
<1>1. SettingsInv
  BY DEF SettingsInv, HalfInstalled
<1>2. TypeOK
  BY DEF TypeOK, Locals, Places
<1>3. QED  BY <1>1, <1>2

LEMMA NextModelInv == ModelInv /\ [Next]_vars => ModelInv'
<1> SUFFICES ASSUME ModelInv, [Next]_vars PROVE SettingsInv' /\ TypeOK'
  BY NextIInv DEF ModelInv
<1> USE ModelSwapAssumption DEF ModelInv
<1>1. Typed' /\ Typed
  BY NextIInv DEF IInv
<1>2. ASSUME NEW p \in Parsers, ParserStep(p) PROVE SettingsInv' /\ TypeOK'
  <2> USE DEF Goto, modelVars, heapVars, mutexVars, threadVars
  <2>1. SettingsInv' /\ UNCHANGED <<request_type, theta>>
    BY <1>2, ParserKeepsSettings
  <2>2. pending' = pending /\ admitted' \subseteq Parsers
    BY <1>2 DEF TypeOK, ParserStep, CopyTheta, CopyRequestType, SetSentence,
       EnterReadLock, BeginParse, EndParse, BeginRead, EndRead, BeginQuery,
       EndQuery, Lock!Admit, Lock!BeginRead, Lock!EndRead
  <2>3. lattice' \in [Parsers -> Locals]
    <3>1. held[p] \in Locals /\ None \in Locals
      BY <1>1 DEF Typed, Threads, Locals
    <3>2. \/ lattice' = [lattice EXCEPT ![p] = None] \/ lattice' = [lattice EXCEPT ![p] = held[p]]
          \/ lattice' = lattice
      BY <1>2 DEF ParserStep, CopyTheta, CopyRequestType, SetSentence,
         EnterReadLock, BeginParse, EndParse, BeginRead, EndRead, BeginQuery, EndQuery
    <3>3. QED  BY <3>1, <3>2 DEF TypeOK
  <2>4. tagger' \in [Parsers -> [theta : Locals, request_type : Locals]]
    <3>1. theta \in Locals /\ request_type \in Locals
      BY DEF TypeOK, Locals
    <3>2. CASE CopyTheta(p)
      BY <3>1, <3>2 DEF TypeOK, CopyTheta
    <3>3. CASE CopyRequestType(p)
      BY <3>1, <3>3 DEF TypeOK, CopyRequestType
    <3>4. CASE UNCHANGED tagger
      BY <3>4 DEF TypeOK
    <3>5. QED
      BY <1>2, <3>2, <3>3, <3>4 DEF ParserStep, SetSentence, EnterReadLock,
         BeginParse, EndParse, BeginRead, EndRead, BeginQuery, EndQuery
  <2>5. QED  BY <1>1, <2>1, <2>2, <2>3, <2>4 DEF TypeOK, Typed
<1>3. ASSUME NEW s \in Swappers, SwapStep(s) \/ \E v \in Viterbis : CallSwap(s, v)
      PROVE  SettingsInv' /\ TypeOK'
  <2> USE DEF modelVars, heapVars, mutexVars, threadVars
  <2>1. /\ SettingsInv'
        /\ request_type' \in {request_type, viterbi} /\ theta' \in {theta, viterbi}
    BY <1>3, SwapKeepsSettings
  <2>2. UNCHANGED <<admitted, lattice, tagger>> /\ pending' \subseteq Swappers
    BY <1>3 DEF TypeOK, SwapStep, CallSwap, SaveCurrent, AskForLock, LockForSwap,
       InstallViterbi, InstallRequestType, InstallTheta, LeaveLock, DeleteOld,
       Lock!AskToWrite, Lock!BeginWrite, Lock!EndWrite, Lock!Leave
  <2>3. QED  BY <1>1, <2>1, <2>2 DEF TypeOK, Typed
<1>4. CASE UNCHANGED vars
  BY <1>4 DEF vars, modelVars, heapVars, mutexVars, threadVars, SettingsInv, TypeOK
<1>5. QED  BY <1>2, <1>3, <1>4 DEF Next

(* Every variable keeps its type, whatever the threads. *)
THEOREM TypeCorrect == Spec => []TypeOK
<1>1. ModelInv => TypeOK
  BY DEF ModelInv
<1>2. QED  BY InitModelInv, NextModelInv, <1>1, PTL DEF Spec

(* Also when swaps run at the same time, the settings that swap installs   *)
(* (tagger.cpp:410-412) are those of one model once the lock is free.      *)
THEOREM SettingsTogether == Spec => []SettingsMatchViterbi
<1>1. ModelInv => SettingsMatchViterbi
  BY DEF ModelInv, IInv, LockInv, SettingsInv, SettingsMatchViterbi, HalfInstalled, InSection
<1>2. QED  BY InitModelInv, NextModelInv, <1>1, PTL DEF Spec

-----------------------------------------------------------------------------
(* One swap at a time.  What swap saved before it had the lock is then     *)
(* still the model's, so what it deletes is what it replaced; any other    *)
(* Viterbi that left the model has been deleted by an earlier swap.        *)

SoleSwapper == \A s, r \in Swappers : s = r

HeapInv ==
  /\ \A v \in Viterbis : deletions[v] <= 1
  /\ \A s \in Swappers : pc[s] \in SavedBefore => held[s] = viterbi
  /\ \A s \in Swappers : pc[s] \in AfterInstall => held[s] \in Viterbis /\ Live(held[s])
  /\ \A v \in Viterbis \ (unused \union {viterbi}) :
        Live(v) => \E s \in Swappers : \/ pc[s] \in BeforeInstall /\ incoming[s] = v
                                       \/ pc[s] \in AfterInstall /\ held[s] = v

LEMMA ParserKeepsHeap ==
  ASSUME IInv, HeapInv, NEW p \in Parsers, ParserStep(p)
  PROVE  HeapInv'
<1>1. /\ UNCHANGED <<viterbi, deletions, unused, incoming>>
      /\ \A s \in Swappers : pc'[s] = pc[s] /\ held'[s] = held[s]
  BY ModelSwapAssumption DEF IInv, Typed, ParserStep, Goto, CopyTheta, CopyRequestType,
     SetSentence, EnterReadLock, BeginParse, EndParse, BeginRead, EndRead,
     BeginQuery, EndQuery, modelVars, heapVars, mutexVars, threadVars, Threads
<1>2. QED  BY <1>1 DEF HeapInv, Live

LEMMA SwapKeepsHeap ==
  ASSUME SoleSwapper, IInv, HeapInv, NEW s \in Swappers,
         SwapStep(s) \/ \E v \in Viterbis : CallSwap(s, v)
  PROVE  HeapInv'
<1> USE DEF Goto, modelVars, heapVars, mutexVars, threadVars, Threads
<1>1. \A r \in Swappers : r = s
  BY DEF SoleSwapper
<1>2. /\ viterbi \in Viterbis /\ deletions \in [Viterbis -> Nat] /\ unused \subseteq Viterbis
      /\ pc \in [Threads -> Places] /\ held \in [Threads -> Locals]
      /\ incoming \in [Swappers -> Locals]
  BY DEF IInv, Typed
<1>3. CASE \E v \in Viterbis : CallSwap(s, v)
  BY <1>1, <1>2, <1>3 DEF CallSwap, HeapInv, Live, BeforeInstall, SavedBefore, AfterInstall
<1>4. CASE SaveCurrent(s)
  BY <1>1, <1>2, <1>4 DEF SaveCurrent, HeapInv, Live, BeforeInstall, SavedBefore, AfterInstall
<1>5. CASE AskForLock(s)
  BY <1>1, <1>2, <1>5 DEF AskForLock, HeapInv, Live, BeforeInstall, SavedBefore, AfterInstall
<1>6. CASE LockForSwap(s)
  BY <1>1, <1>2, <1>6 DEF LockForSwap, HeapInv, Live, BeforeInstall, SavedBefore, AfterInstall
<1>7. CASE InstallViterbi(s)
  <2>1. Live(viterbi)
    BY DEF IInv, FreshInv
  <2>2. QED
    BY <1>1, <1>2, <1>7, <2>1 DEF InstallViterbi, HeapInv, Live, BeforeInstall, SavedBefore, AfterInstall
<1>8. CASE InstallRequestType(s)
  BY <1>1, <1>2, <1>8 DEF InstallRequestType, HeapInv, Live, BeforeInstall, SavedBefore, AfterInstall
<1>9. CASE InstallTheta(s)
  BY <1>1, <1>2, <1>9 DEF InstallTheta, HeapInv, Live, BeforeInstall, SavedBefore, AfterInstall
<1>10. CASE LeaveLock(s)
  BY <1>1, <1>2, <1>10 DEF LeaveLock, HeapInv, Live, BeforeInstall, SavedBefore, AfterInstall
<1>11. CASE DeleteOld(s)
  <2>1. /\ pc[s] = "unlocked" /\ pc'[s] = "out" /\ UNCHANGED <<viterbi, unused>>
        /\ deletions' = [deletions EXCEPT ![held[s]] = @ + 1]
    BY <1>2, <1>11 DEF DeleteOld
  <2>2. held[s] \in Viterbis /\ deletions[held[s]] = 0
    BY <2>1 DEF HeapInv, AfterInstall, Live
  <2>3. deletions'[held[s]] = 1 /\ \A v \in Viterbis : v # held[s] => deletions'[v] = deletions[v]
    BY <1>2, <2>1, <2>2
  <2>4. \A v \in Viterbis : deletions'[v] <= 1
    BY <2>3, SMT DEF HeapInv
  <2>5. \A v \in Viterbis \ (unused \union {viterbi}) : deletions'[v] # 0
    BY <1>1, <2>1, <2>3 DEF HeapInv, Live, BeforeInstall, AfterInstall
  <2>6. \A r \in Swappers : pc'[r] = "out"
    BY <1>1, <2>1
  <2>7. QED
    BY <2>1, <2>4, <2>5, <2>6 DEF HeapInv, Live, SavedBefore, AfterInstall
<1>12. QED  BY <1>3, <1>4, <1>5, <1>6, <1>7, <1>8, <1>9, <1>10, <1>11 DEF SwapStep

LEMMA HeapInvariant ==
  ASSUME SoleSwapper
  PROVE  Spec => [](IInv /\ HeapInv)
<1>1. Init => IInv /\ HeapInv
  <2>1. Init => HeapInv
    BY ModelSwapAssumption DEF Init, HeapInv, Live, SavedBefore, AfterInstall, Threads
  <2>2. QED  BY <2>1, InitIInv
<1>2. IInv /\ HeapInv /\ [Next]_vars => (IInv /\ HeapInv)'
  <2>1. ASSUME IInv, HeapInv, UNCHANGED vars PROVE HeapInv'
    BY <2>1 DEF vars, modelVars, heapVars, mutexVars, threadVars, HeapInv, Live
  <2>2. ASSUME IInv, HeapInv, Next PROVE HeapInv'
    BY <2>2, ParserKeepsHeap, SwapKeepsHeap DEF Next
  <2>3. QED  BY <2>1, <2>2, NextIInv
<1>3. QED  BY <1>1, <1>2, PTL DEF Spec

(* With swaps one after another, parsing threads or not, no Viterbi is     *)
(* deleted twice (tagger.cpp:407, 415).                                    *)
THEOREM SoleSwapperDeletesOnce ==
  ASSUME SoleSwapper
  PROVE  Spec => []DeletedOnce
<1>1. IInv /\ HeapInv => DeletedOnce
  BY DEF HeapInv, DeletedOnce
<1>2. QED  BY <1>1, HeapInvariant, PTL

(* And none is forgotten.                                                  *)
THEOREM SoleSwapperLeaksNothing ==
  ASSUME SoleSwapper
  PROVE  Spec => []NoLeak
<1>1. IInv /\ HeapInv => NoLeak
  BY DEF HeapInv, NoLeak, BeforeInstall, AfterInstall
<1>2. QED  BY <1>1, HeapInvariant, PTL
=============================================================================
