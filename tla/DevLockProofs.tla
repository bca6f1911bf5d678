----------------------------- MODULE DevLockProofs -----------------------------
(***************************************************************************)
(* Proofs about DevLock, for any set of processes.  Whatever crashes, exits, *)
(* signals and clocks do, two processes work at once only after one of them  *)
(* had its lock removed by another, or while one that was signalled is about *)
(* to exit; and where no process dies or is signalled and no lock goes stale *)
(* neither happens and the lock is a mutual exclusion.                       *)
(***************************************************************************)
EXTENDS DevLock, FiniteSetTheorems, TLAPS

\* Every step preserves the type invariant.
LEMMA TypeStep ==
  ASSUME TypeOK, [Next]_vars
  PROVE  TypeOK'
<1> USE NoFileAssumption DEF TypeOK, Owning, Polling, Ended, Gone, Goto
<1>1. ASSUME NEW p \in Procs, Open(p) \/ WriteContent(p) \/ ReadHolder(p)
      PROVE  TypeOK'
  <2>1. CASE Open(p)
    BY <2>1 DEF Open
  <2>2. CASE WriteContent(p)
    BY <2>2 DEF WriteContent
  <2>3. CASE ReadHolder(p)
    BY <2>3 DEF ReadHolder
  <2> QED BY <1>1, <2>1, <2>2, <2>3
<1>2. ASSUME NEW p \in Procs,
             Judge(p) \/ Stat(p) \/ Finish(p) \/ FinishSignalled(p) \/ ReadOwn(p)
      PROVE  TypeOK'
  <2>1. CASE Judge(p)
    BY <2>1 DEF Judge
  <2>2. CASE Stat(p)
    BY <2>2 DEF Stat
  <2>3. CASE Finish(p) \/ FinishSignalled(p) \/ ReadOwn(p)
    BY <2>3 DEF Finish, FinishSignalled, ReadOwn, AfterRelease
  <2> QED BY <1>2, <2>1, <2>2, <2>3
<1>3. ASSUME NEW p \in Procs, CleanUp(p) \/ Break(p) \/ UnlinkOwn(p)
      PROVE  TypeOK'
  BY <1>3 DEF CleanUp, Break, UnlinkOwn, Unlink, AfterRelease
<1>4. ASSUME NEW p \in Procs, Expire(p) \/ Exit(p) \/ Signal(p)
      PROVE  TypeOK'
  BY <1>4 DEF Expire, Exit, Signal
<1>5. ASSUME NEW p \in Procs, ProcessExit(p) \/ Crash(p) \/ CutShort(p)
      PROVE  TypeOK'
  BY <1>5 DEF ProcessExit, Crash, CutShort, Dies
<1>6. CASE Age
  BY <1>6 DEF Age
<1>7. CASE UNCHANGED vars
  BY <1>7 DEF vars
<1> QED BY <1>1, <1>2, <1>3, <1>4, <1>5, <1>6, <1>7 DEF Next, Step, AllEnded

\* Every variable keeps its type.
THEOREM TypeCorrect == Spec => []TypeOK
<1>1. Init => TypeOK
  BY NoFileAssumption DEF Init, TypeOK, Owning, Polling, Ended, Gone
<1> QED BY <1>1, TypeStep, PTL DEF Spec

---------------------------------------------------------------------------
(* A lock lasts until it is removed by its owner or broken by another. *)

\* Whoever owns a lock still has its file there, or another one removed it.
OwnedOrBroken == \A p \in Procs : pc[p] \in Owning => file = p \/ p \in broken

\* fn runs between the acquisition and the release, and on beside the
\* release once the process was signalled.
WorkersHold ==
  /\ \A p \in Procs : pc[p] = "exiting" => p \in signalled
  /\ \A p \in atWork :
       \/ pc[p] = "working"
       \/ p \in signalled /\ pc[p] \in {"releasing", "unlinking", "exiting"}

\* Every step keeps fn inside its lock, or beside the release of a signal.
LEMMA WorkersHoldStep ==
  ASSUME TypeOK, WorkersHold, [Next]_vars
  PROVE  WorkersHold'
<1> USE NoFileAssumption DEF TypeOK, WorkersHold, Goto
<1>1. ASSUME NEW p \in Procs,
             Open(p) \/ ReadHolder(p) \/ Judge(p) \/ Stat(p) \/ CleanUp(p) \/ Break(p)
      PROVE  WorkersHold'
  <2>1. atWork' = atWork /\ signalled' = signalled /\ p \notin atWork
    BY <1>1 DEF Open, ReadHolder, Judge, Stat, CleanUp, Break, Unlink
  <2>2. pc'[p] # "exiting" /\ \A q \in Procs : q # p => pc'[q] = pc[q]
    BY <1>1 DEF Open, ReadHolder, Judge, Stat, CleanUp, Break
  <2> QED BY <2>1, <2>2
<1>2. ASSUME NEW p \in Procs, WriteContent(p)
      PROVE  WorkersHold'
  BY <1>2 DEF WriteContent
<1>3. ASSUME NEW p \in Procs, Finish(p) \/ FinishSignalled(p) \/ Signal(p)
      PROVE  WorkersHold'
  BY <1>3 DEF Finish, FinishSignalled, Signal
<1>4. ASSUME NEW p \in Procs, ReadOwn(p)
      PROVE  WorkersHold'
  BY <1>4 DEF ReadOwn, AfterRelease
<1>5. ASSUME NEW p \in Procs, UnlinkOwn(p)
      PROVE  WorkersHold'
  BY <1>5 DEF UnlinkOwn, Unlink, AfterRelease
<1>6. ASSUME NEW p \in Procs, ProcessExit(p) \/ Crash(p) \/ CutShort(p)
      PROVE  WorkersHold'
  BY <1>6 DEF ProcessExit, Crash, CutShort, Dies
<1>7. ASSUME NEW p \in Procs, Expire(p) \/ Exit(p)
      PROVE  WorkersHold'
  BY <1>7 DEF Expire, Exit
<1>8. CASE Age \/ UNCHANGED vars
  BY <1>8 DEF Age, vars
<1> QED BY <1>1, <1>2, <1>3, <1>4, <1>5, <1>6, <1>7, <1>8 DEF Next, Step, AllEnded

\* fn runs only inside its lock, or beside the release of a signal.
THEOREM WorkIsHeld == Spec => []WorkersHold
<1>1. Init => WorkersHold
  BY DEF Init, WorkersHold
<1> QED BY <1>1, TypeCorrect, WorkersHoldStep, PTL DEF Spec

\* Every step keeps a lock with its owner until it is broken.
LEMMA OwnedStep ==
  ASSUME TypeOK, OwnedOrBroken, [Next]_vars
  PROVE  OwnedOrBroken'
<1> USE NoFileAssumption DEF TypeOK, OwnedOrBroken, Goto
<1>1. ASSUME NEW p \in Procs, Open(p)
      PROVE  OwnedOrBroken'
  <2>1. CASE file = NoFile
    BY <1>1, <2>1 DEF Open
  <2>2. CASE file # NoFile
    BY <1>1, <2>2 DEF Open, Owning
  <2> QED BY <2>1, <2>2
<1>2. ASSUME NEW p \in Procs,
             WriteContent(p) \/ Finish(p) \/ FinishSignalled(p) \/ Signal(p) \/ ReadOwn(p)
      PROVE  OwnedOrBroken'
  <2>1. file' = file /\ broken' = broken
    BY <1>2 DEF WriteContent, Finish, FinishSignalled, Signal, ReadOwn
  <2>2. \A q \in Procs : pc'[q] \in Owning => pc[q] \in Owning
    BY <1>2 DEF WriteContent, Finish, FinishSignalled, Signal, ReadOwn, AfterRelease, Owning
  <2> QED BY <2>1, <2>2
<1>3. ASSUME NEW p \in Procs, ReadHolder(p) \/ Judge(p) \/ Stat(p)
      PROVE  OwnedOrBroken'
  <2>1. file' = file /\ broken' = broken
    BY <1>3 DEF ReadHolder, Judge, Stat
  <2>2. \A q \in Procs : pc'[q] \in Owning => pc[q] \in Owning
    BY <1>3 DEF ReadHolder, Judge, Stat, Owning
  <2> QED BY <2>1, <2>2
<1>7. ASSUME NEW p \in Procs, ProcessExit(p) \/ Crash(p) \/ CutShort(p)
      PROVE  OwnedOrBroken'
  <2>1. file' = file /\ broken' = broken
    BY <1>7 DEF ProcessExit, Crash, CutShort, Dies
  <2>2. \A q \in Procs : pc'[q] \in Owning => pc[q] \in Owning
    BY <1>7 DEF ProcessExit, Crash, CutShort, Dies, Owning
  <2> QED BY <2>1, <2>2
<1>4. ASSUME NEW p \in Procs, CleanUp(p) \/ Break(p) \/ UnlinkOwn(p)
      PROVE  OwnedOrBroken'
  <2>1. broken' = broken \cup ({file} \ {p, NoFile})
    BY <1>4 DEF CleanUp, Break, UnlinkOwn, Unlink
  <2>2. \A q \in Procs : pc'[q] \in Owning => q # p /\ pc[q] \in Owning
    BY <1>4 DEF CleanUp, Break, UnlinkOwn, AfterRelease, Owning
  <2> QED BY <2>1, <2>2
<1>5. ASSUME NEW p \in Procs, Expire(p) \/ Exit(p)
      PROVE  OwnedOrBroken'
  BY <1>5 DEF Expire, Exit
<1>6. CASE Age \/ UNCHANGED vars
  BY <1>6 DEF Age, vars
<1> QED BY <1>1, <1>2, <1>3, <1>4, <1>5, <1>6, <1>7 DEF Next, Step, AllEnded

\* The invariant that a lock lasts until broken, in every state.
THEOREM Ownership == Spec => []OwnedOrBroken
<1>1. Init => OwnedOrBroken
  BY DEF Init, OwnedOrBroken, Owning
<1> QED BY <1>1, TypeCorrect, OwnedStep, PTL DEF Spec

\* Two are at work only if one had its lock removed, or was signalled and is
\* about to exit: creation, release and handler keep all others apart.
THEOREM ExclusionUntilBroken == Spec => []ExclusiveUntilBroken
<1>1. TypeOK /\ WorkersHold /\ OwnedOrBroken => ExclusiveUntilBroken
  <2> SUFFICES ASSUME TypeOK, WorkersHold, OwnedOrBroken,
                      NEW p \in atWork, NEW q \in atWork, p # q,
                      pc[p] # "exiting", pc[q] # "exiting"
               PROVE  p \in broken \/ q \in broken
    BY DEF ExclusiveUntilBroken
  <2>1. p \in Procs /\ q \in Procs
    BY DEF TypeOK
  <2>2. pc[p] \in Owning /\ pc[q] \in Owning
    BY <2>1 DEF WorkersHold, Owning
  <2> QED BY <2>1, <2>2 DEF OwnedOrBroken
<1> QED BY <1>1, TypeCorrect, WorkIsHeld, Ownership, PTL

---------------------------------------------------------------------------
(* No lock is orphaned. *)

\* A process at work finds its own file readable, if it is still there.
WrittenByWorkers ==
  \A p \in Procs : pc[p] \in {"working", "releasing", "unlinking"} /\ file = p => written

\* Every step keeps the lock files owned and the workers' files written.
LEMMA LockHasOwnerStep ==
  ASSUME TypeOK, LockHasOwner, WrittenByWorkers, [Next]_vars
  PROVE  LockHasOwner' /\ WrittenByWorkers'
<1> USE NoFileAssumption DEF TypeOK, LockHasOwner, WrittenByWorkers, Goto, Owning, Gone
<1>1. ASSUME NEW p \in Procs, Open(p)
      PROVE  LockHasOwner' /\ WrittenByWorkers'
  BY <1>1 DEF Open
<1>2. ASSUME NEW p \in Procs, WriteContent(p)
      PROVE  LockHasOwner' /\ WrittenByWorkers'
  <2>1. file' = file /\ (written => written')
    BY <1>2 DEF WriteContent
  <2>2. CASE Goto(p, "cleanup")
    BY <1>2, <2>1, <2>2
  <2>3. CASE Goto(p, "working") /\ written' = (written \/ file = p)
    BY <1>2, <2>1, <2>3
  <2> QED BY <1>2, <2>2, <2>3 DEF WriteContent
<1>3. ASSUME NEW p \in Procs, Finish(p) \/ FinishSignalled(p) \/ Signal(p)
      PROVE  LockHasOwner' /\ WrittenByWorkers'
  BY <1>3 DEF Finish, FinishSignalled, Signal
<1>9. ASSUME NEW p \in Procs, Crash(p) \/ CutShort(p)
      PROVE  LockHasOwner' /\ WrittenByWorkers'
  BY <1>9 DEF Crash, CutShort, Dies
<1>10. ASSUME NEW p \in Procs, ProcessExit(p)
      PROVE  LockHasOwner' /\ WrittenByWorkers'
  <2>1. file # p
    BY <1>10 DEF ProcessExit
  <2> QED BY <1>10, <2>1 DEF ProcessExit, Dies
<1>4. ASSUME NEW p \in Procs, ReadOwn(p)
      PROVE  LockHasOwner' /\ WrittenByWorkers'
  <2>1. file' = file /\ written' = written /\ pc[p] = "releasing"
    BY <1>4 DEF ReadOwn
  <2>2. CASE file = p
    BY <1>4, <2>1, <2>2 DEF ReadOwn, AfterRelease
  <2>3. CASE file # p
    BY <1>4, <2>1, <2>3 DEF ReadOwn, AfterRelease
  <2> QED BY <2>2, <2>3
<1>5. ASSUME NEW p \in Procs, ReadHolder(p) \/ Judge(p) \/ Stat(p)
      PROVE  LockHasOwner' /\ WrittenByWorkers'
  <2>1. file' = file /\ written' = written /\ pc[p] \notin Owning \cup Gone
    BY <1>5 DEF ReadHolder, Judge, Stat
  <2>2. \A q \in Procs : q # p => pc'[q] = pc[q]
    BY <1>5 DEF ReadHolder, Judge, Stat
  <2>3. pc'[p] \notin Owning
    BY <1>5 DEF ReadHolder, Judge, Stat
  <2> QED BY <2>1, <2>2, <2>3
<1>6. ASSUME NEW p \in Procs, CleanUp(p) \/ Break(p) \/ UnlinkOwn(p)
      PROVE  LockHasOwner' /\ WrittenByWorkers'
  BY <1>6 DEF CleanUp, Break, UnlinkOwn, Unlink, AfterRelease
<1>7. ASSUME NEW p \in Procs, Expire(p) \/ Exit(p)
      PROVE  LockHasOwner' /\ WrittenByWorkers'
  BY <1>7 DEF Expire, Exit
<1>8. CASE Age \/ UNCHANGED vars
  BY <1>8 DEF Age, vars
<1> QED BY <1>1, <1>2, <1>3, <1>4, <1>5, <1>6, <1>7, <1>8, <1>9, <1>10
        DEF Next, Step, AllEnded

\* A lock file never outlives the process that created it, unless that
\* process was killed or the release of its signal cut short: any other
\* `migrate dev` that has finished or failed leaves no lock.
THEOREM NoOrphanedLock == Spec => []LockHasOwner
<1>1. Init => LockHasOwner /\ WrittenByWorkers
  BY DEF Init, LockHasOwner, WrittenByWorkers
<1> QED BY <1>1, TypeCorrect, LockHasOwnerStep, PTL DEF Spec

---------------------------------------------------------------------------
(* Where no process dies or is signalled, and no lock goes stale. *)

Quiet == MaxCrashes = 0 /\ Exits = FALSE /\ Aging = FALSE /\ Signals = FALSE

\* All pids live, no lock is old, nobody is about to break one or to exit.
NothingToBreak ==
  /\ \A p \in Procs : alive[p] /\ pc[p] \notin {"breaking", "crashed", "exiting"}
  /\ old = FALSE /\ broken = {} /\ signalled = {}

\* Every step leaves nothing to break.
LEMMA NothingToBreakStep ==
  ASSUME Quiet, TypeOK, OwnedOrBroken, NothingToBreak, [Next]_vars
  PROVE  NothingToBreak'
<1> USE NoFileAssumption DEF TypeOK, NothingToBreak, Goto
<1>1. ASSUME NEW p \in Procs, Open(p) \/ WriteContent(p) \/ ReadHolder(p)
      PROVE  NothingToBreak'
  BY <1>1 DEF Open, WriteContent, ReadHolder
<1>2. ASSUME NEW p \in Procs, Judge(p)
      PROVE  NothingToBreak'
  BY <1>2 DEF Judge
<1>3. ASSUME NEW p \in Procs, Stat(p) \/ Finish(p) \/ FinishSignalled(p) \/ ReadOwn(p)
      PROVE  NothingToBreak'
  BY <1>3 DEF Stat, Finish, FinishSignalled, ReadOwn, AfterRelease
<1>4. ASSUME NEW p \in Procs, CleanUp(p) \/ Break(p) \/ UnlinkOwn(p)
      PROVE  NothingToBreak'
  <2>1. pc[p] \in Owning
    BY <1>4 DEF CleanUp, Break, UnlinkOwn, Owning
  <2>2. file = p
    BY <2>1 DEF OwnedOrBroken
  <2>3. broken' = {}
    BY <1>4, <2>2 DEF CleanUp, Break, UnlinkOwn, Unlink
  <2> QED BY <1>4, <2>3 DEF CleanUp, Break, UnlinkOwn, Unlink, AfterRelease
<1>5. ASSUME NEW p \in Procs, Expire(p)
      PROVE  NothingToBreak'
  BY <1>5 DEF Expire
<1>6. ASSUME NEW p \in Procs, Crash(p)
      PROVE  FALSE
  <2>1. {q \in Procs : pc[q] = "crashed"} = {}
    OBVIOUS
  <2>2. Cardinality({q \in Procs : pc[q] = "crashed"}) = 0
    BY <2>1, FS_EmptySet
  <2> QED BY <1>6, <2>2 DEF Crash, Quiet
<1>7. ASSUME NEW p \in Procs, ProcessExit(p) \/ CutShort(p) \/ Signal(p)
      PROVE  FALSE
  BY <1>7 DEF ProcessExit, CutShort, Signal, Quiet
<1>8. CASE UNCHANGED vars
  BY <1>8 DEF vars
<1> QED BY <1>1, <1>2, <1>3, <1>4, <1>5, <1>6, <1>7, <1>8
        DEF Next, Step, Exit, Age, AllEnded, Quiet

\* Callers of one long-lived process, or of processes that outlive the
\* contention, finish within staleMs and get no signal, are mutually excluded.
THEOREM QuietExclusion == ASSUME Quiet PROVE Spec => []MutualExclusion
<1>1. Init => NothingToBreak
  BY DEF Init, NothingToBreak
<1>2. TypeOK /\ NothingToBreak /\ ExclusiveUntilBroken => MutualExclusion
  BY DEF TypeOK, NothingToBreak, ExclusiveUntilBroken, MutualExclusion
<1> QED BY <1>1, <1>2, TypeCorrect, Ownership, ExclusionUntilBroken, NothingToBreakStep, PTL DEF Spec
=============================================================================
