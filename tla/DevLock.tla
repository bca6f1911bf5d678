------------------------------- MODULE DevLock -------------------------------
(***************************************************************************)
(* The lock file of `neoorm migrate dev`: created with O_EXCL, filled with  *)
(* "pid:token:time", removed by whoever finds that its writer's pid is dead *)
(* or that it is older than staleMs, removed by its owner only after        *)
(* reading it back.  Each member of Procs is one `migrate dev` process, so  *)
(* a lock file is identified by the process that created it.  Every file    *)
(* system call is one step; processes run concurrently and may be killed.   *)
(* fn and the release are two threads of control: a SIGINT or SIGTERM       *)
(* starts the release while fn goes on, until process.exit ends both.       *)
(***************************************************************************)
EXTENDS Naturals, FiniteSets

CONSTANTS
  Procs,
  NoFile,      \* no lock file, or no holder that could be read
  MaxCrashes,  \* bound: processes killed (SIGKILL, power, a signal outside fn)
  Exits,       \* a finished process may be gone while others still contend
  Aging,       \* a lock may grow older than staleMs while its owner works
  Signals      \* SIGINT or SIGTERM may arrive while fn runs

ASSUME NoFileAssumption == NoFile \notin Procs
ASSUME ModesAssumption ==
  MaxCrashes \in Nat /\ Exits \in BOOLEAN /\ Aging \in BOOLEAN /\ Signals \in BOOLEAN

VARIABLES
  pc,       \* process -> where its lock call, or the handler's, is
  atWork,   \* processes whose fn is running
  signalled,\* processes whose onSignal has been called, while they live
  file,     \* who created the lock file that is there, or NoFile
  written,  \* that file has its content
  old,      \* that file's mtime is more than staleMs ago
  seen,     \* process -> holder it read, or NoFile ("unknown")
  expired,  \* process -> it has waited more than timeoutMs
  alive,    \* process -> its pid exists
  broken    \* processes whose lock file another one removed (history)

vars == <<pc, atWork, signalled, file, written, old, seen, expired, alive, broken>>

\* States of a process that created its lock file and has not removed it.
Owning == {"writing", "cleanup", "working", "releasing", "unlinking"}
Polling == {"open", "reading", "judging", "stat", "breaking"}
Ended == {"done", "failed"}
Gone == {"crashed", "cut"}

Init ==
  /\ pc = [p \in Procs |-> "open"] /\ atWork = {} /\ signalled = {}
  /\ file = NoFile /\ written = FALSE /\ old = FALSE
  /\ seen = [p \in Procs |-> NoFile]
  /\ expired = [p \in Procs |-> FALSE]
  /\ alive = [p \in Procs |-> TRUE]
  /\ broken = {}

Goto(p, place) == pc' = [pc EXCEPT ![p] = place]

\* Mutant: open with "w", which truncates an existing lock.
OpenTruncates(p) ==
  /\ pc[p] = "open"
  /\ file' = p /\ written' = FALSE /\ old' = FALSE /\ Goto(p, "writing")
  /\ UNCHANGED <<atWork, signalled, seen, expired, alive, broken>>

\* open(lockPath, "wx"): exactly one creator wins, the others get EEXIST.
Open(p) ==
  /\ pc[p] = "open"
  /\ \/ /\ file = NoFile
        /\ file' = p /\ written' = FALSE /\ old' = FALSE
        /\ Goto(p, "writing")
        /\ expired' = [expired EXCEPT ![p] = FALSE]   \* not looked at again
     \/ /\ file # NoFile
        /\ Goto(p, "reading")
        /\ UNCHANGED <<file, written, old, expired>>
  /\ UNCHANGED <<atWork, signalled, seen, alive, broken>>

\* fh.writeFile(content); if the file was removed meanwhile, nobody sees it.
WriteContent(p) ==
  /\ pc[p] = "writing"
  /\ \/ /\ Goto(p, "working")
        /\ atWork' = atWork \cup {p}
        /\ written' = (written \/ file = p)
        /\ old' = (old /\ file # p)
     \/ Goto(p, "cleanup") /\ UNCHANGED <<atWork, written, old>>
  /\ UNCHANGED <<signalled, file, seen, expired, alive, broken>>

\* unlink(lockPath): whatever file is there now, by its name.
Unlink(p) ==
  /\ file' = NoFile /\ written' = FALSE /\ old' = FALSE
  /\ broken' = broken \cup ({file} \ {p, NoFile})
  /\ UNCHANGED <<signalled, seen, expired, alive>>

\* Mutant: the catch closes the handle and leaves the file.
CleanUpForgotten(p) ==
  /\ pc[p] = "cleanup" /\ Goto(p, "failed")
  /\ UNCHANGED <<atWork, signalled, file, written, old, seen, expired, alive, broken>>

\* The write failed: close, tryUnlinkLock, rethrow.
CleanUp(p) == pc[p] = "cleanup" /\ Unlink(p) /\ Goto(p, "failed") /\ UNCHANGED atWork

\* readHolderDesc and parseLockPid.
ReadHolder(p) ==
  /\ pc[p] = "reading"
  /\ seen' = [seen EXCEPT ![p] = IF written THEN file ELSE NoFile]
  /\ Goto(p, "judging")
  /\ UNCHANGED <<atWork, signalled, file, written, old, expired, alive, broken>>

\* isPidAlive of the holder that was read, which is not looked at again.
Judge(p) ==
  /\ pc[p] = "judging"
  /\ Goto(p, IF seen[p] # NoFile /\ ~alive[seen[p]] THEN "breaking" ELSE "stat")
  /\ seen' = [seen EXCEPT ![p] = NoFile]
  /\ UNCHANGED <<atWork, signalled, file, written, old, expired, alive, broken>>

\* tryUnlinkLock of a lock found dead or stale, and back to the open.
Break(p) == pc[p] = "breaking" /\ Unlink(p) /\ Goto(p, "open") /\ UNCHANGED atWork

\* Mutant: the wait is never given up.
StatNoTimeout(p) ==
  /\ pc[p] = "stat"
  /\ Goto(p, IF file # NoFile /\ old THEN "breaking" ELSE "open")
  /\ UNCHANGED <<atWork, signalled, file, written, old, seen, expired, alive, broken>>

\* stat: gone, stale, or still held; then the timeout, or delay and retry.
Stat(p) ==
  /\ pc[p] = "stat"
  /\ Goto(p, CASE file = NoFile -> "open"
               [] file # NoFile /\ old -> "breaking"
               [] file # NoFile /\ ~old -> IF expired[p] THEN "failed" ELSE "open")
  /\ UNCHANGED <<atWork, signalled, file, written, old, seen, expired, alive, broken>>

\* fn returned or threw: the handlers are taken off and release() starts.
Finish(p) ==
  /\ pc[p] = "working" /\ Goto(p, "releasing")
  /\ atWork' = atWork \ {p}
  /\ UNCHANGED <<signalled, file, written, old, seen, expired, alive, broken>>

\* SIGINT or SIGTERM: onSignal starts release(), and fn goes on beside it.
Signal(p) ==
  /\ Signals /\ alive[p] /\ pc[p] = "working"
  /\ Goto(p, "releasing")
  /\ signalled' = signalled \cup {p}
  /\ UNCHANGED <<atWork, file, written, old, seen, expired, alive, broken>>

\* fn ends after the signal: the release in its finally returns at once.
FinishSignalled(p) ==
  /\ p \in signalled \cap atWork
  /\ atWork' = atWork \ {p}
  /\ UNCHANGED <<pc, signalled, file, written, old, seen, expired, alive, broken>>

\* The release is through: back from fn, or to the handler's process.exit.
AfterRelease(p) == IF p \in signalled THEN "exiting" ELSE "done"

\* The release reads the lock back: removed by now, another's, or one's own.
ReadOwn(p) ==
  /\ pc[p] = "releasing"
  /\ Goto(p, IF file = p /\ written THEN "unlinking" ELSE AfterRelease(p))
  /\ UNCHANGED <<atWork, signalled, file, written, old, seen, expired, alive, broken>>

UnlinkOwn(p) ==
  pc[p] = "unlinking" /\ Unlink(p) /\ Goto(p, AfterRelease(p)) /\ UNCHANGED atWork

\* The process ends where it is, fn with it.
Dies(p, place) ==
  /\ Goto(p, place)
  /\ atWork' = atWork \ {p} /\ signalled' = signalled \ {p}
  /\ alive' = [alive EXCEPT ![p] = FALSE]
  /\ UNCHANGED <<file, written, old, seen, expired, broken>>

\* process.exit in the handler's finally.
ProcessExit(p) == pc[p] = "exiting" /\ Dies(p, "done")

Step(p) ==
  /\ alive[p]
  /\ \/ Open(p) \/ WriteContent(p) \/ CleanUp(p)
     \/ ReadHolder(p) \/ Judge(p) \/ Break(p) \/ Stat(p)
     \/ Finish(p) \/ FinishSignalled(p)
     \/ ReadOwn(p) \/ UnlinkOwn(p) \/ ProcessExit(p)

\* The clocks: a wait passes timeoutMs, a lock file passes staleMs.
Expire(p) ==
  /\ pc[p] \in Polling /\ ~expired[p]
  /\ expired' = [expired EXCEPT ![p] = TRUE]
  /\ UNCHANGED <<pc, atWork, signalled, file, written, old, seen, alive, broken>>

Age ==
  /\ Aging /\ file # NoFile /\ ~old
  /\ old' = TRUE
  /\ UNCHANGED <<pc, atWork, signalled, file, written, seen, expired, alive, broken>>

Exit(p) ==
  /\ Exits /\ alive[p] /\ pc[p] \in Ended
  /\ alive' = [alive EXCEPT ![p] = FALSE]
  /\ UNCHANGED <<pc, atWork, signalled, file, written, old, seen, expired, broken>>

Crash(p) ==
  /\ alive[p] /\ pc[p] \notin Ended \cup Gone
  /\ Cardinality({q \in Procs : pc[q] = "crashed"}) < MaxCrashes
  /\ Dies(p, "crashed")

\* The handler's release is cut short: by a second signal (its release()
\* returns at once and process.exit follows), or because fn threw and the
\* command line's catch calls process.exit(1).
CutShort(p) ==
  /\ p \in signalled /\ pc[p] \in {"releasing", "unlinking"}
  /\ Dies(p, "cut")

AllEnded ==
  /\ \A p \in Procs : pc[p] \in Ended \cup Gone
  /\ UNCHANGED vars

Next ==
  \/ \E p \in Procs : Step(p) \/ Expire(p) \/ Signal(p) \/ Exit(p) \/ Crash(p) \/ CutShort(p)
  \/ Age \/ AllEnded

Spec == Init /\ [][Next]_vars

\* Each process keeps running, fn ends, and the clock goes on.
Fairness == \A p \in Procs : WF_vars(Step(p)) /\ WF_vars(Expire(p))
FairSpec == Spec /\ Fairness
---------------------------------------------------------------------------
(* Properties. *)

TypeOK ==
  /\ pc \in [Procs -> Owning \cup Polling \cup {"exiting"} \cup Ended \cup Gone]
  /\ atWork \in SUBSET Procs /\ signalled \in SUBSET Procs
  /\ file \in Procs \cup {NoFile} /\ written \in BOOLEAN /\ old \in BOOLEAN
  /\ seen \in [Procs -> Procs \cup {NoFile}]
  /\ expired \in [Procs -> BOOLEAN] /\ alive \in [Procs -> BOOLEAN]
  /\ broken \in SUBSET Procs

\* Never two `migrate dev` at work in one output directory.
MutualExclusion == \A p, q \in atWork : p = q

\* Two processes are at work only if one of them had its lock taken away, or
\* was signalled and is about to exit, its own lock already given up: no other
\* step of the protocol, creation, release or handler, brings two together.
ExclusiveUntilBroken ==
  \A p, q \in atWork : p = q \/ \E r \in {p, q} : r \in broken \/ pc[r] = "exiting"

\* A lock file that is there belongs to a process that still owns it, was
\* killed, or was signalled and ended before the handler had released: no
\* other process that ended leaves its lock behind.
LockHasOwner == file # NoFile => pc[file] \in Owning \cup Gone

\* Everyone who asks for the lock works with it and ends, gives up at the
\* timeout, or is killed: nobody waits for ever, whoever crashed.
EveryoneEnds ==
  \A p \in Procs : pc[p] = "open" ~> pc[p] \in Ended \cup Gone
=============================================================================
