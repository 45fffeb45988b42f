------------------------------- MODULE ShmLock -------------------------------
(***************************************************************************)
(* The lock of the shared-memory segment: lockf on the lock file plus the   *)
(* dirty flag of the header, as the SHARED_MEM_BEGIN/END macros use them.   *)
(*                                                                         *)
(*   owner    the process the kernel has granted the lockf lock             *)
(*   flag     bit 0 of the header's flags                                   *)
(*   pc       where the thread of each process is                           *)
(*   torn     a process died inside a critical section (history)            *)
(*   noticed  since then a process got "Shared Memory Dirty" (history)      *)
(*   twice    a process has unlocked ahead of its handler (history)         *)
(*                                                                         *)
(* lockf locks belong to processes, so this is about processes that enter   *)
(* from one thread at a time.                                               *)
(***************************************************************************)
CONSTANTS Procs,   \* processes attached to the segment
          NoProc   \* nobody

ASSUME NoProcAssumption == NoProc \notin Procs

VARIABLES owner, flag, pc, torn, noticed, twice
vars == <<owner, flag, pc, torn, noticed, twice>>

Init ==
  /\ owner = NoProc /\ flag = FALSE
  /\ pc = [p \in Procs |-> "out"]
  /\ torn = FALSE /\ noticed = FALSE /\ twice = FALSE

-----------------------------------------------------------------------------

\* Mutant of Lock: lockf's result is not waited for (F_TLOCK).
LockTried(p) ==
  /\ pc[p] = "out"
  /\ owner' = IF owner = NoProc THEN p ELSE owner
  /\ pc' = [pc EXCEPT ![p] = "entering"]
  /\ UNCHANGED <<flag, torn, noticed, twice>>

\* lockf(F_LOCK) of SharedMemoryContext::lock: granted when free or already ours.
Lock(p) ==
  /\ pc[p] = "out" /\ owner \in {NoProc, p}
  /\ owner' = p
  /\ pc' = [pc EXCEPT ![p] = "entering"]
  /\ UNCHANGED <<flag, torn, noticed, twice>>

\* Mutant of Enter: the flag is set without a look at it.
EnterBlindly(p) ==
  /\ pc[p] = "entering"
  /\ flag' = TRUE
  /\ pc' = [pc EXCEPT ![p] = "cs"]
  /\ UNCHANGED <<owner, torn, noticed, twice>>

\* ShareMemHeader::enter: a set flag throws, into the handler of the macro.
Enter(p) ==
  /\ pc[p] = "entering"
  /\ flag' = TRUE
  /\ noticed' = (noticed \/ flag)
  /\ pc' = [pc EXCEPT ![p] = IF flag THEN "catch" ELSE "cs"]
  /\ UNCHANGED <<owner, torn, twice>>

\* SharedMemoryContext::unlock: clear the flag, then lockf(F_ULOCK), which only gives back
\* a lock of ours.  One step: nobody else is inside in between, and a death in between
\* leaves the same state.
Unlock(p) ==
  /\ flag' = FALSE
  /\ owner' = IF owner = p THEN NoProc ELSE owner

\* SHARED_MEM_END.
Leave(p) ==
  /\ pc[p] = "cs"
  /\ Unlock(p)
  /\ pc' = [pc EXCEPT ![p] = "out"]
  /\ UNCHANGED <<torn, noticed, twice>>

\* An exception in the critical section.
Throw(p) ==
  /\ pc[p] = "cs"
  /\ pc' = [pc EXCEPT ![p] = "catch"]
  /\ UNCHANGED <<owner, flag, torn, noticed, twice>>

\* unregistInSharedMem finds another pid in the slot, because the handle was opened by
\* another process: it unlocks, and then throws into the handler, which unlocks again.
Mismatch(p) ==
  /\ pc[p] = "cs"
  /\ Unlock(p)
  /\ pc' = [pc EXCEPT ![p] = "catch"]
  /\ twice' = TRUE
  /\ UNCHANGED <<torn, noticed>>

\* Mutant of Catch: the handler rethrows without unlocking.
CatchKeepsLock(p) ==
  /\ pc[p] = "catch"
  /\ pc' = [pc EXCEPT ![p] = "out"]
  /\ UNCHANGED <<owner, flag, torn, noticed, twice>>

\* The handler of SHARED_MEM_END: unlock, rethrow.
Catch(p) ==
  /\ pc[p] = "catch"
  /\ Unlock(p)
  /\ pc' = [pc EXCEPT ![p] = "out"]
  /\ UNCHANGED <<torn, noticed, twice>>

\* The process dies anywhere; the kernel gives its lock back, the flag stays as it is.
Crash(p) ==
  /\ pc[p] # "dead"
  /\ pc' = [pc EXCEPT ![p] = "dead"]
  /\ owner' = IF owner = p THEN NoProc ELSE owner
  /\ torn' = (torn \/ pc[p] = "cs")
  /\ noticed' = (noticed /\ pc[p] # "cs")
  /\ UNCHANGED <<flag, twice>>

\* A process opens the existing segment: buildSharedMemoryContext neither resets the
\* header nor looks at the flag, and rebuildShmFromManifest is empty.
Attach(p) ==
  /\ pc[p] = "dead" /\ owner = NoProc
  /\ pc' = [pc EXCEPT ![p] = "out"]
  /\ UNCHANGED <<owner, flag, torn, noticed, twice>>

Run(p) == Enter(p) \/ Leave(p) \/ Throw(p) \/ Mismatch(p) \/ Catch(p)

Next == \E p \in Procs : Lock(p) \/ Run(p) \/ Crash(p) \/ Attach(p)

Spec == Init /\ [][Next]_vars

\* A thread inside keeps running; it may stay outside for ever.
FairSpec == Spec /\ \A p \in Procs : WF_vars(Run(p))

-----------------------------------------------------------------------------
(* Properties *)

TypeOK ==
  /\ owner \in Procs \cup {NoProc}
  /\ flag \in BOOLEAN /\ torn \in BOOLEAN /\ noticed \in BOOLEAN /\ twice \in BOOLEAN
  /\ pc \in [Procs -> {"out", "entering", "cs", "catch", "dead"}]

\* At most one process is inside a critical section, whatever exceptions, crashes and
\* restarts happened: SHARED_MEM_BEGIN admits only the holder of the lockf lock.
MutualExclusion == \A p, q \in Procs : pc[p] = "cs" /\ pc[q] = "cs" => p = q

\* Why: a process past lock() holds the lockf lock (inductive).
LockInv == TypeOK /\ \A p \in Procs : pc[p] \in {"entering", "cs"} => owner = p

\* After a process died inside a critical section nobody gets inside before some process
\* was told "Shared Memory Dirty" by ShareMemHeader::enter, as long as every process closes
\* the handles it opened itself (the double unlock of unregistInSharedMem clears the flag of
\* whoever is inside by then).
CrashIsNoticed == \A p \in Procs : ~twice /\ pc[p] = "cs" /\ torn => noticed

\* Why: the flag is set while somebody is inside and stays set after a death there until a
\* process has run into it (inductive).
CrashInv ==
  /\ LockInv
  /\ ~twice => /\ \A p \in Procs : pc[p] = "cs" => flag
               /\ \A p \in Procs : pc[p] = "catch" => owner = p
               /\ torn /\ ~noticed => flag /\ \A p \in Procs : pc[p] \notin {"cs", "catch"}

\* Whoever gets the lock gives it back: normally, by an exception (the macro's handler
\* unlocks) or by dying.
LockIsReleased == \A p \in Procs : owner = p ~> owner # p
=============================================================================
