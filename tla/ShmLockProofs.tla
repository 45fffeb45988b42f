---------------------------- MODULE ShmLockProofs ----------------------------
(* Proofs about ShmLock, for any set of processes. *)
EXTENDS ShmLock, TLAPS

\* Nobody has called lock() yet.
LEMMA LockInvInit == Init => LockInv
BY NoProcAssumption DEF Init, LockInv, TypeOK

\* Every step of lock(), unlock() and the macros keeps the lockf lock with whoever is past
\* lock(), crashes and the double unlock of unregistInSharedMem included.
LEMMA LockInvStep == LockInv /\ [Next]_vars => LockInv'
<1> SUFFICES ASSUME LockInv, [Next]_vars PROVE LockInv'
  OBVIOUS
<1> USE NoProcAssumption DEF LockInv, TypeOK
<1>1. CASE UNCHANGED vars
  BY <1>1 DEF vars
<1>2. ASSUME NEW p \in Procs, Lock(p) PROVE LockInv'
  BY <1>2 DEF Lock
<1>3. ASSUME NEW p \in Procs, Enter(p) PROVE LockInv'
  BY <1>3 DEF Enter
<1>4. ASSUME NEW p \in Procs, Leave(p) PROVE LockInv'
  BY <1>4 DEF Leave, Unlock
<1>5. ASSUME NEW p \in Procs, Throw(p) PROVE LockInv'
  BY <1>5 DEF Throw
<1>6. ASSUME NEW p \in Procs, Mismatch(p) PROVE LockInv'
  BY <1>6 DEF Mismatch, Unlock
<1>7. ASSUME NEW p \in Procs, Catch(p) PROVE LockInv'
  BY <1>7 DEF Catch, Unlock
<1>8. ASSUME NEW p \in Procs, Crash(p) PROVE LockInv'
  BY <1>8 DEF Crash
<1>9. ASSUME NEW p \in Procs, Attach(p) PROVE LockInv'
  BY <1>9 DEF Attach
<1> QED
  BY <1>1, <1>2, <1>3, <1>4, <1>5, <1>6, <1>7, <1>8, <1>9 DEF Next, Run

\* The lock admits one process at a time, for any number of processes: lockf grants the lock
\* to one process, and only its holder gets past SharedMemoryContext::lock().
THEOREM LockExcludes == Spec => []MutualExclusion
<1>1. LockInv => MutualExclusion
  BY DEF LockInv, MutualExclusion
<1> QED
  BY LockInvInit, LockInvStep, <1>1, PTL DEF Spec

\* Nobody has died yet.
LEMMA CrashInvInit == Init => CrashInv
BY LockInvInit DEF Init, CrashInv

\* With handles closed where they were opened, the dirty flag outlives a crash inside until
\* a process runs into it; a double unlock ends the claim.
LEMMA CrashInvStep == CrashInv /\ [Next]_vars => CrashInv'
<1> SUFFICES ASSUME CrashInv, [Next]_vars PROVE CrashInv'
  OBVIOUS
<1>0. LockInv'
  BY LockInvStep DEF CrashInv
<1> USE <1>0, NoProcAssumption DEF CrashInv, LockInv, TypeOK
<1>1. CASE UNCHANGED vars
  BY <1>1 DEF vars
<1>2. ASSUME NEW p \in Procs, Lock(p) PROVE CrashInv'
  BY <1>2 DEF Lock
<1>3. ASSUME NEW p \in Procs, Enter(p) PROVE CrashInv'
  BY <1>3 DEF Enter
<1>4. ASSUME NEW p \in Procs, Leave(p) PROVE CrashInv'
  BY <1>4 DEF Leave, Unlock
<1>5. ASSUME NEW p \in Procs, Throw(p) PROVE CrashInv'
  BY <1>5 DEF Throw
<1>6. ASSUME NEW p \in Procs, Catch(p) PROVE CrashInv'
  BY <1>6 DEF Catch, Unlock
<1>7. ASSUME NEW p \in Procs, Crash(p) PROVE CrashInv'
  BY <1>7 DEF Crash
<1>8. ASSUME NEW p \in Procs, Attach(p) PROVE CrashInv'
  BY <1>8 DEF Attach
<1>9. ASSUME NEW p \in Procs, Mismatch(p) PROVE CrashInv'
  BY <1>9 DEF Mismatch
<1> QED
  BY <1>1, <1>2, <1>3, <1>4, <1>5, <1>6, <1>7, <1>8, <1>9 DEF Next, Run

\* After a death inside a critical section the first process to come is refused by
\* ShareMemHeader::enter, for any number of processes, crashes and restarts, unless
\* unregistInSharedMem has unlocked ahead of its handler.
THEOREM CrashNoticed == Spec => []CrashIsNoticed
<1>1. CrashInv => CrashIsNoticed
  BY DEF CrashInv, CrashIsNoticed
<1> QED
  BY CrashInvInit, CrashInvStep, <1>1, PTL DEF Spec
=============================================================================
