-------------------------- MODULE AdminActiveStatus --------------------------
(***************************************************************************)
(* The administrator's handle: AdminActiveStatus registers a slot of its    *)
(* own and evicts used blocks on request (gwEvictBlocks), while the handle  *)
(* of a file makes blocks, uses them, lets them go and takes them back.     *)
(* The segment of SharedMemory and the clock sweep of ClockSweep meet here: *)
(* the variable `used' of the sweep has to stay the set of buckets that the *)
(* segment lets be evicted.                                                 *)
(*                                                                         *)
(* There is one file with one handle.  FileActiveStatus models handles in   *)
(* full; here a handle's action is one critical section of one method.      *)
(***************************************************************************)
EXTENDS ClockSweep

CONSTANTS Admins,      \* one per mounted file system
          NumToEvict,  \* the argument of gwEvictBlocks
          MaxBlocks,   \* bound on the blocks of the file
          MaxTouches,  \* bound on the handle's own usage count of a block
          MaxRounds,   \* bound on the turns of an administrator's loop
          MaxSteals    \* bound on how often the owner takes back a block being evicted

ASSUME AdminAssumption ==
  /\ NumToEvict \in 1 .. NumBuckets /\ MaxBlocks \in Nat /\ MaxRounds \in Nat
  /\ MaxTouches \in 0 .. CountLimit - 1 /\ MaxSteals \in Nat /\ Files # {}

VARIABLES shm,     \* the segment
          h,       \* the handle's slot, a pre-allocated bucket and its block array; how
                   \*   often it stole (history)
          admin,   \* administrator -> its handle
          remote   \* the blocks that the file's manifest says were evicted

avars == <<shm, h, admin, remote>>
vars == <<shm, h, admin, remote, used, usage, hand, tries, pc, start>>

TheFile == CHOOSE f \in Files : TRUE
AdminStates == {"none", "idle", "mark", "sweep", "write", "finish", "failed"}

\* bucket and blk are evictBlockInfo; rounds and evicted are history.
NewAdmin == [pc |-> "none", id |-> InvalidActiveId, bucket |-> InvalidBucketId, blk |-> InvalidBlockId,
             rounds |-> 0, evicted |-> 0]

Init ==
  /\ CSInit
  /\ shm = ResetSegment
  /\ h = [id |-> InvalidActiveId, spare |-> InvalidBucketId, blocks |-> <<>>, steals |-> 0]
  /\ admin = [a \in Admins |-> NewAdmin]
  /\ remote = {}

\* A sweep holds the lock; every other action is atomic.
Unlocked == pc = "idle"

\* The segment changes to s, and with it the buckets that can be evicted.
Commit(s) == shm' = s /\ used' = Evictable(s)
NoSweep == UNCHANGED <<hand, tries, pc, start>>

-----------------------------------------------------------------------------
(* The file's handle *)

Regist ==
  /\ Unlocked /\ h.id = InvalidActiveId /\ FreeSlot(shm) # InvalidActiveId
  /\ Commit(RegistFile(shm, TheFile, FALSE))
  /\ h' = [h EXCEPT !.id = FreeSlot(shm)]
  /\ NoSweep /\ UNCHANGED <<admin, remote, usage>>

AcquireNewBlock ==
  /\ Unlocked /\ h.id # InvalidActiveId /\ h.spare = InvalidBucketId
  /\ Len(h.blocks) < MaxBlocks /\ shm.num["free"] > 0
  /\ Commit(AcquireFreeBucket(shm, h.id, 1, TheFile))
  /\ \E b \in AcquiredBuckets(shm, 1) : h' = [h EXCEPT !.spare = b]
  /\ NoSweep /\ UNCHANGED <<admin, remote, usage>>

ExtendOneBlock ==
  /\ Unlocked /\ h.spare # InvalidBucketId
  /\ Commit(UpdateActiveFileInfo(shm, h.spare, Len(h.blocks) + 1, TheFile))
  /\ h' = [h EXCEPT !.spare = InvalidBucketId,
                    !.blocks = Append(@, [bucket |-> h.spare, active |-> TRUE, count |-> 0])]
  /\ NoSweep /\ UNCHANGED <<admin, remote, usage>>

\* getCurBlockInfo counts the access in the handle's own array, without the lock.
Touch(i) ==
  /\ i \in DOMAIN h.blocks /\ h.blocks[i].active /\ h.blocks[i].count < MaxTouches
  /\ h' = [h EXCEPT !.blocks[i].count = Wrap(@ + 1)]
  /\ UNCHANGED <<shm, admin, remote, cvars>>

\* Mutant of Counted: the sum is kept in more than 16 bits.
CountedWide(b, n) == usage[b] + n

\* The handle's count is added each time and never reset.
Counted(b, n) == Wrap(usage[b] + n)

Inactivate(i) ==
  LET b == h.blocks[i].bucket
  IN /\ Unlocked /\ i \in DOMAIN h.blocks /\ h.blocks[i].active
     /\ Commit(InactivateBuckets(shm, <<[blk |-> i, bucket |-> b]>>, TheFile, h.id))
     /\ usage' = [usage EXCEPT ![b] = Counted(b, h.blocks[i].count)]
     /\ h' = [h EXCEPT !.blocks[i].active = FALSE]
     /\ NoSweep /\ UNCHANGED <<admin, remote>>

\* The handle has caught up with the manifest: an evicted block would have to be loaded.
Activate(i) ==
  LET evicting == shm.bkt[h.blocks[i].bucket].evicting
  IN /\ Unlocked /\ i \in DOMAIN h.blocks /\ ~h.blocks[i].active /\ i \notin remote
     /\ evicting => h.steals < MaxSteals
     /\ Commit(ActivateBucket(shm, TheFile, i, h.blocks[i].bucket, h.id))
     /\ h' = [h EXCEPT !.blocks[i].active = shm'.ok, !.steals = IF evicting THEN @ + 1 ELSE @]
     /\ NoSweep /\ UNCHANGED <<admin, remote, usage>>

-----------------------------------------------------------------------------
(* Administrators *)

\* registAdmin takes the first free slot and names no file.
RegistAdmin(s) == [s EXCEPT !.act[FreeSlot(s)].used = TRUE]

Mount(a) ==
  /\ Unlocked /\ admin[a].pc = "none" /\ FreeSlot(shm) # InvalidActiveId
  /\ shm' = RegistAdmin(shm)
  /\ admin' = [admin EXCEPT ![a] = [@ EXCEPT !.pc = "idle", !.id = FreeSlot(shm)]]
  /\ UNCHANGED <<h, remote, cvars>>

\* The destructor gives the slot back without taking the lock.
Unmount(a) ==
  /\ admin[a].pc = "idle"
  /\ shm' = UnregistFile(shm, admin[a].id)
  /\ admin' = [admin EXCEPT ![a] = NewAdmin]
  /\ UNCHANGED <<h, remote, cvars>>

EvictNumOfBlocks(a) ==
  /\ admin[a].pc = "idle"
  /\ admin' = [admin EXCEPT ![a] = [@ EXCEPT !.pc = "mark"]]
  /\ UNCHANGED <<shm, h, remote, cvars>>

\* Left out: a turn that finds no used bucket goes on all the same, with the victim of the
\* turn before or, in the first turn, with an uninitialised one.
StartTurn(a) ==
  /\ Unlocked /\ admin[a].pc = "mark" /\ admin[a].rounds < MaxRounds
  /\ shm.num["used"] > 0
  /\ Begin
  /\ admin' = [admin EXCEPT ![a] = [@ EXCEPT !.pc = "sweep", !.rounds = admin[a].rounds + 1]]
  /\ UNCHANGED <<shm, h, remote>>

Sweep(a) ==
  /\ admin[a].pc = "sweep"
  /\ \/ /\ Pass \/ Skip
        /\ UNCHANGED avars
     \/ /\ GiveUp
        /\ admin' = [admin EXCEPT ![a] = [@ EXCEPT !.pc = "failed"]]
        /\ UNCHANGED <<shm, h, remote>>
     \/ /\ Find
        /\ shm' = MarkBucketEvicting(shm, hand, admin[a].id)
        /\ admin' = [admin EXCEPT ![a] = [@ EXCEPT !.pc = "write", !.bucket = hand,
                                                  !.blk = shm.bkt[hand].blk]]
        /\ UNCHANGED <<h, remote>>

\* OssBlockWorker::writeBlock, outside the lock.
WriteBlock(a) ==
  /\ admin[a].pc = "write"
  /\ admin' = [admin EXCEPT ![a] = [@ EXCEPT !.pc = "finish"]]
  /\ UNCHANGED <<shm, h, remote, cvars>>

\* The bucket becomes free and the eviction is logged, or the owner has taken it back.  The
\* loop counts mNumEvicted up but never numToEvict down, so there is always a next turn.
Finish(a) ==
  LET ad == admin[a]
      rc == EvictFinishRc(shm, ad.bucket, ad.id)
  IN /\ Unlocked /\ ad.pc = "finish"
     /\ Commit(EvictBucketFinishAndTryFree(shm, ad.bucket, ad.id))
     /\ usage' = IF rc = 2 THEN usage ELSE [usage EXCEPT ![ad.bucket] = 0]
     /\ remote' = IF rc = 0 THEN remote \cup {ad.blk} ELSE remote
     /\ admin' = [admin EXCEPT ![a] =
          [@ EXCEPT !.pc = "mark", !.evicted = IF rc = 0 THEN ad.evicted + 1 ELSE ad.evicted]]
     /\ NoSweep /\ UNCHANGED h

Next ==
  \/ Regist \/ AcquireNewBlock \/ ExtendOneBlock
  \/ \E i \in 1 .. MaxBlocks : Touch(i) \/ Inactivate(i) \/ Activate(i)
  \/ \E a \in Admins : \/ Mount(a) \/ Unmount(a) \/ EvictNumOfBlocks(a) \/ StartTurn(a)
                       \/ Sweep(a) \/ WriteBlock(a) \/ Finish(a)

Spec == Init /\ [][Next]_vars

\* A process that holds the lock keeps running.
FairSpec == Spec /\ \A a \in Admins : WF_vars(Sweep(a))

-----------------------------------------------------------------------------
(* Properties *)

\* Every variable has its type: usageCount stays in its 16 bits, the hand of the clock stays
\* on a bucket, and the counter of tries never goes below zero.
TypeOK ==
  /\ shm \in Segment /\ used \subseteq Buckets /\ usage \in [Buckets -> Counts]
  /\ hand \in Buckets /\ tries \in 0 .. NumBuckets
  /\ h.id \in ActiveIds \cup {InvalidActiveId} /\ h.spare \in Buckets \cup {InvalidBucketId}
  /\ \A i \in DOMAIN h.blocks :
       h.blocks[i] \in [bucket : Buckets, active : BOOLEAN, count : 0 .. MaxTouches]
  /\ \A a \in Admins : admin[a].pc \in AdminStates /\ admin[a].rounds \in 0 .. MaxRounds

\* What the sweep of markBucketEvicting passes or stops at is what the segment says of the
\* buckets: no operation of a handle changes that behind the sweep's back.
UsedIsEvictable == used = Evictable(shm)

\* From the choice of the victim to the end of the eviction, and all through the upload, the
\* bucket keeps its block and names its evictor, unless the owner has taken it back and told
\* the evictor so in its slot.
VictimStays ==
  \A a \in Admins : admin[a].pc \in {"write", "finish"} =>
    \/ shm.act[admin[a].id].stolen
    \/ /\ shm.bkt[admin[a].bucket].evicting /\ shm.bkt[admin[a].bucket].by = admin[a].id
       /\ shm.bkt[admin[a].bucket].blk = admin[a].blk

\* The buckets and their counts change only as the clock sweep and the operations around it
\* allow, so that what is proved of ClockSweep holds of the whole.
ImplementsClockSweep == CSSpec

\* A sweep under the shared-memory lock ends: it finds a bucket or throws.
SweepEnds == (pc = "sweep") ~> (pc = "idle")

\* gopherwood.h on the argument of gwEvictBlocks: "Num blocks to evict".
EvictsAtMostNum == \A a \in Admins : admin[a].evicted <= NumToEvict
=============================================================================
