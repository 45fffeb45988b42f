--------------------------- MODULE FileActiveStatus ---------------------------
(***************************************************************************)
(* Handles on Gopherwood files at work on one shared-memory segment.        *)
(*                                                                         *)
(* A client is a thread that has at most one file open.  Its handle is a    *)
(* FileActiveStatus object.  One action is one critical section of the      *)
(* shared-memory lock (SHARED_MEM_BEGIN ... SHARED_MEM_END) with the        *)
(* thread-local steps around it, or one transfer outside the lock: a block  *)
(* written to or read from the object store, a read or write of a bucket.   *)
(* A loader thread's steps are actions of their own.                        *)
(*                                                                         *)
(* A file is what replaying its manifest yields.  Handles replay it at the  *)
(* start of every critical section, so they all work on this one value.     *)
(*                                                                         *)
(* Block numbers start at 1 here and at 0 in the code.  Bucket contents are *)
(* tags <<file, block, version>>.                                           *)
(***************************************************************************)
EXTENDS SharedMemory, Policy, FiniteSetsExt

CONSTANTS Clients,       \* threads that open files
          MaxBlocks,     \* bound: blocks per file
          Kinds,         \* how clients open files: subset of {"write", "read", "delete"}
          Cancels,       \* how they close them: subset of BOOLEAN, TRUE is gwCancelFile
          Accesses,      \* what they access: subset of {"new", "old"}
          Handover,      \* TRUE when a file has at most one open handle
          OssFails,      \* what the object store may refuse: subset of {"get", "put"}
          CloseBusy      \* TRUE when a client may close while a load is in flight

ASSUME MaxBlocksAssumption == MaxBlocks \in Nat
ASSUME KindsAssumption == Kinds \subseteq {"write", "read", "delete"}
ASSUME SwitchAssumption == Handover \in BOOLEAN /\ CloseBusy \in BOOLEAN

VARIABLES shm,    \* the shared-memory segment
          file,   \* file id -> [exists, blocks, unseen], the replayed manifest and the evict
                  \*   records that other files' handles appended since its own last replay
          h,      \* client -> handle
          space,  \* bucket -> content of the local space file
          oss,    \* <<file, block>> -> content of the remote object
          truth   \* <<file, block>> -> content last written by a client (history)

vars == <<shm, file, h, space, oss, truth>>

BlockIds == 1 .. MaxBlocks
NoData == <<>>
Contents == {NoData} \cup (Files \X Nat \X {0, 1})
Keys == Files \X BlockIds

Block == [bucket : Buckets \cup {InvalidBucketId}, local : BOOLEAN,
          state : {"free", "active", "used"}]
NoVictim == [file |-> NoFile, blk |-> InvalidBlockId, bucket |-> InvalidBucketId]

(* A handle: where its thread is (pc), its file and slot, mLRUCache (newest first),     *)
(* mPreAllocatedBuckets, mLoadingBuckets with the progress of each load, and the locals *)
(* of adjustActiveBlock and acquireNewBlocks.  mLoadMutex is locked while pc is in      *)
(* Locked.                                                                              *)
ClosedHandle ==
  [pc |-> "none", file |-> NoFile, id |-> InvalidActiveId, kind |-> "read",
   lru |-> <<>>, pre |-> <<>>, loading |-> {}, cur |-> 0, ctr |-> 0, retry |-> FALSE,
   need |-> 0, victim |-> NoVictim, purge |-> {}]

Locked == {"acquire", "evict", "loop", "extend", "activate", "failed"}

Init ==
  /\ shm = ResetSegment
  /\ file = [f \in Files |-> [exists |-> FALSE, blocks |-> <<>>, unseen |-> <<>>]]
  /\ h = [c \in Clients |-> ClosedHandle]
  /\ space = [b \in Buckets |-> NoData]
  /\ oss = [k \in Keys |-> NoData]
  /\ truth = [k \in Keys |-> NoData]

-----------------------------------------------------------------------------
(* Helpers on a handle *)

BlocksOf(me) == file[me.file].blocks
LoadingBlks(me) == {l.blk : l \in me.loading}

\* getNumAcquiredBuckets
NumAcquired(me) == Len(me.lru) + Len(me.pre) + Cardinality(me.loading)

\* The [blk, bucket] pairs of a list of block numbers, as mBlockArray has them.
Pairs(me, blks) ==
  [i \in DOMAIN blks |-> [blk |-> blks[i], bucket |-> BlocksOf(me)[blks[i]].bucket]]

\* Mutant of LogInactivate: nothing is logged.
LogInactivateNothing(s, me, list) == file

\* The manifest after the blocks that inactivateBuckets turned from 1 to 2 are logged.
LogInactivate(s, me, list) ==
  LET used == {list[i].blk : i \in TurnedToUsed(s, list, me.id)}
  IN [file EXCEPT ![me.file].blocks =
        [i \in DOMAIN @ |-> IF i \in used THEN [@[i] EXCEPT !.state = "used"] ELSE @[i]]]

\* The end of a critical section, which began with catchUpManifestLogs.
Commit(c, me, s, files) ==
  /\ shm' = [s EXCEPT !.ok = TRUE]
  /\ h' = [h EXCEPT ![c] = me]
  /\ file' = IF h[c].file = NoFile THEN files ELSE [files EXCEPT ![h[c].file].unseen = <<>>]

\* An exception leaves adjustActiveBlock with mLoadMutex locked; its locals are gone.
Failed(me) ==
  [me EXCEPT !.pc = "failed", !.cur = 0, !.ctr = 0, !.retry = FALSE, !.need = 0,
             !.victim = NoVictim]

\* acquireNewBlocks returns to extendOneBlock or activateBlock.
Acquired(me) ==
  IF me.pre = <<>> THEN Failed(me)
  ELSE [me EXCEPT !.victim = NoVictim, !.need = 0,
                  !.pc = IF me.cur > Len(BlocksOf(me)) THEN "extend" ELSE "activate"]

\* Mutant of Settle: a block that is still loading counts as active.
SettleEarly(me, from) ==
  IF me.cur \in Range(me.lru) \cup LoadingBlks(me) THEN [me EXCEPT !.pc = "io"]
  ELSE [me EXCEPT !.ctr = 0, !.pc = IF me.pre = <<>> THEN "acquire" ELSE "activate"]

\* The pre-activation loop of adjustActiveBlock runs on from counter `ctr'; when no block
\* is left to activate the mutex is released.
Settle(me, from) ==
  LET todo == {k \in from .. Least(Quota, PreActivate) - 1 :
                 /\ me.cur + k <= Len(BlocksOf(me))
                 /\ me.cur + k \notin Range(me.lru)
                 /\ me.cur + k \notin LoadingBlks(me)}
  IN IF todo # {}
     THEN [me EXCEPT !.ctr = Min(todo), !.pc = IF me.pre = <<>> THEN "acquire" ELSE "activate"]
     ELSE [me EXCEPT !.ctr = 0, !.pc = IF me.cur \in Range(me.lru) THEN "io" ELSE "wait"]

Continue(me) ==
  IF ~me.retry THEN Settle(me, me.ctr + 1)
  ELSE [me EXCEPT !.retry = FALSE, !.pc = IF me.cur \in Range(me.lru) THEN "io" ELSE "wait"]

-----------------------------------------------------------------------------
(* Opening a file, choosing a block *)

Writers(f) == {c \in Clients : h[c].pc # "none" /\ h[c].file = f /\ h[c].kind = "write"}

\* The constructor.  A file has one writer at a time, which the code asks of its callers.
\* Without a free slot the constructor throws; the file it created and the destroy marks
\* it set stay.
Open(c, f, kind) ==
  LET id == FreeSlot(shm)
  IN /\ h[c].pc = "none"
     /\ kind = "write" \/ file[f].exists
     /\ kind = "write" => Writers(f) = {}
     /\ Handover => ~IsFileOpening(shm, f)
     /\ Commit(c, IF id = InvalidActiveId THEN h[c]
                  ELSE [h[c] EXCEPT !.pc = "idle", !.file = f, !.id = id, !.kind = kind],
               RegistFile(shm, f, kind = "delete"),
               [file EXCEPT ![f].exists = TRUE, ![f].unseen = <<>>])
     /\ UNCHANGED <<space, oss, truth>>

\* getCurBlockInfo for a block of the file, up to the first critical section it needs.
AccessOld(c) ==
  /\ h[c].pc = "idle" /\ h[c].kind # "delete" /\ "old" \in Accesses
  /\ \E b \in DOMAIN BlocksOf(h[c]) :
       /\ truth[<<h[c].file, b>>] # NoData
       /\ h' = [h EXCEPT ![c] = Settle([@ EXCEPT !.cur = b], 0)]
  /\ UNCHANGED <<shm, file, space, oss, truth>>

\* The same for the block after the last one: extendOneBlock.
AccessNew(c) ==
  /\ h[c].pc = "idle" /\ h[c].kind = "write" /\ "new" \in Accesses
  /\ Len(BlocksOf(h[c])) < MaxBlocks
  /\ h' = [h EXCEPT ![c].cur = Len(BlocksOf(h[c])) + 1,
                    ![c].pc = IF h[c].pre = <<>> THEN "acquire" ELSE "extend"]
  /\ UNCHANGED <<shm, file, space, oss, truth>>

\* One turn of the loop that waits for the block.
Wait(c) ==
  LET me == h[c]
  IN /\ me.pc = "wait"
     /\ me.cur \in Range(me.lru) \/ me.cur \notin LoadingBlks(me)
     /\ h' = [h EXCEPT ![c] =
                IF me.cur \in Range(me.lru) THEN [me EXCEPT !.pc = "io"]
                ELSE [me EXCEPT !.retry = TRUE, !.ctr = 0,
                                !.pc = IF me.pre = <<>> THEN "acquire" ELSE "activate"]]
     /\ UNCHANGED <<shm, file, space, oss, truth>>

-----------------------------------------------------------------------------
(* acquireNewBlocks *)

\* The caller gets a bucket to evict, any the sweep can stop at, or an exception.
StartEvict(c, me, s, files) ==
  IF Evictable(s) = {} THEN Commit(c, Failed(me), s, files)
  ELSE \E b \in Evictable(s) :
         Commit(c, [me EXCEPT !.pc = "evict",
                              !.victim = [file |-> s.bkt[b].file, blk |-> s.bkt[b].blk,
                                          bucket |-> b]],
                MarkBucketEvicting(s, b, me.id), files)

\* The end of both critical sections: start the next eviction, or return.
AcquireNext(c, me, s, files) ==
  IF me.need # 0 THEN StartEvict(c, me, s, files) ELSE Commit(c, Acquired(me), s, files)

\* The first critical section: inactivate, take free buckets, start the first eviction.
AcquireBegin(c) ==
  LET me == h[c]
      policy == AcquirePolicy(NumAcquired(me), Len(me.lru), shm.num["free"], shm.num["used"])
      list == Pairs(me, LruRemoved(me.lru, policy.drop))
      s1 == InactivateBuckets(shm, list, me.file, me.id)
      me1 == [me EXCEPT !.lru = LruKept(@, policy.drop)]
      logged == LogInactivate(shm, me, list)
      n == Least(policy.take, shm.num["free"])
      s2 == AcquireFreeBucket(s1, me.id, n, me.file)
  IN /\ me.pc = "acquire"
     /\ IF ~policy.ok THEN Commit(c, Failed(me), shm, file)
        ELSE IF ~s1.ok THEN Commit(c, Failed(me1), s1, file)
        ELSE IF ~s2.ok THEN Commit(c, Failed(me1), s2, logged)
        ELSE \E got \in InOrder(AcquiredBuckets(s1, n)) :
               AcquireNext(c, [me1 EXCEPT !.pre = @ \o got, !.need = policy.take - n], s2, logged)
     /\ UNCHANGED <<space, oss, truth>>

\* Mutant of EvictWrite: the block is not written out.
EvictWriteNothing(c) ==
  /\ h[c].pc = "evict"
  /\ h' = [h EXCEPT ![c].pc = "loop"]
  /\ UNCHANGED <<shm, file, space, oss, truth>>

\* mOssWorker->writeBlock(evictBlockInfo), outside the lock.
EvictWrite(c) ==
  LET v == h[c].victim
  IN /\ h[c].pc = "evict"
     /\ oss' = [oss EXCEPT ![<<v.file, v.blk>>] = space[v.bucket]]
     /\ h' = [h EXCEPT ![c].pc = "loop"]
     /\ UNCHANGED <<shm, file, space, truth>>

\* writeBlock throws: nothing takes the eviction back.
EvictWriteFails(c) ==
  /\ h[c].pc = "evict" /\ "put" \in OssFails
  /\ h' = [h EXCEPT ![c] = Failed(@)]
  /\ UNCHANGED <<shm, file, space, oss, truth>>

\* logEvictBlock: the block is remote for whoever replays the victim's manifest.
LogEvict(v) ==
  [file EXCEPT ![v.file].unseen = IF IsFileOpening(shm, v.file)
                                  THEN Append(@, [blk |-> v.blk, bucket |-> v.bucket]) ELSE @,
               ![v.file].blocks =
     [i \in DOMAIN @ |-> IF i = v.blk
                         THEN [bucket |-> InvalidBucketId, local |-> FALSE, state |-> "free"]
                         ELSE @[i]]]

\* Mutant of EvictLoop: the `evicting' flag is never cleared.
EvictLoopForever(c) ==
  /\ h[c].pc = "loop"
  /\ h' = [h EXCEPT ![c].pc = "evict"]
  /\ UNCHANGED <<shm, file, space, oss, truth>>

\* One turn of the loop: finish the eviction, take free buckets, start the next eviction.
\* `need' is the uint32_t numToAcquire: a negative number stands for itself modulo 2^32.
\* When the bucket was stolen (2) and free buckets cover the need, the loop's `evicting'
\* flag and victim stay set and the same eviction is run again.
EvictLoop(c) ==
  LET me == h[c]
      v == me.victim
      rc == EvictFinishRc(shm, v.bucket, me.id)
      s1 == EvictBucketFinishAndTryAcquire(shm, v.bucket, me.id, me.file)
      me1 == IF rc = 2 THEN me
             ELSE [me EXCEPT !.pre = Append(@, v.bucket), !.need = @ - 1]
      logged == IF rc = 0 THEN LogEvict(v) ELSE file
      n == IF me1.need < 0 THEN s1.num["free"] ELSE Least(me1.need, s1.num["free"])
      s2 == IF n > 0 THEN AcquireFreeBucket(s1, me.id, n, me.file) ELSE s1
      new == IF n > 0 THEN AcquiredBuckets(s1, n) ELSE {}
  IN /\ me.pc = "loop"
     /\ IF rc = 0 /\ v.file # me.file /\ ~file[v.file].exists
        THEN Commit(c, Failed(me1), s1, file)
        ELSE IF ~s2.ok THEN Commit(c, Failed(me1), s2, logged)
        ELSE \E got \in InOrder(new) :
               LET me2 == [me1 EXCEPT !.pre = @ \o got, !.need = @ - n]
               IN IF me2.need = 0 /\ rc = 2
                  THEN Commit(c, [me2 EXCEPT !.pc = "evict"], s2, logged)
                  ELSE AcquireNext(c, me2, s2, logged)
     /\ oss' = IF rc = 0 THEN oss ELSE [oss EXCEPT ![<<v.file, v.blk>>] = NoData]
     /\ UNCHANGED <<space, truth>>

-----------------------------------------------------------------------------
(* extendOneBlock and activateBlock *)

Extend(c) ==
  LET me == h[c]
      b == Head(me.pre)
      s1 == UpdateActiveFileInfo(shm, b, me.cur, me.file)
      me1 == [me EXCEPT !.pre = Tail(@), !.lru = LruPut(@, me.cur)]
      logged == [file EXCEPT ![me.file].blocks =
                   Append(@, [bucket |-> b, local |-> TRUE, state |-> "active"])]
  IN /\ me.pc = "extend"
     /\ IF s1.ok THEN Commit(c, [me1 EXCEPT !.pc = "io"], s1, logged)
        ELSE Commit(c, Failed(me1), s1, file)
     /\ UNCHANGED <<space, oss, truth>>

\* Block cur + ctr is remote: load it into the first pre-allocated bucket, unless a handle
\* is known to be loading it.
ActivateRemote(c) ==
  LET me == h[c]
      blk == me.cur + me.ctr
      b == Head(me.pre)
      busy == IsBlockLoading(shm, me.file, blk)
      me1 == [me EXCEPT !.pre = Tail(@),
                        !.loading = @ \cup {[blk |-> blk, bucket |-> b, st |-> "reading"]}]
  IN /\ me.pc = "activate"
     /\ ~BlocksOf(me)[blk].local
     /\ IF busy THEN Commit(c, Continue(me), shm, file)
        ELSE Commit(c, Continue(me1), MarkBucketLoading(shm, b, blk, me.id), file)
     /\ UNCHANGED <<space, oss, truth>>

\* Block cur + ctr is local: make room within the quota, then activate its bucket.
ActivateLocal(c) ==
  LET me == h[c]
      blk == me.cur + me.ctr
      full == NumAcquired(me) = Quota
      list == Pairs(me, LruRemoved(me.lru, 1))
      drop == full /\ me.lru # <<>>
      free == full /\ me.lru = <<>>
      s1 == IF drop THEN InactivateBuckets(shm, list, me.file, me.id)
            ELSE IF free THEN ReleaseBuckets(shm, <<me.pre[Len(me.pre)]>>) ELSE shm
      me1 == [me EXCEPT !.lru = IF drop THEN LruKept(@, 1) ELSE @,
                        !.pre = IF free THEN SubSeq(@, 1, Len(@) - 1) ELSE @]
      logged == IF drop THEN LogInactivate(shm, me, list) ELSE file
      b == BlocksOf(me)[blk].bucket
      s2 == ActivateBucket(s1, me.file, blk, b, me.id)
      logged2 == IF ActivateRc(s1, b) = 1
                 THEN [logged EXCEPT ![me.file].blocks = [@ EXCEPT ![blk].state = "active"]]
                 ELSE logged
  IN /\ me.pc = "activate"
     /\ BlocksOf(me)[blk].local
     /\ IF NumAcquired(me) > Quota THEN Commit(c, Failed(me), shm, file)
        ELSE IF ~s1.ok THEN Commit(c, Failed(me1), s1, file)
        ELSE IF ~s2.ok THEN Commit(c, Failed(me1), s2, logged)
        ELSE Commit(c, Continue([me1 EXCEPT !.lru = LruPut(@, blk)]), s2, logged2)
     /\ UNCHANGED <<space, oss, truth>>

-----------------------------------------------------------------------------
(* Transfers between a client and its bucket *)

Idle(me) == [me EXCEPT !.pc = "idle", !.cur = 0]

\* InputStream::read.  The invariants below say what it reads.
Read(c) ==
  /\ h[c].pc = "io" /\ truth[<<h[c].file, h[c].cur>>] # NoData
  /\ h' = [h EXCEPT ![c] = Idle(@)]
  /\ UNCHANGED <<shm, file, space, oss, truth>>

\* OutputStream::write.  Two contents per block are enough to tell old from new.
Write(c) ==
  LET f == h[c].file
      i == h[c].cur
      data == <<f, i, IF truth[<<f, i>>] = <<f, i, 0>> THEN 1 ELSE 0>>
  IN /\ h[c].pc = "io" /\ h[c].kind = "write"
     /\ space' = [space EXCEPT ![BlocksOf(h[c])[i].bucket] = data]
     /\ truth' = [truth EXCEPT ![<<f, i>>] = data]
     /\ h' = [h EXCEPT ![c] = Idle(@)]
     /\ UNCHANGED <<shm, file, oss>>

-----------------------------------------------------------------------------
(* loadBlock, run by a loader thread *)

Step(me, l, st) == [me EXCEPT !.loading = (@ \ {l}) \cup {[l EXCEPT !.st = st]}]

\* What the store has under the name of a block.
Object(f, blk) == IF <<f, blk>> \in Keys THEN oss[<<f, blk>>] ELSE NoData

\* readBlock fetches the object into the bucket; it throws when there is no object.
LoadRead(c) ==
  \E l \in h[c].loading :
    LET data == Object(h[c].file, l.blk)
    IN /\ l.st = "reading"
       /\ \/ /\ data # NoData
             /\ space' = [space EXCEPT ![l.bucket] = data]
             /\ h' = [h EXCEPT ![c] = Step(@, l, "read")]
          \/ /\ data = NoData \/ "get" \in OssFails
             /\ h' = [h EXCEPT ![c] = Step(@, l, "failed")]
             /\ UNCHANGED space
       /\ UNCHANGED <<shm, file, oss, truth>>

\* Mutant of LoadDelete: the object may go before it is read.
LoadDeleteFirst(c) ==
  \E l \in h[c].loading :
    /\ l.st \in {"reading", "read"}
    /\ oss' = [oss EXCEPT ![<<h[c].file, l.blk>>] = NoData]
    /\ h' = [h EXCEPT ![c] = Step(@, l, "done")]
    /\ UNCHANGED <<shm, file, space, truth>>

\* deleteBlock removes the object before the load is logged.
LoadDelete(c) ==
  \E l \in h[c].loading :
    /\ l.st = "read"
    /\ oss' = [oss EXCEPT ![<<h[c].file, l.blk>>] = NoData]
    /\ h' = [h EXCEPT ![c] = Step(@, l, "done")]
    /\ UNCHANGED <<shm, file, space, truth>>

\* logLoadBlock writes at the handle's own manifest offset.  Nothing has been replayed
\* since the handle's last critical section: the record covers the first evict record
\* appended in between (both hold one block, so they have the same length), and the block
\* that record moved out is local again for every later replay.
LogLoad(f, l) ==
  LET late == file[f].unseen
      loaded == [file[f].blocks EXCEPT
                   ![l.blk] = [bucket |-> l.bucket, local |-> TRUE, state |-> "active"]]
  IN [file EXCEPT ![f].unseen = IF late = <<>> THEN late ELSE Tail(late),
                  ![f].blocks =
                     IF late = <<>> THEN loaded
                     ELSE [loaded EXCEPT ![Head(late).blk] =
                             [bucket |-> Head(late).bucket, local |-> TRUE, state |-> "used"]]]

\* Mutant of LoadFinish: a success is taken for a failure.
LoadFinishFails(c) ==
  \E l \in h[c].loading :
    /\ h[c].pc \notin Locked
    /\ l.st \in {"done", "failed"}
    /\ shm' = MarkLoadFinish(shm, l.bucket, h[c].id)
    /\ h' = [h EXCEPT ![c].loading = @ \ {l}, ![c].pre = <<l.bucket>> \o @]
    /\ UNCHANGED <<file, space, oss, truth>>

\* The loader takes mLoadMutex but not the shared-memory lock.
LoadFinish(c) ==
  \E l \in h[c].loading :
    LET me == [h[c] EXCEPT !.loading = @ \ {l}]
    IN /\ h[c].pc \notin Locked
       /\ l.st \in {"done", "failed"}
       /\ shm' = MarkLoadFinish(shm, l.bucket, me.id)
       /\ IF l.st = "done"
          THEN /\ h' = [h EXCEPT ![c] = [me EXCEPT !.lru = LruPut(@, l.blk)]]
               /\ file' = LogLoad(me.file, l)
          ELSE /\ h' = [h EXCEPT ![c] = [me EXCEPT !.pre = <<l.bucket>> \o @]]
               /\ UNCHANGED file
       /\ UNCHANGED <<space, oss, truth>>

-----------------------------------------------------------------------------
(* close, and the deletion of remote objects after it *)

\* One critical section.  What the handle's loads hold is not released.
Close(c, isCancel) ==
  LET me == h[c]
      f == me.file
      s1 == ReleaseBuckets(shm, me.pre)
      list == Pairs(me, LruRemoved(me.lru, Len(me.lru)))
      s2 == InactivateBuckets(s1, list, f, me.id)
      logged == LogInactivate(s1, me, list)
      s3 == UnregistFile(s2, me.id)
      blocks == logged[f].blocks
      s4 == DeleteBlocks(s3, blocks, f)
      half == [ClosedHandle EXCEPT !.pc = "halfclosed"]
      remote == {i \in DOMAIN blocks : ~blocks[i].local}
      gone == [logged EXCEPT ![f] = [exists |-> FALSE, blocks |-> <<>>, unseen |-> <<>>]]
      purged == [ClosedHandle EXCEPT !.pc = IF remote = {} THEN "none" ELSE "purge",
                                     !.file = IF remote = {} THEN NoFile ELSE f,
                                     !.purge = remote]
      destroy == (s2.act[me.id].destroy \/ isCancel) /\ ~IsFileOpening(s3, f)
  IN /\ me.pc \in {"idle", "failed"}
     /\ me.kind = "delete" => ~isCancel
     /\ CloseBusy \/ me.loading = {}
     /\ IF ~s1.ok THEN Commit(c, half, s1, file)
        ELSE IF ~s2.ok THEN Commit(c, half, s2, file)
        ELSE IF ~destroy THEN Commit(c, ClosedHandle, s3, logged)
        ELSE IF \E i \in DOMAIN blocks : blocks[i].local /\ blocks[i].state # "used"
             THEN Commit(c, half, s3, logged)
        ELSE IF ~s4.ok THEN Commit(c, half, s4, logged)
        ELSE Commit(c, purged, s4, gone)
     /\ truth' = [k \in Keys |-> IF k[1] = f /\ ~file'[f].exists THEN NoData ELSE truth[k]]
     /\ UNCHANGED <<space, oss>>

\* deleteBlock for one remote block of the destroyed file, without the lock.
Purge(c) ==
  LET me == h[c]
      i == Min(me.purge)
  IN /\ me.pc = "purge"
     /\ oss' = [oss EXCEPT ![<<me.file, i>>] = NoData]
     /\ h' = [h EXCEPT ![c] = IF me.purge = {i} THEN ClosedHandle
                              ELSE [me EXCEPT !.purge = @ \ {i}]]
     /\ UNCHANGED <<shm, file, space, truth>>

-----------------------------------------------------------------------------
(* The specification *)

\* Steps a thread takes by itself once a client has called.
Progress(c) ==
  \/ Wait(c) \/ AcquireBegin(c) \/ EvictWrite(c) \/ EvictLoop(c)
  \/ Extend(c) \/ ActivateRemote(c) \/ ActivateLocal(c) \/ Read(c) \/ Write(c) \/ Purge(c)

Loader(c) == LoadRead(c) \/ LoadDelete(c) \/ LoadFinish(c)

Next ==
  \E c \in Clients :
    \/ \E f \in Files, kind \in Kinds : Open(c, f, kind)
    \/ AccessOld(c) \/ AccessNew(c) \/ EvictWriteFails(c)
    \/ Progress(c) \/ Loader(c)
    \/ \E isCancel \in Cancels : Close(c, isCancel)

Spec == Init /\ [][Next]_vars

\* When the thread of a client, or a loader thread of its handle, has a step to take.
Runnable(c) ==
  \/ h[c].pc \in {"acquire", "evict", "loop", "extend", "activate", "purge"}
  \/ h[c].pc = "wait" /\ (h[c].cur \in Range(h[c].lru) \/ h[c].cur \notin LoadingBlks(h[c]))
  \/ h[c].pc = "io" /\ (h[c].kind = "write" \/ truth[<<h[c].file, h[c].cur>>] # NoData)

LoadRunnable(c) ==
  \E l \in h[c].loading : l.st \in {"reading", "read"} \/ h[c].pc \notin Locked

\* Threads keep running; loads and evictions end; clients call when they like.  This is
\* weak fairness of Progress and of Loader with their guards written out.
FairSpec ==
  /\ Spec
  /\ \A c \in Clients : /\ []<>~Runnable(c) \/ []<><<Progress(c)>>_vars
                        /\ []<>~LoadRunnable(c) \/ []<><<Loader(c)>>_vars

-----------------------------------------------------------------------------
(* Properties *)

Opened(c) == h[c].pc \notin {"none", "purge", "halfclosed"}
LruBuckets(c) == {BlocksOf(h[c])[i].bucket : i \in Range(h[c].lru)}
LoadBuckets(c) == {l.bucket : l \in h[c].loading}
Held(c) == IF Opened(c) THEN LruBuckets(c) \cup Range(h[c].pre) \cup LoadBuckets(c) ELSE {}

Load == [blk : Nat, bucket : Buckets, st : {"reading", "read", "done", "failed"}]
Victim == [file : Files \cup {NoFile}, blk : Int, bucket : Buckets \cup {InvalidBucketId}]
Handle ==
  [pc : Locked \cup {"none", "idle", "wait", "io", "purge", "halfclosed"},
   file : Files \cup {NoFile}, id : ActiveIds \cup {InvalidActiveId},
   kind : {"write", "read", "delete"}, lru : Seq(Nat), pre : Seq(Buckets),
   loading : SUBSET Load, cur : Nat, ctr : Nat, retry : BOOLEAN, need : Int,
   victim : Victim, purge : SUBSET Nat]

\* What a thread relies on where it stands: the sweep gave it a bucket to evict, there is a
\* pre-allocated bucket to use, its file is open.
Prepared(me) ==
  /\ me.pc \in {"evict", "loop"} => me.victim.bucket \in Buckets
  /\ me.pc \in {"extend", "activate"} => me.pre # <<>>
  /\ me.pc \notin {"none", "halfclosed"} => me.file \in Files
  /\ IsFiniteSet(me.loading)
EvictRecord == [blk : Int, bucket : Buckets]
File == [exists : BOOLEAN, blocks : Seq(Block), unseen : Seq(EvictRecord)]

\* Every variable has its type: each handle's lists hold bucket ids that exist, each step of
\* FileActiveStatus leaves the segment in the form SharedMemoryObj.h declares, and no thread
\* gets to extendOneBlock, activateBlock or the eviction loop without the bucket it uses there.
TypeOK ==
  /\ shm \in Segment /\ shm.ok
  /\ file \in [Files -> File]
  /\ h \in [Clients -> Handle] /\ \A c \in Clients : Prepared(h[c])
  /\ space \in [Buckets -> Contents]
  /\ oss \in [Keys -> Contents]
  /\ truth \in [Keys -> Contents]

\* The header's statistics count the buckets, at every release of the lock and around every
\* step of a loader thread, so no uint32_t counter ever wraps.  The acquire policy and the
\* sweep rely on them ("statistic incorrect, there should be %d used buckets").
StatisticsAreExact == StatisticsExact(shm)

\* Whatever goes wrong, no bucket drops out of the statistics: the five counters of the
\* header add up to the number of buckets, after exceptions, steals and deletions too.
StatisticsConserved == StatisticsSum(shm) = NumBuckets

\* A handle's three lists and the shared memory agree: its blocks, pre-allocated buckets and
\* loads are active buckets that belong to its file and carry its id, nobody else carries
\* the id of a pre-allocated or loading bucket.
HandleOwnsItsBuckets ==
  \A c \in {d \in Clients : Opened(d)} :
    LET me == h[c]
        bk(b) == shm.bkt[b]
        mine(b) == bk(b).type = "active" /\ bk(b).file = me.file /\ HasActiveId(bk(b).infos, me.id)
    IN /\ shm.act[me.id].used /\ shm.act[me.id].file = me.file
       /\ \A i \in Range(me.lru) :
            /\ BlocksOf(me)[i].local /\ mine(BlocksOf(me)[i].bucket)
            /\ bk(BlocksOf(me)[i].bucket).blk = i /\ ~bk(BlocksOf(me)[i].bucket).loading
       /\ \A b \in Range(me.pre) : mine(b) /\ ~bk(b).loading
       /\ \A l \in me.loading : mine(l.bucket) /\ bk(l.bucket).loading /\ bk(l.bucket).blk = l.blk
       /\ \A d \in Clients \ {c} :
            (Range(me.pre) \cup LoadBuckets(c)) \cap Held(d) = {}

\* No bucket is lost: an active bucket is held by an open handle for every mark it carries,
\* a free or used bucket carries no mark.
NoBucketLeaks ==
  \A b \in Buckets :
    /\ shm.bkt[b].type = "active" <=> \E c \in Clients : b \in Held(c)
    /\ \A i \in 1 .. MaxOpen :
         shm.bkt[b].infos[i] # InvalidActiveId =>
           \E c \in Clients : h[c].id = shm.bkt[b].infos[i] /\ b \in Held(c)

\* A client that is about to transfer data has the block in a local bucket whose content is
\* what was last written to that block, whoever evicted and loaded it in between.
ClientSeesItsData ==
  \A c \in Clients :
    h[c].pc = "io" => /\ h[c].cur \in Range(h[c].lru)
                      /\ truth[<<h[c].file, h[c].cur>>] # NoData =>
                           space[BlocksOf(h[c])[h[c].cur].bucket] = truth[<<h[c].file, h[c].cur>>]

\* What was written is somewhere the system will find it: in the bucket the manifest names,
\* in the object store when the manifest says remote, or in the bucket of a load that has
\* read the object.
WrittenDataIsSafe ==
  \A f \in Files : \A i \in DOMAIN file[f].blocks :
    LET b == file[f].blocks[i]
        want == truth[<<f, i>>]
    IN want # NoData =>
         IF b.local
         THEN shm.bkt[b.bucket].file = f /\ shm.bkt[b.bucket].blk = i /\ space[b.bucket] = want
         ELSE \/ oss[<<f, i>>] = want
              \/ \E c \in Clients : \E l \in h[c].loading :
                   /\ h[c].file = f /\ l.blk = i
                   /\ l.st \in {"read", "done"} /\ space[l.bucket] = want

\* A handle never holds more buckets than its quota, loads and pre-allocation included
\* (activateBlock: "Current quoto exceed max quota size!").
QuotaIsKept == \A c \in Clients : NumAcquired(h[c]) <= Quota

\* Behaviours up to the first time a handle takes back a bucket under eviction.
NothingStolen == \A i \in ActiveIds : ~shm.act[i].stolen

\* A block moves out of its bucket only from state 2: the replay of an evictBlock record
\* throws for any other state.
EvictRecordsReplay ==
  [][\A f \in Files : \A i \in DOMAIN file[f].blocks \cap DOMAIN file'[f].blocks :
       file[f].blocks[i].local /\ ~file'[f].blocks[i].local => file[f].blocks[i].state = "used"]_vars

\* While a handle evicts a bucket that nobody took back, the bucket stays what it was: it
\* is marked as being evicted for that handle and holds the block the handle is writing out
\* (deleteBlocks: "mark deleted if it's been evicting by someone").
VictimIsKept ==
  \A c \in Clients :
    LET v == h[c].victim
    IN h[c].pc \in {"evict", "loop"} /\ ~shm.act[h[c].id].stolen =>
         /\ shm.bkt[v.bucket].evicting /\ shm.bkt[v.bucket].by = h[c].id
         /\ shm.bkt[v.bucket].file = v.file /\ shm.bkt[v.bucket].blk = v.blk

\* No call ends in an exception.
NoCallFails == \A c \in Clients : h[c].pc \notin {"failed", "halfclosed"}

\* A client that waits for a block gets it or an exception.
AccessEnds ==
  \A c \in Clients : h[c].pc \in (Locked \cup {"wait"}) \ {"failed"} ~> h[c].pc \in {"io", "failed"}

\* Once every handle is closed nothing but used and free buckets is left, every slot is
\* free, and a used bucket belongs to a block of an existing file.
QuietStateIsClean ==
  (\A c \in Clients : h[c].pc = "none") =>
    /\ \A i \in ActiveIds : shm.act[i] = ResetActiveStatus
    /\ \A b \in Buckets :
         \/ shm.bkt[b] = ResetBucket
         \/ /\ shm.bkt[b].type = "used" /\ ~shm.bkt[b].evicting
            /\ file[shm.bkt[b].file].exists
            /\ file[shm.bkt[b].file].blocks[shm.bkt[b].blk].bucket = b
    /\ \A k \in Keys : oss[k] # NoData => file[k[1]].exists
=============================================================================
