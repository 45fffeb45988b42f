----------------------- MODULE FileActiveStatusProofs ------------------------
(* TypeOK and StatisticsConserved hold in every reachable state of FileActiveStatus, for    *)
(* any number of buckets, slots, files, clients and blocks, any quota, and all the failures *)
(* the model allows.  With FreeCounted, which says that the header never counts fewer free  *)
(* buckets than there are, their conjunction is inductive.  The proof has one lemma per     *)
(* action; an action ends in Commit, so most of a lemma shows that what it commits is well  *)
(* formed.                                                                                  *)
EXTENDS HandleProofs

\* The inductive invariant.
IInv == TypeOK /\ StatisticsConserved /\ FreeCounted(shm)

-----------------------------------------------------------------------------
(* The invariant in two halves, and what a critical section leaves behind *)

Metadata ==
  /\ shm \in Segment /\ shm.ok /\ StatisticsConserved /\ FreeCounted(shm)
  /\ file \in GoodFiles
  /\ h \in [Clients -> Handle] /\ \A c \in Clients : GoodHandle(h[c])

Data == space \in [Buckets -> Contents] /\ oss \in [Keys -> Contents] /\ truth \in [Keys -> Contents]

\* The invariant, split into metadata and the contents of buckets and objects.
LEMMA Halves == IInv <=> Metadata /\ Data
BY DEF IInv, TypeOK, Metadata, Data, GoodFiles, GoodHandle, FreeCounted, FreeBuckets

\* The same for the next state.
LEMMA HalvesNext == IInv' <=> Metadata' /\ Data'
BY DEF IInv, TypeOK, Metadata, Data, GoodFiles, GoodHandle, FreeCounted, FreeBuckets

\* One handle changes, the others stay well formed.
LEMMA HandleChanged ==
  ASSUME Metadata, NEW c \in Clients, NEW me, GoodHandle(me), h' = [h EXCEPT ![c] = me]
  PROVE  h' \in [Clients -> Handle] /\ \A d \in Clients : GoodHandle(h'[d])
BY DEF Metadata, GoodHandle

\* A step of one thread outside the lock that changes nothing but its handle.
LEMMA OnlyHandleChanged ==
  ASSUME Metadata, NEW c \in Clients, NEW me, GoodHandle(me), h' = [h EXCEPT ![c] = me],
         UNCHANGED <<shm, file>>
  PROVE  Metadata'
<1>1. h' \in [Clients -> Handle] /\ \A d \in Clients : GoodHandle(h'[d])
  BY HandleChanged
<1> QED
  BY <1>1 DEF Metadata, StatisticsConserved, FreeCounted, FreeBuckets

\* A critical section that commits a good handle, a kept segment and good manifests.
LEMMA CommitGood ==
  ASSUME Metadata, NEW c \in Clients, NEW me, GoodHandle(me), NEW s, Keeps(shm, s),
         NEW files \in GoodFiles, Commit(c, me, s, files)
  PROVE  Metadata'
<1>1. h' \in [Clients -> Handle] /\ \A d \in Clients : GoodHandle(h'[d])
  BY HandleChanged DEF Commit
<1>2. Keeps(shm, shm') /\ shm'.ok
  <2>1. shm' = [s EXCEPT !.ok = TRUE] /\ s \in Segment
    BY DEF Commit, Keeps
  <2>2. shm' \in Segment /\ shm'.ok /\ shm'.num = s.num /\ shm'.bkt = s.bkt
    BY <2>1 DEF Segment
  <2> QED
    BY <2>1, <2>2, SlotsFree, KeepsTransitive
<1>3. file' \in GoodFiles
  BY Replayed DEF Commit
<1> QED
  BY <1>1, <1>2, <1>3 DEF Metadata, StatisticsConserved, Keeps, FreeCounted, FreeBuckets

\* A fresh segment and no open handles.
LEMMA InitGood == Init => IInv
<1> SUFFICES ASSUME Init PROVE IInv
  OBVIOUS
<1>1. shm \in Segment /\ shm.ok /\ StatisticsConserved /\ FreeCounted(shm)
  <2>1. NumBuckets \in Int
    BY NumBucketsAssumption
  <2>2. [k \in Counters |-> IF k = "free" THEN NumBuckets ELSE 0] \in ShareMemHeader
    BY <2>1 DEF ShareMemHeader
  <2>3. CounterSum([k \in Counters |-> IF k = "free" THEN NumBuckets ELSE 0]) = NumBuckets
    BY <2>1 DEF CounterSum, Counters
  <2>4. shm \in Segment /\ shm.ok /\ StatisticsConserved
    BY <2>2, <2>3, ResetTyped DEF Init, ResetSegment, Segment, StatisticsConserved, StatisticsSum
  <2>5. Cardinality(FreeBuckets(shm)) <= NumBuckets
    <3>1. IsFiniteSet(Buckets) /\ Cardinality(Buckets) = NumBuckets
      BY NumBucketsAssumption, FS_Interval DEF Buckets
    <3>2. FreeBuckets(shm) \in SUBSET Buckets
      BY DEF FreeBuckets
    <3> QED
      BY <3>1, <3>2, FS_Subset
  <2>6. shm.num["free"] = NumBuckets
    BY DEF Init, ResetSegment, Counters
  <2> QED
    BY <2>4, <2>5, <2>6 DEF FreeCounted
<1>2. file \in GoodFiles
  <2>1. <<>> \in Seq(Block) /\ <<>> \in Seq(EvictRecord)
    OBVIOUS
  <2>2. ASSUME NEW blocks \in Seq(Block), NEW unseen \in Seq(EvictRecord)
        PROVE  [exists |-> FALSE, blocks |-> blocks, unseen |-> unseen] \in File
    BY DEF File
  <2> QED
    BY <2>1, <2>2 DEF Init, GoodFiles
<1>3. \A c \in Clients : h[c] = ClosedHandle
  BY DEF Init
<1>4. h \in [Clients -> Handle] /\ \A c \in Clients : GoodHandle(h[c])
  <2>1. ClosedHandle \in Handle
    BY ClosedHandleGood DEF GoodHandle
  <2> QED
    BY <1>3, <2>1, ClosedHandleGood DEF Init
<1>5. Data
  BY DEF Init, Data, Contents
<1> QED
  BY <1>1, <1>2, <1>4, <1>5, Halves DEF Metadata

-----------------------------------------------------------------------------
(* The actions *)

\* Steps that move no data.
LEMMA DataUnchanged == ASSUME Data, UNCHANGED <<space, oss, truth>> PROVE Data'
BY DEF Data

\* The constructor of FileActiveStatus.
LEMMA OpenStep ==
  ASSUME IInv, NEW c \in Clients, NEW f \in Files, NEW kind \in Kinds, Open(c, f, kind)
  PROVE  IInv'
<1> DEFINE id == FreeSlot(shm)
           me == IF id = InvalidActiveId THEN h[c]
                 ELSE [h[c] EXCEPT !.pc = "idle", !.file = f, !.id = id, !.kind = kind]
<1>1. Metadata /\ Data /\ GoodHandle(h[c]) /\ shm \in Segment /\ file \in GoodFiles
  BY Halves DEF Metadata
<1>2. GoodHandle(me)
  <2>1. ASSUME NEW i \in ActiveIds \cup {InvalidActiveId}, NEW k \in {"write", "read", "delete"}
        PROVE  GoodHandle([h[c] EXCEPT !.pc = "idle", !.file = f, !.id = i, !.kind = k])
    BY <1>1 DEF GoodHandle, Handle, Prepared
  <2> QED
    BY <1>1, <2>1, FreeSlotTyped, KindsAssumption
<1>3. Keeps(shm, RegistFile(shm, f, kind = "delete"))
  BY <1>1, RegistFileKeeps
<1>4. [file EXCEPT ![f].exists = TRUE, ![f].unseen = <<>>] \in GoodFiles
  BY <1>1, Replayed
<1>5. Commit(c, me, RegistFile(shm, f, kind = "delete"),
             [file EXCEPT ![f].exists = TRUE, ![f].unseen = <<>>])
  BY Zenon DEF Open
<1> HIDE DEF me
<1>6. Metadata'
  BY <1>1, <1>2, <1>3, <1>4, <1>5, CommitGood
<1> QED
  BY <1>1, <1>6, DataUnchanged, HalvesNext DEF Open

\* getCurBlockInfo for a block of the file.
LEMMA AccessOldStep == ASSUME IInv, NEW c \in Clients, AccessOld(c) PROVE IInv'
<1>1. Metadata /\ Data /\ GoodHandle(h[c]) /\ h[c].file \in Files /\ file \in GoodFiles
  BY Halves, OpenedFile DEF Metadata, AccessOld
<1>2. PICK b \in DOMAIN BlocksOf(h[c]) : h' = [h EXCEPT ![c] = Settle([h[c] EXCEPT !.cur = b], 0)]
  BY DEF AccessOld
<1>3. b \in Nat
  <2>1. BlocksOf(h[c]) \in Seq(Block)
    BY <1>1 DEF BlocksOf, GoodFiles, File
  <2> QED
    BY <2>1
<1>4. GoodHandle([h[c] EXCEPT !.cur = b]) /\ [h[c] EXCEPT !.cur = b].file \in Files
  BY <1>1, <1>3 DEF GoodHandle, Handle, Prepared
<1>5. GoodHandle(Settle([h[c] EXCEPT !.cur = b], 0))
  BY <1>4, GoodIsUsable, SettleGood
<1>6. Metadata'
  BY <1>1, <1>2, <1>5, OnlyHandleChanged DEF AccessOld
<1> QED
  BY <1>1, <1>6, DataUnchanged, HalvesNext DEF AccessOld

\* getCurBlockInfo for the block after the last one.
LEMMA AccessNewStep == ASSUME IInv, NEW c \in Clients, AccessNew(c) PROVE IInv'
<1> DEFINE n == Len(BlocksOf(h[c])) + 1
           p == IF h[c].pre = <<>> THEN "acquire" ELSE "extend"
<1>1. Metadata /\ Data /\ GoodHandle(h[c]) /\ h[c].file \in Files /\ file \in GoodFiles
  BY Halves, OpenedFile DEF Metadata, AccessNew
<1>2. n \in Nat
  <2>1. BlocksOf(h[c]) \in Seq(Block)
    BY <1>1 DEF BlocksOf, GoodFiles, File
  <2> QED
    BY <2>1
<1>3. h' = [h EXCEPT ![c] = [h[c] EXCEPT !.cur = n, !.pc = p]]
  BY <1>1 DEF AccessNew, Metadata
<1> HIDE DEF n
<1>4. GoodHandle([h[c] EXCEPT !.cur = n, !.pc = p])
  BY <1>1, <1>2, ZenonT(40) DEF GoodHandle, Handle, Prepared, Locked
<1>5. Metadata'
  BY <1>1, <1>3, <1>4, OnlyHandleChanged DEF AccessNew
<1> QED
  BY <1>1, <1>5, DataUnchanged, HalvesNext DEF AccessNew

\* One turn of the wait loop of adjustActiveBlock.
LEMMA WaitStep == ASSUME IInv, NEW c \in Clients, Wait(c) PROVE IInv'
<1> DEFINE me == h[c]
           new == IF me.cur \in Range(me.lru) THEN [me EXCEPT !.pc = "io"]
                  ELSE [me EXCEPT !.retry = TRUE, !.ctr = 0,
                                  !.pc = IF me.pre = <<>> THEN "acquire" ELSE "activate"]
<1>1. Metadata /\ Data /\ GoodHandle(me) /\ me.file \in Files
  BY Halves, OpenedFile DEF Metadata, Wait
<1>2. GoodHandle(new)
  <2>1. GoodHandle([me EXCEPT !.pc = "io"])
    BY <1>1 DEF GoodHandle, Handle, Prepared
  <2>2. ASSUME NEW z \in Nat
        PROVE  GoodHandle([me EXCEPT !.retry = TRUE, !.ctr = z,
                                     !.pc = IF me.pre = <<>> THEN "acquire" ELSE "activate"])
    BY <1>1 DEF GoodHandle, Handle, Prepared, Locked
  <2>3. 0 \in Nat
    OBVIOUS
  <2> QED
    BY <2>1, <2>2, <2>3, Zenon
<1>3. h' = [h EXCEPT ![c] = new]
  BY Zenon DEF Wait
<1> HIDE DEF new
<1>4. Metadata'
  BY <1>1, <1>2, <1>3, OnlyHandleChanged DEF Wait
<1> QED
  BY <1>1, <1>4, DataUnchanged, HalvesNext DEF Wait

\* writeBlock of the victim.
LEMMA EvictWriteStep == ASSUME IInv, NEW c \in Clients, EvictWrite(c) PROVE IInv'
<1>1. Metadata /\ Data /\ GoodHandle(h[c]) /\ h[c].pc = "evict"
  BY Halves DEF Metadata, EvictWrite
<1>2. h' = [h EXCEPT ![c] = [h[c] EXCEPT !.pc = "loop"]]
  BY <1>1 DEF EvictWrite, Metadata
<1>3. GoodHandle([h[c] EXCEPT !.pc = "loop"]) /\ h[c].victim.bucket \in Buckets
  BY <1>1 DEF GoodHandle, Handle, Prepared, Locked
<1>4. Metadata'
  BY <1>1, <1>2, <1>3, OnlyHandleChanged DEF EvictWrite
<1>5. Data'
  BY <1>1, <1>3 DEF EvictWrite, Data
<1> QED
  BY <1>4, <1>5, HalvesNext

\* writeBlock throws.
LEMMA EvictWriteFailsStep == ASSUME IInv, NEW c \in Clients, EvictWriteFails(c) PROVE IInv'
<1>1. Metadata /\ Data /\ GoodHandle(h[c]) /\ h[c].file \in Files
  BY Halves, OpenedFile DEF Metadata, EvictWriteFails
<1>2. Metadata'
  BY <1>1, GoodIsUsable, FailedGood, OnlyHandleChanged DEF EvictWriteFails
<1> QED
  BY <1>1, <1>2, DataUnchanged, HalvesNext DEF EvictWriteFails

\* A client reads its bucket.
LEMMA ReadStep == ASSUME IInv, NEW c \in Clients, Read(c) PROVE IInv'
<1>1. Metadata /\ Data /\ GoodHandle(h[c]) /\ h[c].file \in Files
  BY Halves, OpenedFile DEF Metadata, Read
<1>2. Metadata'
  BY <1>1, IdleGood, OnlyHandleChanged DEF Read
<1> QED
  BY <1>1, <1>2, DataUnchanged, HalvesNext DEF Read

\* A client writes its bucket.
LEMMA WriteStep == ASSUME IInv, NEW c \in Clients, Write(c) PROVE IInv'
<1> DEFINE f == h[c].file
           i == h[c].cur
           v == IF truth[<<f, i>>] = <<f, i, 0>> THEN 1 ELSE 0
           data == <<f, i, v>>
<1>1. Metadata /\ Data /\ GoodHandle(h[c]) /\ f \in Files /\ i \in Nat
  BY Halves, OpenedFile, HandleFields DEF Metadata, Write
<1>2. Metadata'
  BY <1>1, IdleGood, OnlyHandleChanged DEF Write
<1>3. /\ space' = [space EXCEPT ![BlocksOf(h[c])[i].bucket] = data]
      /\ truth' = [truth EXCEPT ![<<f, i>>] = data] /\ oss' = oss
  BY Zenon DEF Write
<1>4. v \in {0, 1}
  OBVIOUS
<1> HIDE DEF f, i, v
<1>5. data \in Contents
  BY <1>1, <1>4 DEF Contents
<1> HIDE DEF data
<1>6. Data'
  BY <1>1, <1>3, <1>5 DEF Data
<1> QED
  BY <1>2, <1>6, HalvesNext

\* readBlock of a loader thread.
LEMMA LoadReadStep == ASSUME IInv, NEW c \in Clients, LoadRead(c) PROVE IInv'
<1>1. Metadata /\ Data /\ GoodHandle(h[c])
  BY Halves DEF Metadata
<1>2. PICK l \in h[c].loading :
        /\ \/ /\ space' = [space EXCEPT ![l.bucket] = Object(h[c].file, l.blk)]
              /\ h' = [h EXCEPT ![c] = Step(h[c], l, "read")]
           \/ /\ h' = [h EXCEPT ![c] = Step(h[c], l, "failed")]
              /\ UNCHANGED space
        /\ UNCHANGED <<shm, file, oss, truth>>
  BY Zenon DEF LoadRead
<1>3. GoodHandle(Step(h[c], l, "read")) /\ GoodHandle(Step(h[c], l, "failed"))
  BY <1>1, StepGood
<1>4. Metadata'
  BY <1>1, <1>2, <1>3, OnlyHandleChanged
<1>5. Data'
  <2>1. Object(h[c].file, l.blk) \in Contents
    BY <1>1 DEF Data, Object, Contents
  <2> QED
    BY <1>1, <1>2, <2>1 DEF Data
<1> QED
  BY <1>4, <1>5, HalvesNext

\* deleteBlock of a loader thread.
LEMMA LoadDeleteStep == ASSUME IInv, NEW c \in Clients, LoadDelete(c) PROVE IInv'
<1>1. Metadata /\ Data /\ GoodHandle(h[c])
  BY Halves DEF Metadata
<1>2. PICK l \in h[c].loading :
        /\ oss' = [oss EXCEPT ![<<h[c].file, l.blk>>] = NoData]
        /\ h' = [h EXCEPT ![c] = Step(h[c], l, "done")]
        /\ UNCHANGED <<shm, file, space, truth>>
  BY Zenon DEF LoadDelete
<1>3. GoodHandle(Step(h[c], l, "done"))
  BY <1>1, StepGood
<1>4. Metadata'
  BY <1>1, <1>2, <1>3, OnlyHandleChanged
<1>5. NoData \in Contents
  BY DEF Contents
<1>6. Data'
  BY <1>1, <1>2, <1>5 DEF Data
<1> QED
  BY <1>4, <1>6, HalvesNext

\* The end of loadBlock, success or failure.
LEMMA LoadFinishStep == ASSUME IInv, NEW c \in Clients, LoadFinish(c) PROVE IInv'
<1>1. Metadata /\ Data /\ GoodHandle(h[c]) /\ TypeOK /\ shm \in Segment /\ file \in GoodFiles
  BY Halves DEF Metadata, IInv
<1>2. PICK l \in h[c].loading :
        LET me == [h[c] EXCEPT !.loading = @ \ {l}]
        IN /\ h[c].pc \notin Locked
           /\ shm' = MarkLoadFinish(shm, l.bucket, me.id)
           /\ IF l.st = "done"
              THEN /\ h' = [h EXCEPT ![c] = [me EXCEPT !.lru = LruPut(@, l.blk)]]
                   /\ file' = LogLoad(me.file, l)
              ELSE /\ h' = [h EXCEPT ![c] = [me EXCEPT !.pre = <<l.bucket>> \o @]]
                   /\ UNCHANGED file
  BY Zenon DEF LoadFinish
<1> DEFINE me == [h[c] EXCEPT !.loading = @ \ {l}]
<1>3. l \in Load /\ l.blk \in Nat /\ l.bucket \in Buckets
  <2>1. l \in Load
    BY <1>1, HandleFields
  <2> QED
    BY <2>1 DEF Load
<1>4. GoodHandle(me) /\ me.pc = h[c].pc
  <2>1. h[c].loading \ {l} \in SUBSET Load /\ IsFiniteSet(h[c].loading \ {l})
    BY <1>1, FS_RemoveElement DEF GoodHandle, Handle, Prepared
  <2>2. ASSUME NEW new \in SUBSET Load, IsFiniteSet(new)
        PROVE  GoodHandle([h[c] EXCEPT !.loading = new]) /\ [h[c] EXCEPT !.loading = new].pc = h[c].pc
    BY <1>1, <2>2 DEF GoodHandle, Handle, Prepared
  <2> QED
    BY <2>1, <2>2, Zenon
<1>5. /\ shm' = MarkLoadFinish(shm, l.bucket, me.id)
      /\ \/ /\ h' = [h EXCEPT ![c] = [me EXCEPT !.lru = LruPut(@, l.blk)]]
            /\ file' = LogLoad(me.file, l)
         \/ /\ h' = [h EXCEPT ![c] = [me EXCEPT !.pre = <<l.bucket>> \o @]]
            /\ file' = file
  BY <1>2, Zenon
<1>6. me.pc \notin {"extend", "activate"}
  BY <1>2, <1>4 DEF Locked
<1> HIDE DEF me
<1>7. LruPut(me.lru, l.blk) \in Seq(Nat) /\ <<l.bucket>> \o me.pre \in Seq(Buckets)
  <2>1. me.lru \in Seq(Nat) /\ me.pre \in Seq(Buckets)
    BY <1>4, HandleFields
  <2>2. LruPut(me.lru, l.blk) \in Seq(Nat)
    BY <1>3, <2>1, LruPutTyped
  <2>3. <<l.bucket>> \o me.pre \in Seq(Buckets)
    <3>1. <<l.bucket>> \in Seq(Buckets)
      BY <1>3
    <3> QED
      BY <2>1, <3>1, ConcatTyped
  <2> QED
    BY <2>2, <2>3
<1>8. /\ GoodHandle([me EXCEPT !.lru = LruPut(@, l.blk)])
      /\ GoodHandle([me EXCEPT !.pre = <<l.bucket>> \o @])
  <2>1. ASSUME NEW lru \in Seq(Nat) PROVE GoodHandle([me EXCEPT !.lru = lru])
    BY <1>4, ZenonT(40) DEF GoodHandle, Handle, Prepared
  <2>2. ASSUME NEW pre \in Seq(Buckets) PROVE GoodHandle([me EXCEPT !.pre = pre])
    BY <1>4, <1>6 DEF GoodHandle, Handle, Prepared
  <2> QED
    BY <1>7, <2>1, <2>2, Zenon
<1>9. h' \in [Clients -> Handle] /\ \A d \in Clients : GoodHandle(h'[d])
  BY <1>1, <1>5, <1>8, HandleChanged
<1>10. Keeps(shm, shm') /\ shm'.ok
  <2>1. Keeps(shm, shm')
    BY <1>1, <1>5, MarkLoadFinishKeeps
  <2>2. shm'.ok <=> shm.ok
    BY <1>5 DEF MarkLoadFinish
  <2>3. shm'.ok
    BY <1>1, <2>2 DEF Metadata
  <2> QED
    BY <2>1, <2>3
<1>11. file' \in GoodFiles
  BY <1>1, <1>3, <1>5, LogLoadTyped
<1>12. Metadata'
  BY <1>1, <1>9, <1>10, <1>11 DEF Metadata, StatisticsConserved, Keeps, FreeCounted, FreeBuckets
<1> QED
  BY <1>1, <1>12, DataUnchanged, HalvesNext DEF LoadFinish

\* One remote object of a destroyed file is deleted.
LEMMA PurgeStep == ASSUME IInv, NEW c \in Clients, Purge(c) PROVE IInv'
<1> DEFINE me == h[c]
           i == Min(me.purge)
<1>1. Metadata /\ Data /\ GoodHandle(me)
  BY Halves DEF Metadata
<1>2. /\ h' = [h EXCEPT ![c] = IF me.purge = {i} THEN ClosedHandle
                              ELSE [me EXCEPT !.purge = @ \ {i}]]
      /\ oss' = [oss EXCEPT ![<<me.file, i>>] = NoData]
      /\ UNCHANGED <<shm, file, space, truth>>
  BY Zenon DEF Purge
<1>3. GoodHandle([me EXCEPT !.purge = @ \ {i}])
  <2>1. me.purge \ {i} \in SUBSET Nat
    BY <1>1, HandleFields
  <2>2. ASSUME NEW left \in SUBSET Nat PROVE GoodHandle([me EXCEPT !.purge = left])
    BY <1>1 DEF GoodHandle, Handle, Prepared
  <2> QED
    BY <2>1, <2>2, Zenon
<1> HIDE DEF i
<1>4. Metadata'
  BY <1>1, <1>2, <1>3, ClosedHandleGood, OnlyHandleChanged
<1>5. NoData \in Contents
  BY DEF Contents
<1>6. Data'
  BY <1>1, <1>2, <1>5 DEF Data
<1> QED
  BY <1>4, <1>6, HalvesNext

-----------------------------------------------------------------------------
(* acquireNewBlocks *)

\* A victim is chosen and marked, or the call fails for want of one.
LEMMA StartEvictGood ==
  ASSUME Metadata, NEW c \in Clients, NEW me, GoodHandle(me), me.file \in Files,
         NEW s, Keeps(shm, s), NEW files \in GoodFiles, StartEvict(c, me, s, files)
  PROVE  Metadata'
<1>1. CASE Evictable(s) = {}
  <2>1. Commit(c, Failed(me), s, files)
    BY <1>1 DEF StartEvict
  <2> QED
    BY <2>1, GoodIsUsable, FailedGood, CommitGood
<1>2. CASE Evictable(s) # {}
  <2>1. PICK b \in Evictable(s) :
          Commit(c, [me EXCEPT !.pc = "evict",
                               !.victim = [file |-> s.bkt[b].file, blk |-> s.bkt[b].blk,
                                           bucket |-> b]],
                 MarkBucketEvicting(s, b, me.id), files)
    BY <1>2, Zenon DEF StartEvict
  <2> DEFINE v == [file |-> s.bkt[b].file, blk |-> s.bkt[b].blk, bucket |-> b]
             t == MarkBucketEvicting(s, b, me.id)
  <2>2. b \in Buckets /\ s \in Segment /\ me.id \in AnyId
    BY HandleFields DEF Evictable, Keeps
  <2>3. v \in Victim /\ v.bucket \in Buckets
    <3>1. s.bkt[b] \in ShareMemBucket
      BY <2>2, SegmentFields
    <3> QED
      BY <2>2, <3>1 DEF ShareMemBucket, Victim
  <2>4. Keeps(shm, t)
    BY <2>2, MarkBucketEvictingKeeps, KeepsTransitive
  <2>5. Commit(c, [me EXCEPT !.pc = "evict", !.victim = v], t, files)
    BY <2>1
  <2> HIDE DEF v, t
  <2>6. GoodHandle([me EXCEPT !.pc = "evict", !.victim = v])
    BY <2>3 DEF GoodHandle, Handle, Prepared, Locked
  <2> QED
    BY <2>4, <2>5, <2>6, CommitGood
<1> QED
  BY <1>1, <1>2

\* Both critical sections of acquireNewBlocks end by evicting on or returning.
LEMMA AcquireNextGood ==
  ASSUME Metadata, NEW c \in Clients, NEW me, GoodHandle(me), me.file \in Files,
         NEW s, Keeps(shm, s), NEW files \in GoodFiles, AcquireNext(c, me, s, files)
  PROVE  Metadata'
<1>1. CASE me.need # 0
  BY <1>1, StartEvictGood DEF AcquireNext
<1>2. CASE me.need = 0
  <2>1. Commit(c, Acquired(me), s, files)
    BY <1>2 DEF AcquireNext
  <2> QED
    BY <2>1, GoodIsUsable, AcquiredGood, CommitGood
<1> QED
  BY <1>1, <1>2

\* The first critical section of acquireNewBlocks, with its three exceptions.
LEMMA AcquireBeginStep == ASSUME IInv, NEW c \in Clients, AcquireBegin(c) PROVE IInv'
<1> DEFINE me == h[c]
           policy == AcquirePolicy(NumAcquired(me), Len(me.lru), shm.num["free"], shm.num["used"])
           list == Pairs(me, LruRemoved(me.lru, policy.drop))
           s1 == InactivateBuckets(shm, list, me.file, me.id)
           me1 == [me EXCEPT !.lru = LruKept(@, policy.drop)]
           logged == LogInactivate(shm, me, list)
           n == Least(policy.take, shm.num["free"])
           s2 == AcquireFreeBucket(s1, me.id, n, me.file)
<1>1. /\ Metadata /\ Data /\ GoodHandle(me) /\ TypeOK /\ shm \in Segment /\ file \in GoodFiles
      /\ me.file \in Files /\ me.pc = "acquire"
  BY Halves, OpenedFile DEF Metadata, IInv, AcquireBegin
<1>2. /\ me.lru \in Seq(Nat) /\ me.pre \in Seq(Buckets) /\ me.id \in AnyId /\ me.file \in AnyFile
      /\ me.need \in Int
  BY <1>1, HandleFields
<1>3. \/ Commit(c, Failed(me), shm, file)
      \/ Commit(c, Failed(me1), s1, file)
      \/ Commit(c, Failed(me1), s2, logged)
      \/ \E got \in InOrder(AcquiredBuckets(s1, n)) :
           AcquireNext(c, [me1 EXCEPT !.pre = @ \o got, !.need = policy.take - n], s2, logged)
  BY Zenon DEF AcquireBegin
<1>4. policy.drop \in Nat /\ policy.take \in Int /\ shm.num["free"] \in Int
  <2>1. NumAcquired(me) \in Nat /\ Len(me.lru) \in Nat
    BY <1>1, <1>2, NumAcquiredTyped
  <2>2. shm.num["free"] \in Int /\ shm.num["used"] \in Int
    BY <1>1, SegmentFields DEF ShareMemHeader, Counters
  <2> QED
    BY <2>1, <2>2, PolicyTyped
<1> HIDE DEF me, policy
<1>5. n \in Int /\ policy.take - n \in Int
  BY <1>4 DEF Least
<1>6. LruKept(me.lru, policy.drop) \in Seq(Nat) /\ LruRemoved(me.lru, policy.drop) \in Seq(Nat)
  BY <1>2, <1>4, LruRemoveTyped
<1>7. Keeps(shm, s1)
  BY <1>1, <1>2, <1>6, PairsTyped, InactivateBucketsKeeps
<1>8. logged \in GoodFiles
  BY <1>1, LogInactivateTyped
<1> HIDE DEF list, s1, n, logged
<1>9. Keeps(shm, s2)
  BY <1>2, <1>7, AcquireFreeBucketKeeps, KeepsTransitive DEF Keeps
<1> HIDE DEF s2
<1>10. GoodHandle(me1) /\ me1.file \in Files /\ me1.pre \in Seq(Buckets) /\ me1.pc = "acquire"
  BY <1>1, <1>2, <1>6, HandleWith
<1> HIDE DEF me1
<1>11. Keeps(shm, shm)
  BY <1>1, KeepsItself
<1>12. ASSUME NEW got \in InOrder(AcquiredBuckets(s1, n)),
              AcquireNext(c, [me1 EXCEPT !.pre = @ \o got, !.need = policy.take - n], s2, logged)
       PROVE  Metadata'
  <2> DEFINE pre == me1.pre \o got
             need == policy.take - n
             me2 == [me1 EXCEPT !.pre = pre, !.need = need]
  <2>1. pre \in Seq(Buckets)
    BY <1>10, AcquiredBucketsTyped, MorePre
  <2>2. AcquireNext(c, me2, s2, logged)
    BY <1>12, Zenon
  <2>3. need \in Int /\ me1.pc \notin {"extend", "activate"}
    BY <1>5, <1>10
  <2> HIDE DEF pre, need
  <2>4. GoodHandle(me2)
    BY <1>10, <2>1, <2>3, HandleWithPre
  <2>5. me2 = [me1 EXCEPT !.pre = pre, !.need = need]
    OBVIOUS
  <2> HIDE DEF me2
  <2>6. me2.file \in Files
    BY <1>10, <2>5 DEF GoodHandle, Handle
  <2> QED
    BY <1>1, <1>8, <1>9, <2>2, <2>4, <2>6, AcquireNextGood
<1>13. Metadata'
  BY <1>1, <1>3, <1>7, <1>8, <1>9, <1>10, <1>11, <1>12, GoodIsUsable, FailedGood, CommitGood
<1> QED
  BY <1>1, <1>13, DataUnchanged, HalvesNext DEF AcquireBegin

\* One turn of the loop of acquireNewBlocks, also on a stale victim.
LEMMA EvictLoopStep == ASSUME IInv, NEW c \in Clients, EvictLoop(c) PROVE IInv'
<1> DEFINE me == h[c]
           v == me.victim
           rc == EvictFinishRc(shm, v.bucket, me.id)
           s1 == EvictBucketFinishAndTryAcquire(shm, v.bucket, me.id, me.file)
           me1 == IF rc = 2 THEN me
                  ELSE [me EXCEPT !.pre = Append(@, v.bucket), !.need = @ - 1]
           logged == IF rc = 0 THEN LogEvict(v) ELSE file
           n == IF me1.need < 0 THEN s1.num["free"] ELSE Least(me1.need, s1.num["free"])
           s2 == IF n > 0 THEN AcquireFreeBucket(s1, me.id, n, me.file) ELSE s1
           new == IF n > 0 THEN AcquiredBuckets(s1, n) ELSE {}
           Me2(got) == [me1 EXCEPT !.pre = @ \o got, !.need = @ - n]
<1>1. /\ Metadata /\ Data /\ GoodHandle(me) /\ TypeOK /\ shm \in Segment /\ file \in GoodFiles
      /\ me.file \in Files /\ me.pc = "loop"
  BY Halves, OpenedFile DEF Metadata, IInv, EvictLoop
<1>2. /\ me.pre \in Seq(Buckets) /\ me.id \in AnyId /\ me.file \in AnyFile
      /\ me.need \in Int /\ v \in Victim /\ v.bucket \in Buckets
  BY <1>1, HandleFields DEF GoodHandle, Prepared
<1>3. /\ \/ Commit(c, Failed(me1), s1, file)
         \/ Commit(c, Failed(me1), s2, logged)
         \/ \E got \in InOrder(new) : \/ Commit(c, [Me2(got) EXCEPT !.pc = "evict"], s2, logged)
                                      \/ AcquireNext(c, Me2(got), s2, logged)
      /\ oss' = IF rc = 0 THEN oss ELSE [oss EXCEPT ![<<v.file, v.blk>>] = NoData]
      /\ UNCHANGED <<space, truth>>
  BY Zenon DEF EvictLoop
<1> HIDE DEF me
<1>4. Keeps(shm, s1)
  BY <1>1, <1>2, EvictBucketFinishAndTryAcquireKeeps
<1>5. logged \in GoodFiles
  BY <1>1, <1>2, LogEvictTyped
<1> HIDE DEF rc, s1, logged
<1>6. GoodHandle(me1) /\ me1.file \in Files /\ me1.pc = "loop" /\ me1.victim = v
  <2> DEFINE pre == Append(me.pre, v.bucket)
             need == me.need - 1
             more == [me EXCEPT !.pre = pre, !.need = need]
  <2>1. pre \in Seq(Buckets) /\ need \in Int /\ me.pc \notin {"extend", "activate"}
    BY <1>1, <1>2, AppendTyped
  <2>2. me1 = IF rc = 2 THEN me ELSE more
    BY Zenon
  <2> HIDE DEF pre, need
  <2>3. GoodHandle(more)
    BY <1>1, <2>1, HandleWithPre
  <2>4. more.file = me.file /\ more.pc = me.pc /\ more.victim = v
    BY <1>1 DEF GoodHandle, Handle
  <2> HIDE DEF more, me1
  <2> QED
    BY <1>1, <2>2, <2>3, <2>4
<1> HIDE DEF me1
<1>7. me1.need \in Int /\ me1.pre \in Seq(Buckets)
  BY <1>6, HandleFields
<1>8. s1.num["free"] \in Int
  BY <1>4, SegmentFields DEF Keeps, ShareMemHeader, Counters
<1>9. n \in Int
  BY <1>7, <1>8 DEF Least
<1>10. Keeps(shm, s2) /\ new \in SUBSET Buckets
  <2>1. s1 \in Segment
    BY <1>4, Zenon DEF Keeps
  <2>2. Keeps(s1, AcquireFreeBucket(s1, me.id, n, me.file)) /\ AcquiredBuckets(s1, n) \in SUBSET Buckets
    BY <1>2, <2>1, AcquireFreeBucketKeeps, AcquiredBucketsTyped, Zenon
  <2>3. Keeps(shm, AcquireFreeBucket(s1, me.id, n, me.file))
    BY <1>4, <2>2, KeepsTransitive, Zenon
  <2> HIDE DEF n
  <2> QED
    BY <1>4, <2>2, <2>3, Zenon
<1> HIDE DEF n, s2, new, v
<1>11. ASSUME NEW got \in InOrder(new)
       PROVE  /\ GoodHandle(Me2(got)) /\ Me2(got).file \in Files
              /\ GoodHandle([Me2(got) EXCEPT !.pc = "evict"])
  <2> DEFINE pre == me1.pre \o got
             need == me1.need - n
             me2 == [me1 EXCEPT !.pre = pre, !.need = need]
  <2>1. pre \in Seq(Buckets)
    BY <1>7, <1>10, MorePre
  <2>2. need \in Int /\ me1.pc \notin {"extend", "activate"}
    BY <1>6, <1>7, <1>9
  <2>3. Me2(got) = me2
    BY Zenon
  <2> HIDE DEF pre, need
  <2>4. GoodHandle(me2)
    BY <1>6, <2>1, <2>2, HandleWithPre
  <2>5. me2.file = me1.file /\ me2.victim = me1.victim
    BY <1>6 DEF GoodHandle, Handle
  <2> HIDE DEF me2
  <2>6. me2.file \in Files /\ me2.victim.bucket \in Buckets
    BY <1>2, <1>6, <2>5
  <2>7. GoodHandle([me2 EXCEPT !.pc = "evict"])
    BY <2>4, <2>6 DEF GoodHandle, Handle, Prepared, Locked
  <2> QED
    BY <2>3, <2>4, <2>6, <2>7, Zenon
<1> HIDE DEF Me2
<1>12. Metadata'
  <2>1. CASE Commit(c, Failed(me1), s1, file)
    BY <1>1, <1>4, <1>6, <2>1, GoodIsUsable, FailedGood, CommitGood
  <2>2. CASE Commit(c, Failed(me1), s2, logged)
    BY <1>1, <1>5, <1>6, <1>10, <2>2, GoodIsUsable, FailedGood, CommitGood
  <2>3. ASSUME NEW got \in InOrder(new), Commit(c, [Me2(got) EXCEPT !.pc = "evict"], s2, logged)
        PROVE  Metadata'
    BY <1>1, <1>5, <1>10, <1>11, <2>3, CommitGood
  <2>4. ASSUME NEW got \in InOrder(new), AcquireNext(c, Me2(got), s2, logged) PROVE Metadata'
    BY <1>1, <1>5, <1>10, <1>11, <2>4, AcquireNextGood
  <2> QED
    BY <1>3, <2>1, <2>2, <2>3, <2>4
<1>13. Data'
  <2>1. NoData \in Contents
    BY DEF Contents
  <2> QED
    BY <1>1, <1>3, <2>1 DEF Data
<1> QED
  BY <1>12, <1>13, HalvesNext

-----------------------------------------------------------------------------
(* extendOneBlock, activateBlock and close *)

\* extendOneBlock.
LEMMA ExtendStep == ASSUME IInv, NEW c \in Clients, Extend(c) PROVE IInv'
<1> DEFINE me == h[c]
           b == Head(me.pre)
           s1 == UpdateActiveFileInfo(shm, b, me.cur, me.file)
           me1 == [me EXCEPT !.pre = Tail(@), !.lru = LruPut(@, me.cur)]
           new == [bucket |-> b, local |-> TRUE, state |-> "active"]
           logged == [file EXCEPT ![me.file].blocks = Append(@, new)]
<1>1. /\ Metadata /\ Data /\ GoodHandle(me) /\ shm \in Segment /\ file \in GoodFiles
      /\ me.file \in Files /\ me.pc = "extend"
  BY Halves, OpenedFile DEF Metadata, Extend
<1>2. me.pre \in Seq(Buckets) /\ me.pre # <<>> /\ me.cur \in Nat /\ me.lru \in Seq(Nat)
  BY <1>1, HandleFields DEF GoodHandle, Prepared
<1>3. \/ Commit(c, [me1 EXCEPT !.pc = "io"], s1, logged)
      \/ Commit(c, Failed(me1), s1, file)
  BY Zenon DEF Extend
<1>4. b \in Buckets /\ Tail(me.pre) \in Seq(Buckets)
  BY <1>2, HeadTailTyped
<1> HIDE DEF me
<1>5. Keeps(shm, s1)
  BY <1>1, <1>2, UpdateActiveFileInfoKeeps
<1>6. logged \in GoodFiles
  <2>1. new \in Block
    BY <1>4 DEF Block
  <2>2. file[me.file].blocks \in Seq(Block)
    BY <1>1 DEF GoodFiles, File
  <2> HIDE DEF new
  <2>3. Append(file[me.file].blocks, new) \in Seq(Block)
    BY <2>1, <2>2
  <2>4. [file EXCEPT ![me.file].blocks = Append(file[me.file].blocks, new)] \in GoodFiles
    BY <1>1, <2>3, BlocksUpdated
  <2> QED
    BY <2>4, Zenon
<1>7. Usable(me1) /\ GoodHandle([me1 EXCEPT !.pc = "io"])
  <2>1. ASSUME NEW pre \in Seq(Buckets), NEW lru \in Seq(Nat)
        PROVE  Usable([me EXCEPT !.pre = pre, !.lru = lru])
    BY <1>1 DEF GoodHandle, Handle, Prepared, Usable
  <2>2. LruPut(me.lru, me.cur) \in Seq(Nat)
    BY <1>2, LruPutTyped
  <2>3. Usable(me1)
    BY <1>4, <2>1, <2>2, Zenon
  <2> HIDE DEF me1
  <2> QED
    BY <2>3 DEF GoodHandle, Handle, Prepared, Usable
<1> HIDE DEF me1, s1, logged
<1>8. GoodHandle(Failed(me1))
  BY <1>7, FailedGood
<1>9. Metadata'
  BY <1>1, <1>3, <1>5, <1>6, <1>7, <1>8, CommitGood
<1> QED
  BY <1>1, <1>9, DataUnchanged, HalvesNext DEF Extend

\* activateBlock on a remote block.
LEMMA ActivateRemoteStep == ASSUME IInv, NEW c \in Clients, ActivateRemote(c) PROVE IInv'
<1> DEFINE me == h[c]
           blk == me.cur + me.ctr
           b == Head(me.pre)
           l == [blk |-> blk, bucket |-> b, st |-> "reading"]
           me1 == [me EXCEPT !.pre = Tail(@), !.loading = @ \cup {l}]
           s1 == MarkBucketLoading(shm, b, blk, me.id)
<1>1. /\ Metadata /\ Data /\ GoodHandle(me) /\ shm \in Segment /\ file \in GoodFiles
      /\ me.file \in Files /\ me.pc = "activate"
  BY Halves, OpenedFile DEF Metadata, ActivateRemote
<1>2. /\ me.pre \in Seq(Buckets) /\ me.pre # <<>> /\ me.cur \in Nat /\ me.ctr \in Nat
      /\ me.id \in AnyId /\ me.loading \in SUBSET Load /\ IsFiniteSet(me.loading)
  BY <1>1, HandleFields DEF GoodHandle, Prepared
<1>3. Commit(c, Continue(me), shm, file) \/ Commit(c, Continue(me1), s1, file)
  BY Zenon DEF ActivateRemote
<1>4. b \in Buckets /\ Tail(me.pre) \in Seq(Buckets) /\ blk \in Nat /\ blk \in Int
  BY <1>2, HeadTailTyped
<1> HIDE DEF me, b, blk
<1>5. Keeps(shm, s1) /\ Keeps(shm, shm)
  BY <1>1, <1>2, <1>4, MarkBucketLoadingKeeps, KeepsItself
<1>6. Usable(me1)
  <2>1. l \in Load
    BY <1>4 DEF Load
  <2> HIDE DEF l
  <2>2. me.loading \cup {l} \in SUBSET Load /\ IsFiniteSet(me.loading \cup {l})
    BY <1>2, <2>1, FS_AddElement
  <2>3. ASSUME NEW pre \in Seq(Buckets), NEW loading \in SUBSET Load, IsFiniteSet(loading)
        PROVE  Usable([me EXCEPT !.pre = pre, !.loading = loading])
    BY <1>1, <2>3 DEF GoodHandle, Handle, Usable
  <2> QED
    BY <1>4, <2>2, <2>3, Zenon
<1> HIDE DEF me1, s1
<1>7. GoodHandle(Continue(me)) /\ GoodHandle(Continue(me1))
  BY <1>1, <1>6, GoodIsUsable, ContinueGood
<1>8. Metadata'
  BY <1>1, <1>3, <1>5, <1>7, CommitGood
<1> QED
  BY <1>1, <1>8, DataUnchanged, HalvesNext DEF ActivateRemote

\* activateBlock on a local block.
LEMMA ActivateLocalStep == ASSUME IInv, NEW c \in Clients, ActivateLocal(c) PROVE IInv'
<1> DEFINE me == h[c]
           blk == me.cur + me.ctr
           full == NumAcquired(me) = Quota
           list == Pairs(me, LruRemoved(me.lru, 1))
           drop == full /\ me.lru # <<>>
           free == full /\ me.lru = <<>>
           s1 == IF drop THEN InactivateBuckets(shm, list, me.file, me.id)
                 ELSE IF free THEN ReleaseBuckets(shm, <<me.pre[Len(me.pre)]>>) ELSE shm
           lru == IF drop THEN LruKept(me.lru, 1) ELSE me.lru
           pre == IF free THEN SubSeq(me.pre, 1, Len(me.pre) - 1) ELSE me.pre
           me1 == [me EXCEPT !.lru = lru, !.pre = pre]
           logged == IF drop THEN LogInactivate(shm, me, list) ELSE file
           b == BlocksOf(me)[blk].bucket
           s2 == ActivateBucket(s1, me.file, blk, b, me.id)
           logged2 == IF ActivateRc(s1, b) = 1
                      THEN [logged EXCEPT ![me.file].blocks = [@ EXCEPT ![blk].state = "active"]]
                      ELSE logged
           me2 == [me1 EXCEPT !.lru = LruPut(@, blk)]
<1>1. /\ Metadata /\ Data /\ GoodHandle(me) /\ TypeOK /\ shm \in Segment /\ file \in GoodFiles
      /\ me.file \in Files /\ me.pc = "activate"
  BY Halves, OpenedFile DEF Metadata, IInv, ActivateLocal
<1>2. /\ me.pre \in Seq(Buckets) /\ me.pre # <<>> /\ me.cur \in Nat /\ me.ctr \in Nat
      /\ me.id \in AnyId /\ me.file \in AnyFile /\ me.lru \in Seq(Nat)
  BY <1>1, HandleFields DEF GoodHandle, Prepared
<1>3. \/ Commit(c, Failed(me), shm, file)
      \/ Commit(c, Failed(me1), s1, file)
      \/ Commit(c, Failed(me1), s2, logged)
      \/ Commit(c, Continue(me2), s2, logged2)
  BY Zenon DEF ActivateLocal
<1>4. blk \in Nat
  BY <1>2
<1>5. LruKept(me.lru, 1) \in Seq(Nat) /\ LruRemoved(me.lru, 1) \in Seq(Nat)
  BY <1>2, LruRemoveTyped
<1>6. SubSeq(me.pre, 1, Len(me.pre) - 1) \in Seq(Buckets)
  <2>1. Len(me.pre) - 1 \in 0 .. Len(me.pre) /\ Len(me.pre) \in Nat
    BY <1>2
  <2> QED
    BY <1>2, <2>1, SubSeqTyped
<1> HIDE DEF me, blk
<1>7. Keeps(shm, s1)
  <2>1. Keeps(shm, InactivateBuckets(shm, list, me.file, me.id))
    BY <1>1, <1>2, <1>5, PairsTyped, InactivateBucketsKeeps
  <2>2. Keeps(shm, ReleaseBuckets(shm, <<me.pre[Len(me.pre)]>>)) /\ Keeps(shm, shm)
    BY <1>1, ReleaseBucketsKeeps, KeepsItself
  <2> QED
    BY <2>1, <2>2, Zenon
<1>8. logged \in GoodFiles
  <2>1. LogInactivate(shm, me, list) \in GoodFiles
    BY <1>1, LogInactivateTyped
  <2> QED
    BY <1>1, <2>1, Zenon
<1> HIDE DEF s1, logged, b
<1>9. Keeps(shm, s2)
  <2>1. s1 \in Segment
    BY <1>7, Zenon DEF Keeps
  <2>2. Keeps(s1, s2)
    BY <1>2, <2>1, ActivateBucketKeeps, Zenon
  <2> QED
    BY <1>7, <2>2, KeepsTransitive, Zenon
<1>10. logged2 \in GoodFiles
  BY <1>1, <1>8, LogActivateTyped
<1>11. lru \in Seq(Nat) /\ pre \in Seq(Buckets)
  BY <1>2, <1>5, <1>6
<1> HIDE DEF lru, pre, s2, logged2
<1>12. Usable(me1)
  BY <1>1, <1>11 DEF GoodHandle, Handle, Prepared, Usable
<1> HIDE DEF me1
<1>13. Usable(me2)
  <2>1. me1.lru \in Seq(Nat)
    BY <1>12 DEF Usable, Handle
  <2>2. LruPut(me1.lru, blk) \in Seq(Nat)
    BY <1>4, <2>1, LruPutTyped
  <2>3. ASSUME NEW q \in Seq(Nat) PROVE Usable([me1 EXCEPT !.lru = q])
    BY <1>12 DEF Usable, Handle
  <2> QED
    BY <2>2, <2>3, Zenon
<1> HIDE DEF me2
<1>14. GoodHandle(Failed(me)) /\ GoodHandle(Failed(me1)) /\ GoodHandle(Continue(me2))
  BY <1>1, <1>12, <1>13, GoodIsUsable, FailedGood, ContinueGood
<1>15. Keeps(shm, shm)
  BY <1>1, KeepsItself
<1>16. Metadata'
  BY <1>1, <1>3, <1>7, <1>8, <1>9, <1>10, <1>14, <1>15, CommitGood
<1> QED
  BY <1>1, <1>16, DataUnchanged, HalvesNext DEF ActivateLocal

\* close, with its early exceptions, the log compaction and the destruction.
LEMMA CloseStep == ASSUME IInv, NEW c \in Clients, NEW isCancel, Close(c, isCancel) PROVE IInv'
<1> DEFINE me == h[c]
           f == me.file
           s1 == ReleaseBuckets(shm, me.pre)
           list == Pairs(me, LruRemoved(me.lru, Len(me.lru)))
           s2 == InactivateBuckets(s1, list, f, me.id)
           logged == LogInactivate(s1, me, list)
           s3 == UnregistFile(s2, me.id)
           blocks == logged[f].blocks
           s4 == DeleteBlocks(s3, blocks, f)
           half == [ClosedHandle EXCEPT !.pc = "halfclosed"]
           remote == {i \in DOMAIN blocks : ~blocks[i].local}
           empty == [exists |-> FALSE, blocks |-> <<>>, unseen |-> <<>>]
           gone == [logged EXCEPT ![f] = empty]
           purged == [ClosedHandle EXCEPT !.pc = IF remote = {} THEN "none" ELSE "purge",
                                          !.file = IF remote = {} THEN NoFile ELSE f,
                                          !.purge = remote]
<1>1. /\ Metadata /\ Data /\ GoodHandle(me) /\ TypeOK /\ shm \in Segment /\ file \in GoodFiles
      /\ f \in Files
  BY Halves, OpenedFile DEF Metadata, IInv, Close
<1>2. f \in AnyFile /\ me.id \in AnyId /\ me.lru \in Seq(Nat)
  BY <1>1, HandleFields
<1>3. /\ \/ Commit(c, half, s1, file) \/ Commit(c, half, s2, file)
         \/ Commit(c, ClosedHandle, s3, logged) \/ Commit(c, half, s3, logged)
         \/ Commit(c, half, s4, logged) \/ Commit(c, purged, s4, gone)
      /\ truth' = [k \in Keys |-> IF k[1] = f /\ ~file'[f].exists THEN NoData ELSE truth[k]]
      /\ UNCHANGED <<space, oss>>
  BY Zenon DEF Close
<1>4. Keeps(shm, s1)
  BY <1>1, ReleaseBucketsKeeps
<1>5. LruRemoved(me.lru, Len(me.lru)) \in Seq(Nat)
  BY <1>2, LruRemoveTyped
<1>6. logged \in GoodFiles
  BY <1>1, LogInactivateTyped
<1> HIDE DEF me, f, s1, logged
<1>a. s1 \in Segment
  BY <1>4 DEF Keeps
<1>7. Keeps(shm, s2)
  BY <1>2, <1>4, <1>5, <1>a, PairsTyped, InactivateBucketsKeeps, KeepsTransitive
<1> HIDE DEF s2
<1>8. Keeps(shm, s3)
  BY <1>7, UnregistFileKeeps, KeepsTransitive DEF Keeps
<1> HIDE DEF s3
<1>9. Keeps(shm, s4)
  BY <1>8, DeleteBlocksKeeps, KeepsTransitive DEF Keeps
<1> HIDE DEF s4
<1>10. gone \in GoodFiles
  <2>1. <<>> \in Seq(Block) /\ <<>> \in Seq(EvictRecord)
    OBVIOUS
  <2>2. empty \in File
    BY <2>1, Zenon DEF File
  <2> HIDE DEF empty
  <2> QED
    BY <1>6, <2>2 DEF GoodFiles
<1> HIDE DEF gone
<1>11. GoodHandle(half)
  BY ClosedHandleGood DEF ClosedHandle, GoodHandle, Handle, Prepared
<1>12. remote \in SUBSET Nat
  <2>1. blocks \in Seq(Block)
    BY <1>1, <1>6 DEF GoodFiles, File
  <2> QED
    BY <2>1
<1> HIDE DEF remote, half
<1>13. GoodHandle(purged)
  <2>1. ASSUME NEW p \in {"none", "purge"}, NEW g \in Files \cup {NoFile}, p = "purge" => g \in Files
        PROVE  GoodHandle([ClosedHandle EXCEPT !.pc = p, !.file = g, !.purge = remote])
    <3>1. ASSUME NEW me0, GoodHandle(me0), me0.pc = "none"
          PROVE  GoodHandle([me0 EXCEPT !.pc = p, !.file = g, !.purge = remote])
      BY <1>12, <2>1, <3>1 DEF GoodHandle, Handle, Prepared
    <3>2. ClosedHandle.pc = "none"
      BY DEF ClosedHandle
    <3> QED
      BY <3>1, <3>2, ClosedHandleGood
  <2>2. CASE remote = {}
    BY <2>1, <2>2
  <2>3. CASE remote # {}
    BY <1>1, <2>1, <2>3
  <2> QED
    BY <2>2, <2>3
<1> HIDE DEF purged
<1>14. Metadata'
  BY <1>1, <1>3, <1>4, <1>6, <1>7, <1>8, <1>9, <1>10, <1>11, <1>13, ClosedHandleGood, CommitGood
<1>15. Data'
  <2>1. NoData \in Contents
    BY DEF Contents
  <2>2. \A k \in Keys : truth[k] \in Contents
    BY <1>1 DEF Data
  <2>3. truth' \in [Keys -> Contents]
    BY <1>3, <2>1, <2>2
  <2> QED
    BY <1>1, <1>3, <2>3 DEF Data
<1> QED
  BY <1>14, <1>15, HalvesNext

-----------------------------------------------------------------------------
(* The theorems *)

\* Every step keeps the invariant.
LEMMA NextGood == IInv /\ [Next]_vars => IInv'
<1> SUFFICES ASSUME IInv, [Next]_vars PROVE IInv'
  OBVIOUS
<1>1. CASE UNCHANGED vars
  BY <1>1 DEF vars, IInv, TypeOK, StatisticsConserved, FreeCounted, FreeBuckets
<1>2. ASSUME NEW c \in Clients,
             \/ \E f \in Files, kind \in Kinds : Open(c, f, kind)
             \/ AccessOld(c) \/ AccessNew(c) \/ EvictWriteFails(c)
             \/ \E isCancel \in Cancels : Close(c, isCancel)
      PROVE  IInv'
  BY <1>2, OpenStep, AccessOldStep, AccessNewStep, EvictWriteFailsStep, CloseStep
<1>3. ASSUME NEW c \in Clients, Progress(c) PROVE IInv'
  BY <1>3, WaitStep, AcquireBeginStep, EvictWriteStep, EvictLoopStep, ExtendStep,
     ActivateRemoteStep, ActivateLocalStep, ReadStep, WriteStep, PurgeStep DEF Progress
<1>4. ASSUME NEW c \in Clients, Loader(c) PROVE IInv'
  BY <1>4, LoadReadStep, LoadDeleteStep, LoadFinishStep DEF Loader
<1> QED
  BY <1>1, <1>2, <1>3, <1>4 DEF Next

\* In every reachable state the segment, the manifests and the handles have their type, and a
\* thread in extendOneBlock, activateBlock or the eviction loop has the bucket it uses there.
THEOREM TypesHold == Spec => []TypeOK
<1>1. IInv => TypeOK
  BY DEF IInv
<1> QED
  BY <1>1, InitGood, NextGood, PTL DEF Spec

\* In every reachable state numFreeBuckets is at least the number of free buckets: acquireNewBlocks
\* never asks acquireFreeBucket for fewer than none, and the counter does not go below zero.
THEOREM FreeNeverUnderstated == Spec => []FreeCounted(shm)
<1>1. IInv => FreeCounted(shm)
  BY DEF IInv
<1> QED
  BY <1>1, InitGood, NextGood, PTL DEF Spec

\* In every reachable state, also after exceptions, steals, deletions and failures of the
\* object store, the five bucket counters of the header add up to the number of buckets.
THEOREM CountersConserved == Spec => []StatisticsConserved
<1>1. IInv => StatisticsConserved
  BY DEF IInv
<1> QED
  BY <1>1, InitGood, NextGood, PTL DEF Spec
=============================================================================
