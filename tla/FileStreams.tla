----------------------------- MODULE FileStreams -----------------------------
(***************************************************************************)
(* The byte streams of one file: File::read, write, seek, flush and close   *)
(* over InputStream, OutputStream and FileActiveStatus, with the position   *)
(* and the end of file (EOF) of every handle.                               *)
(*                                                                         *)
(* Here every handle has its own copy of the block array and of the EOF,    *)
(* brought up to date only when a critical section replays the manifest.    *)
(* FileActiveStatus models eviction and loading; this module assumes        *)
(* enough buckets for neither to be needed.  One action is one critical     *)
(* section with the local steps around it, or one transfer of bytes.        *)
(*                                                                         *)
(* Block numbers start at 1 here and at 0 in the code.  The byte written at *)
(* position p of the file is p + 1; 0 is a byte that this file's blocks     *)
(* never wrote: whatever an earlier use of the bucket left there.           *)
(***************************************************************************)
EXTENDS SharedMemory, Policy, SequencesExt

CONSTANTS Clients,     \* threads with at most one handle each
          BucketSize,  \* Configuration::LOCAL_BUCKET_SIZE, in bytes
          MaxSize,     \* bound: bytes of the file
          ReadLengths, \* bound: bytes a client asks to read
          WriteLengths, \* bound: bytes a client writes in one call
          Targets,     \* bound: positions to seek
          MaxLate,     \* bound: manifest records a handle has not replayed
          Kinds        \* client -> how it opens: subset of {"write", "read", "delete"}

ASSUME SizesAssumption ==
  /\ BucketSize \in Nat \ {0} /\ MaxSize \in Nat /\ MaxLate \in Nat
  /\ ReadLengths \cup WriteLengths \subseteq 1 .. MaxSize /\ Targets \subseteq 0 .. MaxSize
MaxBlocks == (MaxSize + BucketSize - 1) \div BucketSize
ASSUME KindsAssumption == Kinds \in [Clients -> SUBSET {"write", "read", "delete"}]
ASSUME OneFileAssumption == Cardinality(Files) = 1
\* Nothing is evicted: the file, and the quota of every handle, fit in the buckets.
ASSUME RoomAssumption ==
  /\ IsFiniteSet(Clients) /\ Cardinality(Clients) <= MaxConnection
  /\ NumBuckets >= MaxBlocks + Quota * Cardinality(Clients)

VARIABLES shm,    \* the shared-memory segment
          size,   \* bucket -> its dataSize
          image,  \* [exists, blocks, eof]: the manifest, replayed from its start
          h,      \* client -> handle
          space   \* bucket -> its bytes in the local space file

vars == <<shm, size, image, h, space>>

TheFile == CHOOSE f \in Files : TRUE
Offsets == 0 .. BucketSize - 1
Unwritten == [o \in Offsets |-> 0]
NoImage == [exists |-> FALSE, blocks |-> <<>>, eof |-> 0]

(* A handle: where its thread is (pc), mBlockArray, mEof, mPos, mLRUCache (newest first), *)
(* mPreAllocatedBuckets, the manifest records after its offset (late), and the locals of  *)
(* a call: what it does (op, "flush" stays until the next call), the bytes left (todo),   *)
(* the counter and the retry of adjustActiveBlock.                                        *)
ClosedHandle ==
  [pc |-> "none", kind |-> "read", id |-> InvalidActiveId, blocks |-> <<>>, eof |-> 0,
   pos |-> 0, lru |-> <<>>, pre |-> <<>>, late |-> <<>>, op |-> "none", todo |-> 0,
   ctr |-> 0, retry |-> FALSE]

Init ==
  /\ shm = ResetSegment
  /\ size = [b \in Buckets |-> 0]
  /\ image = NoImage
  /\ h = [c \in Clients |-> ClosedHandle]
  /\ space = [b \in Buckets |-> Unwritten]

-----------------------------------------------------------------------------
(* The manifest *)

WithState(blocks, blks, state) ==
  [i \in DOMAIN blocks |-> IF i \in blks THEN [blocks[i] EXCEPT !.state = state] ELSE blocks[i]]

ActiveRecord(blk) == [type |-> "activeBlock", blks |-> {blk}]
InactiveRecord(blks) == [type |-> "inactiveBlock", blks |-> blks]
ExtendRecord(block, eof) == [type |-> "extendBlock", block |-> block, eof |-> eof]
EofRecord(eof) == [type |-> "updateEof", eof |-> eof]

\* catchUpManifestLogs for one record.  acquireNewBlock and releaseBlock records are skipped
\* by the code and never written here.
Replay(view, r) ==
  CASE r.type = "activeBlock" -> [view EXCEPT !.blocks = WithState(@, r.blks, "active")]
    [] r.type = "inactiveBlock" -> [view EXCEPT !.blocks = WithState(@, r.blks, "used")]
    [] r.type = "extendBlock" -> [view EXCEPT !.blocks = Append(@, r.block), !.eof = r.eof]
    [] r.type = "updateEof" -> [view EXCEPT !.eof = r.eof]

Replayed(view, records) == FoldLeft(Replay, view, records)

\* Mutant of CaughtUp: the offset moves past records that were not replayed.
CaughtUpBlindly(me) == [me EXCEPT !.late = <<>>]

\* What SHARED_MEM_BEGIN does to a handle once it has the lock.
CaughtUp(me) == [Replayed(me, me.late) EXCEPT !.late = <<>>]

Opened(me) == me.pc # "none"

\* The segment and the data sizes after a critical section.  A bucket that was reset has no
\* size, and its bytes mean nothing any more.
Shared(s, sz) ==
  /\ shm' = [s EXCEPT !.ok = TRUE]
  /\ size' = [b \in Buckets |-> IF s.bkt[b].type = "free" THEN 0 ELSE sz[b]]
  /\ space' = [b \in Buckets |-> IF s.bkt[b].type = "free" THEN Unwritten ELSE space[b]]

\* The end of a critical section in which `records' were appended.
Commit(c, me, s, sz, records) ==
  /\ Shared(s, sz)
  /\ image' = Replayed(image, records)
  /\ h' = [d \in Clients |-> IF d = c THEN me
                             ELSE IF Opened(h[d]) THEN [h[d] EXCEPT !.late = @ \o records]
                             ELSE h[d]]

\* An exception reaches the client.
Failed(me) == [me EXCEPT !.pc = "failed", !.op = "none", !.todo = 0, !.ctr = 0, !.retry = FALSE]

-----------------------------------------------------------------------------
(* The end of file *)

\* getBucketDataSize and updateBucketDataSize refuse a bucket that is not what they expect.
EofReadable(me, s) ==
  LET n == Len(me.blocks)
      bk == s.bkt[me.blocks[n].bucket]
  IN bk.file = TheFile /\ bk.blk = n

\* Mutant of SharedMemEof: what the other handles have written is not looked up.
SharedMemEofMine(me, sz) == me

\* getSharedMemEof
SharedMemEof(me, sz) ==
  LET n == Len(me.blocks)
      shared == (n - 1) * BucketSize + sz[me.blocks[n].bucket]
  IN [me EXCEPT !.eof = IF shared > @ THEN shared ELSE @]

Pairs(me, blks) ==
  [i \in DOMAIN blks |-> [blk |-> blks[i], bucket |-> me.blocks[blks[i]].bucket]]

\* inactivateBuckets and what follows it in acquireNewBlocks, activateBlock and close: the
\* EOF is logged when the last block is let go by its last handle, then the blocks are.  A
\* record of no blocks, which acquireNewBlocks may write, changes nothing.
LetGo(me, s, list) ==
  LET used == {list[i].blk : i \in TurnedToUsed(s, list, me.id)}
      ends == Len(me.blocks) \in used
      me1 == [me EXCEPT !.blocks = WithState(@, used, "used")]
      me2 == IF ends THEN SharedMemEof(me1, size) ELSE me1
      s1 == InactivateBuckets(s, list, TheFile, me.id)
  IN [me |-> me2, s |-> s1, ok |-> s1.ok /\ (ends => EofReadable(me, s1)),
      records |-> (IF ends THEN <<EofRecord(me2.eof)>> ELSE <<>>)
                  \o (IF used = {} THEN <<>> ELSE <<InactiveRecord(used)>>)]

-----------------------------------------------------------------------------
(* Opening a file *)

Writers == {c \in Clients : Opened(h[c]) /\ h[c].kind = "write"}

\* gwOpenFile and the FileActiveStatus constructor, and gwDeleteFile up to its close.  A file
\* has one writer at a time, which the code asks of its callers.
Open(c, kind) ==
  LET id == FreeSlot(shm)
      new == [ClosedHandle EXCEPT !.pc = "idle", !.kind = kind, !.id = id,
                                  !.blocks = image.blocks, !.eof = image.eof]
  IN /\ h[c].pc = "none"
     /\ kind = "delete" => image.exists
     /\ kind = "write" => Writers = {}
     /\ Shared(RegistFile(shm, TheFile, kind = "delete"), size)
     /\ image' = [image EXCEPT !.exists = TRUE]
     /\ h' = [h EXCEPT ![c] = new]

-----------------------------------------------------------------------------
(* getCurBlockInfo: the block of the current position *)

Cur(me) == me.pos \div BucketSize + 1
NumAcquired(me) == Len(me.lru) + Len(me.pre)

Fetch(me) == IF me.pre = <<>> THEN "acquire" ELSE "activate"

\* The pre-activation loop of adjustActiveBlock from counter `from' on.  Without the current
\* block in the cache the waiting loop activates it once more.
Settle(me, from) ==
  LET todo == {k \in from .. Least(Quota, PreActivate) - 1 :
                 Cur(me) + k <= Len(me.blocks) /\ Cur(me) + k \notin Range(me.lru)}
  IN IF todo # {} THEN [me EXCEPT !.ctr = Min(todo), !.pc = Fetch(me)]
     ELSE IF Cur(me) \in Range(me.lru) THEN [me EXCEPT !.ctr = 0, !.pc = "io"]
     ELSE [me EXCEPT !.ctr = 0, !.retry = TRUE, !.pc = Fetch(me)]

\* The block at mPos is extended or activated.
Adjusted(me) ==
  IF Cur(me) <= Len(me.blocks) THEN Settle(me, 0)
  ELSE [me EXCEPT !.pc = IF me.pre = <<>> THEN "acquire" ELSE "extend"]

\* Mutant of Continue: the loop does not notice that its block is active.
ContinueForever(me) == [me EXCEPT !.pc = Fetch(me)]

Continue(me) ==
  IF me.retry THEN [me EXCEPT !.retry = FALSE, !.pc = "io"] ELSE Settle(me, me.ctr + 1)

\* acquireNewBlocks, with a free bucket for every one it asks for.
Acquire(c) ==
  LET me == CaughtUp(h[c])
      policy == AcquirePolicy(NumAcquired(me), Len(me.lru), shm.num["free"], shm.num["used"])
      gone == LetGo(me, shm, Pairs(me, LruRemoved(me.lru, policy.drop)))
      s1 == AcquireFreeBucket(gone.s, me.id, policy.take, TheFile)
  IN /\ h[c].pc = "acquire"
     /\ IF ~policy.ok THEN Commit(c, Failed(me), shm, size, <<>>)
        ELSE IF ~gone.ok THEN Commit(c, Failed(gone.me), gone.s, size, <<>>)
        ELSE IF ~s1.ok THEN Commit(c, Failed(gone.me), s1, size, gone.records)
        ELSE \E got \in InOrder(AcquiredBuckets(gone.s, policy.take)) :
               Commit(c, [gone.me EXCEPT !.lru = LruKept(@, policy.drop), !.pre = @ \o got,
                            !.pc = IF Cur(me) > Len(me.blocks) THEN "extend" ELSE "activate"],
                      s1, size, gone.records)

\* extendOneBlock: the block joins the handle's own array before the manifest is replayed.
Extend(c) ==
  LET block == [bucket |-> Head(h[c].pre), local |-> TRUE, state |-> "active"]
      blk == Len(h[c].blocks) + 1
      me == CaughtUp([h[c] EXCEPT !.pre = Tail(@), !.blocks = Append(@, block),
                                  !.lru = LruPut(@, blk)])
      s1 == UpdateActiveFileInfo(shm, block.bucket, blk, TheFile)
  IN /\ h[c].pc = "extend"
     /\ IF s1.ok THEN Commit(c, [me EXCEPT !.pc = "io"], s1, size, <<ExtendRecord(block, me.eof)>>)
        ELSE Commit(c, Failed(me), s1, size, <<>>)

\* activateBlock for a local block.  Its state in the handle's own array is not set when the
\* handle itself activates it.
Activate(c) ==
  LET me == CaughtUp(h[c])
      blk == Cur(me) + me.ctr
      full == NumAcquired(me) = Quota
      drop == full /\ me.lru # <<>>
      free == full /\ me.lru = <<>>
      gone == LetGo(me, shm, IF drop THEN Pairs(me, LruRemoved(me.lru, 1)) ELSE <<>>)
      s1 == IF free THEN ReleaseBuckets(gone.s, <<Last(me.pre)>>) ELSE gone.s
      b == me.blocks[blk].bucket
      s2 == ActivateBucket(s1, TheFile, blk, b, me.id)
      mine == [gone.me EXCEPT !.lru = LruPut(IF drop THEN LruKept(@, 1) ELSE @, blk),
                              !.pre = IF free THEN Front(@) ELSE @]
  IN /\ h[c].pc = "activate"
     /\ IF NumAcquired(me) > Quota THEN Commit(c, Failed(me), shm, size, <<>>)
        ELSE IF ~gone.ok \/ ~s1.ok THEN Commit(c, Failed(gone.me), s1, size, <<>>)
        ELSE IF ~s2.ok THEN Commit(c, Failed(gone.me), s2, size, gone.records)
        ELSE Commit(c, Continue(mine), s2, size,
                    gone.records \o IF ActivateRc(s1, b) = 1 THEN <<ActiveRecord(blk)>> ELSE <<>>)
-----------------------------------------------------------------------------
(* Calls of a client, and the loops of InputStream::read and OutputStream::write *)

Remaining(me) == me.eof - me.pos

Call(me, op, n) == IF n = 0 THEN me ELSE Adjusted([me EXCEPT !.op = op, !.todo = n])

\* gwRead: as much as the handle knows to be there.
BeginRead(c, n) ==
  /\ h[c].pc = "idle" /\ h[c].kind # "delete"
  /\ Remaining(h[c]) > 0
  /\ h' = [h EXCEPT ![c] = Call(@, "read", Least(n, Remaining(@)))]
  /\ UNCHANGED <<shm, size, image, space>>

\* gwWrite
BeginWrite(c, n) ==
  /\ h[c].pc = "idle" /\ h[c].kind = "write"
  /\ h[c].pos + n <= MaxSize
  /\ h' = [h EXCEPT ![c] = Call(@, "write", n)]
  /\ UNCHANGED <<shm, size, image, space>>

\* Mutant of Seek: a reader may seek past the end, and no bytes are written up to there.
SeekAnywhere(c, p) ==
  /\ h[c].pc = "idle" /\ h[c].kind # "delete"
  /\ h' = [h EXCEPT ![c].pos = p]
  /\ UNCHANGED <<shm, size, image, space>>

\* gwSeek to position p, however it is expressed.  Past the EOF a writer goes through the
\* write loop without writing, a reader gets an exception and nothing changes.
Seek(c, p) ==
  LET me == h[c]
  IN /\ me.pc = "idle" /\ me.kind # "delete"
     /\ p <= me.eof \/ me.kind = "write"
     /\ h' = [h EXCEPT ![c] = IF p <= me.eof THEN [me EXCEPT !.pos = p, !.op = "none"]
                              ELSE Call([me EXCEPT !.pos = me.eof], "seek", p - me.eof)]
     /\ UNCHANGED <<shm, size, image, space>>

Offset(me) == me.pos % BucketSize
Bucket(me) == me.blocks[Cur(me)].bucket

\* How many bytes this turn of the loop asks for, and how many it may get.  read() stops
\* early at the end of the local space file, past which no byte was ever written.
Chunk(me) == Least(me.todo, BucketSize - Offset(me))
Transfers(me) ==
  IF me.op # "read" THEN {Chunk(me)}
  ELSE {n \in 0 .. Chunk(me) :
          \A o \in Offset(me) + n .. Offset(me) + Chunk(me) - 1 : space[Bucket(me)][o] = 0}

\* The loop's next turn, with the stream on the current block or on the next one.
NextTurn(me, needUpdate) ==
  IF me.todo = 0 THEN [me EXCEPT !.pc = "idle", !.op = "none"]
  ELSE IF needUpdate THEN Adjusted(me) ELSE [me EXCEPT !.pc = "io"]

\* One turn: transfer, then setPosition, which raises the EOF and goes on to
\* updateCurBlockSize when the position passed it.
Io(c) ==
  LET me == h[c]
  IN /\ me.pc = "io"
     /\ \E n \in Transfers(me) :
          LET moved == [me EXCEPT !.pos = @ + n, !.todo = @ - n]
              written == [o \in Offsets |-> IF o \in Offset(me) .. Offset(me) + n - 1
                                            THEN me.pos + o - Offset(me) + 1
                                            ELSE space[Bucket(me)][o]]
          IN /\ h' = [h EXCEPT ![c] =
                   IF moved.pos > me.eof THEN [moved EXCEPT !.eof = moved.pos, !.pc = "resize"]
                   ELSE NextTurn(moved, me.todo > BucketSize - Offset(me))]
             /\ space' = IF me.op = "write" THEN [space EXCEPT ![Bucket(me)] = written] ELSE space
     /\ UNCHANGED <<shm, size, image>>

\* Mutant of Resize: the data size counts from the start of the file.
ResizeWhole(c) ==
  LET me == CaughtUp(h[c])
  IN /\ h[c].pc = "resize"
     /\ Commit(c, NextTurn(me, TRUE), shm, [size EXCEPT ![Last(me.blocks).bucket] = me.eof], <<>>)

\* updateCurBlockSize.  A turn that passed the EOF and is not the last one filled its block.
Resize(c) ==
  LET me == CaughtUp(h[c])
      n == Len(me.blocks)
      b == me.blocks[n].bucket
      data == me.eof - (n - 1) * BucketSize
      fits == /\ data <= BucketSize /\ shm.bkt[b].file = TheFile
              /\ shm.bkt[b].type = "active" /\ HasActiveId(shm.bkt[b].infos, me.id)
      sz == [size EXCEPT ![b] = IF @ < data THEN data ELSE @]
  IN /\ h[c].pc = "resize"
     /\ IF me.eof < h[c].eof \/ (me.eof = h[c].eof /\ ~fits)
        THEN Commit(c, Failed(me), shm, size, <<>>)
        ELSE Commit(c, NextTurn(me, TRUE), shm, IF me.eof = h[c].eof THEN sz ELSE size, <<>>)

-----------------------------------------------------------------------------
(* gwFlush, gwCloseFile and gwCancelFile *)

\* FileActiveStatus::flush looks at the state in the handle's own array.  On an empty file it
\* reads before the start of that array; clients are assumed not to do that.
Flush(c) ==
  LET me == [CaughtUp(h[c]) EXCEPT !.op = "flush"]
      n == Len(me.blocks)
      me1 == SharedMemEof(me, size)
  IN /\ h[c].pc = "idle" /\ h[c].kind = "write" /\ h[c].blocks # <<>>
     /\ IF me.eof < h[c].eof THEN Commit(c, Failed(me), shm, size, <<>>)
        ELSE IF me.blocks[n].state # "active" THEN Commit(c, me, shm, size, <<>>)
        ELSE IF ~EofReadable(me, shm) THEN Commit(c, Failed(me), shm, size, <<>>)
        ELSE Commit(c, me1, shm, size, <<EofRecord(me1.eof)>>)

\* FileActiveStatus::close.  The last handle on the file destroys it or rewrites its
\* manifest from its own block array and EOF (logFullStatus).
Close(c, isCancel) ==
  LET me == CaughtUp(h[c])
      s1 == ReleaseBuckets(shm, me.pre)
      gone == LetGo(me, s1, Pairs(me, LruRemoved(me.lru, Len(me.lru))))
      s2 == UnregistFile(gone.s, me.id)
      destroy == gone.s.act[me.id].destroy \/ isCancel
      s3 == DeleteBlocks(s2, gone.me.blocks, TheFile)
      busy == \E i \in DOMAIN gone.me.blocks : gone.me.blocks[i].state # "used"
      full == [exists |-> TRUE, blocks |-> gone.me.blocks, eof |-> gone.me.eof]
  IN /\ h[c].pc = "idle"
     /\ h[c].kind = "delete" => ~isCancel
     /\ IF ~s1.ok \/ ~gone.ok THEN Commit(c, Failed(me), gone.s, size, <<>>)
        ELSE IF IsFileOpening(s2, TheFile) THEN Commit(c, ClosedHandle, s2, size, gone.records)
        ELSE IF destroy /\ (busy \/ ~s3.ok) THEN Commit(c, Failed(me), s2, size, gone.records)
        ELSE /\ Shared(IF destroy THEN s3 ELSE s2, size)
             /\ image' = IF destroy THEN NoImage ELSE full
             /\ h' = [h EXCEPT ![c] = ClosedHandle]

-----------------------------------------------------------------------------
(* The specification *)

\* Steps a thread takes by itself once a client has called.
Progress(c) == Acquire(c) \/ Extend(c) \/ Activate(c) \/ Io(c) \/ Resize(c)

\* Bound: clients make no calls while some other handle has many records to replay.
Paced(c) == \A d \in Clients \ {c} : Len(h[d].late) <= MaxLate

Calls(c) ==
  \/ (\E n \in ReadLengths : BeginRead(c, n)) \/ \E n \in WriteLengths : BeginWrite(c, n)
  \/ \E p \in Targets : Seek(c, p)
  \/ Flush(c)

Next ==
  \E c \in Clients :
    \/ \E kind \in Kinds[c] : Open(c, kind)
    \/ Paced(c) /\ Calls(c)
    \/ Progress(c)
    \/ \E isCancel \in BOOLEAN : Close(c, isCancel)

Spec == Init /\ [][Next]_vars

\* A read that may be at the end of the local space file: it gets no bytes and asks again.
Starved(c) == h[c].pc = "io" /\ 0 \in Transfers(h[c])

\* When the thread of a client has a step to take that changes something.
Runnable(c) ==
  h[c].pc \in {"acquire", "extend", "activate", "resize"} \/ (h[c].pc = "io" /\ ~Starved(c))

\* Threads keep running and get the lock when they ask for it; clients call when they like.
\* This is weak fairness of Progress with its guards written out.
FairSpec == Spec /\ \A c \in Clients : []<>~Runnable(c) \/ []<><<Progress(c)>>_vars

-----------------------------------------------------------------------------
(* Properties *)

Block == [bucket : Buckets, local : {TRUE}, state : {"active", "used"}]
Record ==
  [type : {"activeBlock", "inactiveBlock"}, blks : SUBSET (1 .. MaxBlocks)]
  \cup [type : {"extendBlock"}, block : Block, eof : 0 .. MaxSize]
  \cup [type : {"updateEof"}, eof : 0 .. MaxSize]
IsSeq(q, S) == q = [i \in 1 .. Len(q) |-> q[i]] /\ \A i \in DOMAIN q : q[i] \in S

\* Every variable has its type: the lists of a handle and the manifest hold buckets, blocks
\* and records that exist, and no position or EOF leaves the file.
TypeOK ==
  /\ shm \in Segment /\ shm.ok
  /\ size \in [Buckets -> 0 .. BucketSize]
  /\ image.exists \in BOOLEAN /\ IsSeq(image.blocks, Block) /\ image.eof \in 0 .. MaxSize
  /\ \A c \in Clients :
       /\ h[c].pc \in {"none", "idle", "acquire", "extend", "activate", "io", "resize", "failed"}
       /\ h[c].kind \in {"write", "read", "delete"}
       /\ h[c].op \in {"none", "read", "write", "seek", "flush"}
       /\ h[c].id \in ActiveIds \cup {InvalidActiveId}
       /\ IsSeq(h[c].blocks, Block) /\ IsSeq(h[c].pre, Buckets) /\ IsSeq(h[c].late, Record)
       /\ IsSeq(h[c].lru, 1 .. MaxBlocks)
       /\ h[c].eof \in 0 .. MaxSize /\ h[c].pos \in 0 .. MaxSize /\ h[c].todo \in 0 .. MaxSize
  /\ space \in [Buckets -> [Offsets -> 0 .. MaxSize]]

\* No call ends in an exception: the replayed EOF is never behind the handle's own
\* ("Unexpected File Eof"), the bucket of the last block is the one the segment knows
\* ("Bucket %d status mismatch!"), the file that is destroyed has no active block ("still
\* using active bucket").
NoCallFails == \A c \in Clients : h[c].pc # "failed"

\* The end of the last block as the segment knows it.
SegmentEof ==
  LET n == Len(image.blocks)
  IN IF n = 0 THEN 0 ELSE (n - 1) * BucketSize + size[image.blocks[n].bucket]

Eofs == {image.eof, SegmentEof} \cup {h[c].eof : c \in Clients}

\* The end of the file: as far as any handle, the manifest or the segment knows.
TrueEof == Max(Eofs)

\* A position never passes the EOF of its handle (File::remaining asserts it) and an EOF, of
\* a handle or of the manifest, never passes the blocks it can see.
EofWithinBlocks ==
  /\ image.eof <= BucketSize * Len(image.blocks)
  /\ \A c \in Clients : h[c].pos <= h[c].eof /\ h[c].eof <= BucketSize * Len(h[c].blocks)

\* The manifest, as a handle that opens now would replay it, agrees with the segment on which
\* bucket holds which block and on whether somebody uses it, and every block but the last is
\* full.
ManifestMatchesSegment ==
  \A i \in DOMAIN image.blocks :
    LET b == image.blocks[i].bucket
    IN /\ shm.bkt[b].file = TheFile /\ shm.bkt[b].blk = i
       /\ shm.bkt[b].type = image.blocks[i].state
       /\ i < Len(image.blocks) => size[b] = BucketSize

\* Whatever a handle has not replayed yet is all that separates it from the manifest: after
\* replaying it has the same blocks, none of them active that the manifest has as used (the
\* reverse happens: activateBlock does not update the handle's own array), and its EOF is the
\* manifest's unless it is the writer's, which may be ahead.
ReplayConverges ==
  \A c \in {d \in Clients : Opened(h[d])} :
    LET me == CaughtUp(h[c])
    IN /\ Len(me.blocks) = Len(image.blocks)
       /\ \A i \in DOMAIN me.blocks :
            me.blocks[i] \in {image.blocks[i], [image.blocks[i] EXCEPT !.state = "used"]}
       /\ IF me.kind = "write" THEN me.eof >= image.eof ELSE me.eof = image.eof

\* The bytes of the file, found through the manifest.
Content ==
  [p \in 1 .. TrueEof |-> space[image.blocks[(p - 1) \div BucketSize + 1].bucket][(p - 1) % BucketSize]]

\* The streams implement an array of bytes: no write touches a byte outside its range, a
\* handle's EOF never goes back, every byte is published when the last handle closes
\* (FileActiveStatus::close: "the ending block been inactivated, flush EoF"), and the file is
\* destroyed only when no handle is open.
Bytes == INSTANCE ByteFile WITH
  exists <- image.exists, content <- Content, published <- image.eof,
  open <- {c \in Clients : Opened(h[c])},
  known <- [c \in Clients |-> h[c].eof], pos <- [c \in Clients |-> h[c].pos]
ImplementsByteFile == Bytes!BFSpec

\* Every call of a client returns, except for a read of bytes that were never written and lie
\* past the end of the local space file (InputStream::read does not look at the count).
CallsReturn == \A c \in Clients : h[c].pc # "idle" ~> h[c].pc \in {"none", "idle"} \/ Starved(c)

\* Once gwFlush has returned the manifest has the EOF: "if the last block is not in activate
\* status, then the Eof info should have been flushed" (FileActiveStatus::flush).
FlushPublishes == \A c \in Clients : h[c].op = "flush" => image.eof = h[c].eof
=============================================================================
