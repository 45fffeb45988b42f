----------------------------- MODULE SharedMemory -----------------------------
(***************************************************************************)
(* The shared-memory segment of Gopherwood and the operations that          *)
(* SharedMemoryContext offers on it.  A segment is a record                 *)
(*                                                                         *)
(*   num  the header's bucket statistics                                    *)
(*   bkt  the bucket array (struct ShareMemBucket)                          *)
(*   act  the registration slots (struct ShareMemActiveStatus)              *)
(*   ok   FALSE once the running operation has thrown; what it wrote before *)
(*        the throw stays written, as in the code                           *)
(*                                                                         *)
(* Every operator maps a segment to the segment that the method of the same *)
(* name leaves behind.  The caller holds the shared-memory lock.            *)
(*                                                                         *)
(* Abstracted: bucket contents sizes (dataSize), usage counts and the clock *)
(* hand.  markBucketEvicting may pick any bucket the sweep could stop at.   *)
(***************************************************************************)
EXTENDS Integers, FiniteSets, Sequences

CONSTANTS NumBuckets,     \* Configuration::NUMBER_OF_BLOCKS
          MaxConnection,  \* Configuration::MAX_CONNECTION
          MaxOpen,        \* SMBUCKET_MAX_CONCURRENT_OPEN
          Files,          \* the file ids in use
          NoFile          \* the value of a reset FileId

ASSUME NumBucketsAssumption == NumBuckets \in Nat \ {0}
ASSUME MaxConnectionAssumption == MaxConnection \in Nat \ {0}
ASSUME MaxOpenAssumption == MaxOpen \in Nat \ {0}
ASSUME NoFileAssumption == NoFile \notin Files

Buckets == 0 .. NumBuckets - 1
ActiveIds == 0 .. MaxConnection - 1
InvalidActiveId == -1
InvalidBlockId == -1
InvalidBucketId == -1

-----------------------------------------------------------------------------
(* The structures *)

\* The header's numFreeBuckets, numActiveBuckets, ...
Counters == {"free", "active", "used", "evicting", "loading"}
ShareMemHeader == [Counters -> Int]
Moved(num, from, to, n) == [num EXCEPT ![from] = @ - n, ![to] = @ + n]

ActiveInfos == [1 .. MaxOpen -> ActiveIds \cup {InvalidActiveId}]

\* Flag bits are Booleans, the two type bits are the string `type'.
ShareMemBucket ==
  [type : {"free", "active", "used"}, evicting : BOOLEAN, deleted : BOOLEAN,
   loading : BOOLEAN, file : Files \cup {NoFile}, blk : Int,
   by : ActiveIds \cup {InvalidActiveId},
   infos : ActiveInfos]

ShareMemActiveStatus ==
  [used : BOOLEAN, file : Files \cup {NoFile}, evictFile : Files \cup {NoFile},
   blk : Int, loading : BOOLEAN, stolen : BOOLEAN, destroy : BOOLEAN]

Segment == [num : ShareMemHeader, bkt : [Buckets -> ShareMemBucket],
            act : [ActiveIds -> ShareMemActiveStatus], ok : BOOLEAN]

NoInfos == [i \in 1 .. MaxOpen |-> InvalidActiveId]

\* ShareMemBucket::reset, which also leaves the bucket in state 0 (free).
ResetBucket ==
  [type |-> "free", evicting |-> FALSE, deleted |-> FALSE, loading |-> FALSE,
   file |-> NoFile, blk |-> InvalidBlockId, by |-> InvalidActiveId, infos |-> NoInfos]

\* ShareMemActiveStatus::reset
ResetActiveStatus ==
  [used |-> FALSE, file |-> NoFile, evictFile |-> NoFile, blk |-> InvalidBlockId,
   loading |-> FALSE, stolen |-> FALSE, destroy |-> FALSE]

\* The segment as the constructor builds it when the segment is new.
ResetSegment ==
  [num |-> [k \in Counters |-> IF k = "free" THEN NumBuckets ELSE 0],
   bkt |-> [b \in Buckets |-> ResetBucket],
   act |-> [i \in ActiveIds |-> ResetActiveStatus],
   ok |-> TRUE]

\* An operation throws without having written anything (more).
Throw(s) == [s EXCEPT !.ok = FALSE]

-----------------------------------------------------------------------------
(* The list of handles that hold a bucket (markWrite/markRead, unmark...) *)

HasActiveId(infos, id) == \E i \in DOMAIN infos : infos[i] = id
NoActiveReadWrite(infos) == \A i \in DOMAIN infos : infos[i] = InvalidActiveId

FirstWith(infos, id) ==
  CHOOSE i \in DOMAIN infos : infos[i] = id /\ \A j \in DOMAIN infos : infos[j] = id => i <= j

\* markWrite and markRead: the first empty entry; a full list throws.
MarkFull(infos) == ~HasActiveId(infos, InvalidActiveId)
Mark(infos, id) ==
  IF MarkFull(infos) THEN infos
  ELSE [infos EXCEPT ![FirstWith(infos, InvalidActiveId)] = id]

\* unmarkWrite and unmarkRead: the first entry of this handle.
Unmark(infos, id) ==
  IF HasActiveId(infos, id) THEN [infos EXCEPT ![FirstWith(infos, id)] = InvalidActiveId]
  ELSE infos

-----------------------------------------------------------------------------
(* Registration of handles *)

\* Mutant of FreeSlot: the slot after the free one.
FreeSlotOffByOne(s) == 1 + Cardinality({i \in ActiveIds : s.act[i].used})

\* The first slot whose pid is InvalidPid, or InvalidActiveId when all are taken.
FreeSlot(s) ==
  LET free == {i \in ActiveIds : ~s.act[i].used}
  IN IF free = {} THEN InvalidActiveId ELSE CHOOSE i \in free : \A j \in free : i <= j

\* A delete marks every open handle of the file; a handle opened on a file that is marked
\* is marked itself.  The marking happens even when no slot is left.
RegistFile(s, f, isDelete) ==
  LET mine == FreeSlot(s)
      doomed == isDelete \/ \E i \in ActiveIds : s.act[i].file = f /\ s.act[i].destroy
  IN [s EXCEPT !.act = [i \in ActiveIds |->
        IF i = mine
        THEN [s.act[i] EXCEPT !.used = TRUE, !.file = f, !.blk = InvalidBlockId,
                              !.destroy = @ \/ doomed]
        ELSE IF isDelete /\ s.act[i].file = f THEN [s.act[i] EXCEPT !.destroy = TRUE]
        ELSE s.act[i]]]

\* Mutant of UnregistFile: the slot is given back with its flags still set.
UnregistKeepsFlags(s, id) ==
  [s EXCEPT !.act[id] = [ResetActiveStatus EXCEPT !.destroy = s.act[id].destroy]]

UnregistFile(s, id) ==
  IF id \in ActiveIds THEN [s EXCEPT !.act[id] = ResetActiveStatus] ELSE s

IsFileOpening(s, f) == \E i \in ActiveIds : s.act[i].file = f

-----------------------------------------------------------------------------
(* Buckets 0 -> 1 and 1 -> 0 *)

FreeBuckets(s) == {b \in Buckets : s.bkt[b].type = "free"}

\* The n lowest-numbered members of a set of buckets.
Lowest(S, n) == {b \in S : Cardinality({x \in S : x < b}) < n}

\* The scan stops once its countdown reaches 0: a request for 0 buckets takes every free
\* one.  It throws when the countdown is not 0 at the end of the array.
AcquiredBuckets(s, n) == IF n = 0 THEN FreeBuckets(s) ELSE Lowest(FreeBuckets(s), n)

\* The listings of a set of buckets in the order of the scan (there is one).
InOrder(S) ==
  {q \in [1 .. Cardinality(S) -> S] : \A i, j \in 1 .. Cardinality(S) : i < j => q[i] < q[j]}

\* Mutant of AcquireFreeBucket: the buckets change state but are not marked with the handle.
AcquireUnmarked(s, id, n, f) ==
  LET got == AcquiredBuckets(s, n)
  IN [num |-> Moved(s.num, "free", "active", Cardinality(got)),
      bkt |-> [b \in Buckets |-> IF b \in got
                                THEN [s.bkt[b] EXCEPT !.type = "active", !.file = f]
                                ELSE s.bkt[b]],
      act |-> s.act,
      ok |-> Cardinality(got) = n]

AcquireFreeBucket(s, id, n, f) ==
  LET got == AcquiredBuckets(s, n)
  IN [num |-> Moved(s.num, "free", "active", Cardinality(got)),
      bkt |-> [b \in Buckets |->
                 IF b \in got
                 THEN [s.bkt[b] EXCEPT !.type = "active", !.file = f, !.infos = Mark(@, id)]
                 ELSE s.bkt[b]],
      act |-> s.act,
      ok |-> Cardinality(got) = n]

\* Mutant of ReleaseBuckets: the freed buckets are still counted as active.
ReleaseUncounted(s, list) ==
  [s EXCEPT !.bkt = [b \in Buckets |-> IF \E i \in DOMAIN list : list[i] = b
                                      THEN ResetBucket ELSE s.bkt[b]],
            !.num["free"] = @ + Len(list)]

\* A loop over a list that throws at the first bad bucket has handled the good prefix.  A
\* bucket listed twice is bad the second time.
ReleaseBuckets(s, list) ==
  LET good(i) == s.bkt[list[i]].type = "active" /\ \A j \in 1 .. i - 1 : list[j] # list[i]
      done == {i \in DOMAIN list : \A j \in 1 .. i : good(j)}
      freed == {b \in Buckets : \E i \in done : list[i] = b}
  IN [num |-> Moved(s.num, "active", "free", Cardinality(freed)),
      bkt |-> [b \in Buckets |-> IF b \in freed THEN ResetBucket ELSE s.bkt[b]],
      act |-> s.act,
      ok |-> done = DOMAIN list]

-----------------------------------------------------------------------------
(* Buckets 1 -> 2 and 2 -> 1 by handles of the owning file *)

\* `list' holds [blk, bucket] pairs with distinct buckets.  A bucket becomes used when its
\* last handle leaves it.  A bucket that is active but not held by this handle is relabelled
\* before unmark throws.
Inactivated(s, list, id) ==
  {i \in DOMAIN list : \A j \in 1 .. i : /\ s.bkt[list[j].bucket].type = "active"
                                        /\ HasActiveId(s.bkt[list[j].bucket].infos, id)}

\* Mutant of TurnedToUsed: a bucket becomes used although other handles hold it.
TurnedToUsedAlways(s, list, id) == Inactivated(s, list, id)

TurnedToUsed(s, list, id) ==
  {i \in Inactivated(s, list, id) :
     NoActiveReadWrite(Unmark(s.bkt[list[i].bucket].infos, id))}

InactivateBuckets(s, list, f, id) ==
  LET done == Inactivated(s, list, id)
      touched == done \cup {i \in DOMAIN list : /\ i \notin done
                                                /\ 1 .. i - 1 \subseteq done
                                                /\ s.bkt[list[i].bucket].type = "active"}
      place(b) == CHOOSE i \in touched : list[i].bucket = b
      turned == {b \in Buckets : \E i \in TurnedToUsed(s, list, id) : list[i].bucket = b}
  IN [num |-> Moved(s.num, "active", "used", Cardinality(turned)),
      bkt |-> [b \in Buckets |->
                 IF \E i \in touched : list[i].bucket = b
                 THEN [s.bkt[b] EXCEPT !.file = f, !.blk = list[place(b)].blk,
                         !.infos = Unmark(@, id), !.type = IF b \in turned THEN "used" ELSE @]
                 ELSE s.bkt[b]],
      act |-> s.act,
      ok |-> done = DOMAIN list]

\* Mutant of ActivateRc: the call never says that it made the bucket active.
ActivateRcNever(s, b) == 0

\* 1 when the bucket was used and this call made it active, 0 when it was active already.
ActivateRc(s, b) == IF s.bkt[b].type = "used" THEN 1 ELSE 0

\* Taking a bucket that somebody evicts steals it: the evictor finds the flag in its slot.
\* The bucket's own evicting bit is left as it is.
ActivateBucket(s, f, blk, b, id) ==
  LET bk == s.bkt[b]
      full == MarkFull(bk.infos)
      taken == [bk EXCEPT !.type = "active", !.infos = Mark(@, id)]
      held == [s EXCEPT !.bkt = [s.bkt EXCEPT ![b] = taken]]
      mine == s.act[bk.by].evictFile = bk.file /\ s.act[bk.by].blk = bk.blk
  IN IF bk.file # f \/ bk.blk # blk \/ bk.type = "free" THEN Throw(s)
     ELSE IF full THEN Throw(IF bk.type = "used" THEN held ELSE s)
     ELSE IF bk.type = "active" THEN held
     ELSE IF ~bk.evicting THEN [held EXCEPT !.num = Moved(s.num, "used", "active", 1)]
     ELSE IF mine THEN [held EXCEPT !.num = Moved(s.num, "evicting", "active", 1),
                                    !.act = [s.act EXCEPT ![bk.by].stolen = TRUE]]
     ELSE Throw(held)

\* Mutant of UpdateActiveFileInfo: the block number never reaches the segment.
UpdateNothing(s, b, blk, f) == s

UpdateActiveFileInfo(s, b, blk, f) ==
  IF s.bkt[b].file = f THEN [s EXCEPT !.bkt = [s.bkt EXCEPT ![b].blk = blk]] ELSE Throw(s)

-----------------------------------------------------------------------------
(* Eviction 2 -> 1 (another file) and 2 -> 0 *)

\* Mutant of Evictable: the sweep does not look at the evicting bit.
EvictableAny(s) == {b \in Buckets : s.bkt[b].type = "used"}

\* The buckets the clock sweep can stop at; it throws when there is none.
Evictable(s) == {b \in Buckets : s.bkt[b].type = "used" /\ ~s.bkt[b].evicting}

MarkBucketEvicting(s, b, id) ==
  [num |-> Moved(s.num, "used", "evicting", 1),
   bkt |-> [s.bkt EXCEPT ![b].evicting = TRUE, ![b].by = id],
   act |-> [s.act EXCEPT ![id].evictFile = s.bkt[b].file, ![id].blk = s.bkt[b].blk],
   ok |-> s.ok]

\* 2: stolen back by the owner; 1: deleted meanwhile; 0: evicted.
EvictFinishRc(s, b, id) ==
  IF s.act[id].stolen THEN 2 ELSE IF s.bkt[b].deleted THEN 1 ELSE 0

ClearEvictInfo(s, id) ==
  [s.act EXCEPT ![id].evictFile = NoFile, ![id].blk = InvalidBlockId, ![id].stolen = FALSE]

\* The bucket goes to the state `to' and becomes `bk', unless its owner took it back.
EvictBucketFinish(s, b, id, to, bk) ==
  IF s.act[id].stolen THEN [s EXCEPT !.act = ClearEvictInfo(s, id)]
  ELSE [num |-> Moved(s.num, "evicting", to, 1),
        bkt |-> [s.bkt EXCEPT ![b] = bk],
        act |-> ClearEvictInfo(s, id),
        ok |-> s.ok]

\* Mutant of EvictBucketFinishAndTryAcquire: the evicted bucket is left free.
EvictFinishFrees(s, b, id, f) == EvictBucketFinish(s, b, id, "free", ResetBucket)

EvictBucketFinishAndTryAcquire(s, b, id, f) ==
  EvictBucketFinish(s, b, id, "active",
                    [ResetBucket EXCEPT !.type = "active", !.file = f, !.infos = Mark(@, id)])

EvictBucketFinishAndTryFree(s, b, id) == EvictBucketFinish(s, b, id, "free", ResetBucket)

-----------------------------------------------------------------------------
(* Loading *)

IsBlockLoading(s, f, blk) ==
  \E i \in ActiveIds : s.act[i].loading /\ s.act[i].file = f /\ s.act[i].blk = blk

\* Called only when IsBlockLoading is FALSE; the slot has one block number for all loads.
MarkBucketLoading(s, b, blk, id) ==
  [num |-> Moved(s.num, "active", "loading", 1),
   bkt |-> [s.bkt EXCEPT ![b].blk = blk, ![b].loading = TRUE, ![b].by = id],
   act |-> [s.act EXCEPT ![id].blk = blk, ![id].loading = TRUE],
   ok |-> s.ok]

\* The slot of a handle whose load has ended.
LoadEnded(s, id) == [s.act EXCEPT ![id].blk = InvalidBlockId, ![id].loading = FALSE]

\* Mutant of MarkLoadFinish: the bucket still says loading.
LoadFinishKeepsBit(s, b, id) ==
  [s EXCEPT !.num = Moved(@, "loading", "active", 1), !.act = LoadEnded(s, id)]

MarkLoadFinish(s, b, id) ==
  [num |-> Moved(s.num, "loading", "active", 1),
   bkt |-> [s.bkt EXCEPT ![b].loading = FALSE],
   act |-> LoadEnded(s, id),
   ok |-> s.ok]

-----------------------------------------------------------------------------
(* Deletion 2 -> 0 *)

\* For the local blocks of `blocks', a file's block array.  The used test comes first, so a
\* bucket in state 2 is freed even while it is evicted.
DeleteBlocks(s, blocks, f) ==
  LET frees(b) == s.bkt[b].type = "used" /\ s.bkt[b].file = f
      marks(b) == ~frees(b) /\ s.bkt[b].evicting /\ s.bkt[b].file = f
      locals == {i \in DOMAIN blocks : blocks[i].local}
      good(i) == \/ marks(blocks[i].bucket)
                 \/ /\ frees(blocks[i].bucket)
                    /\ \A j \in locals : j < i => blocks[j].bucket # blocks[i].bucket
      done == {i \in locals : \A j \in locals : j <= i => good(j)}
      freed == {b \in Buckets : frees(b) /\ \E i \in done : blocks[i].bucket = b}
      marked == {b \in Buckets : marks(b) /\ \E i \in done : blocks[i].bucket = b}
  IN [num |-> Moved(s.num, "used", "free", Cardinality(freed)),
      bkt |-> [b \in Buckets |->
                 IF b \in freed THEN ResetBucket
                 ELSE IF b \in marked THEN [s.bkt[b] EXCEPT !.deleted = TRUE]
                 ELSE s.bkt[b]],
      act |-> s.act,
      ok |-> done = locals]

-----------------------------------------------------------------------------
(* What the statistics should say *)

ActiveBuckets(s) == {b \in Buckets : s.bkt[b].type = "active" /\ ~s.bkt[b].loading}
LoadingBuckets(s) == {b \in Buckets : s.bkt[b].type = "active" /\ s.bkt[b].loading}
EvictingBuckets(s) == {b \in Buckets : s.bkt[b].type = "used" /\ s.bkt[b].evicting}

StatisticsExact(s) ==
  /\ s.num["free"] = Cardinality(FreeBuckets(s))
  /\ s.num["active"] = Cardinality(ActiveBuckets(s))
  /\ s.num["loading"] = Cardinality(LoadingBuckets(s))
  /\ s.num["used"] = Cardinality(Evictable(s))
  /\ s.num["evicting"] = Cardinality(EvictingBuckets(s))

CounterSum(num) ==
  num["free"] + num["active"] + num["used"] + num["evicting"] + num["loading"]
StatisticsSum(s) == CounterSum(s.num)
=============================================================================
