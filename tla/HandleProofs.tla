---------------------------- MODULE HandleProofs -----------------------------
(* What the operators of FileActiveStatus on one handle and on the manifests return: lists,  *)
(* records and handles that are well formed when their arguments are.                       *)
EXTENDS FileActiveStatus, SharedMemoryProofs

GoodHandle(me) == me \in Handle /\ Prepared(me)
GoodFiles == [Files -> File]

\* A handle in the hands of its thread, before the thread settles where to go on.
Usable(me) == me \in Handle /\ IsFiniteSet(me.loading) /\ me.file \in Files

-----------------------------------------------------------------------------
(* Sequences *)

\* A part of a list, two lists in a row, a longer list and the rest of a list are lists.
LEMMA SubSeqTyped ==
  ASSUME NEW S, NEW s \in Seq(S), NEW m \in 1 .. Len(s) + 1, NEW n \in m - 1 .. Len(s)
  PROVE  SubSeq(s, m, n) \in Seq(S)
OBVIOUS

LEMMA ConcatTyped ==
  ASSUME NEW S, NEW s \in Seq(S), NEW t \in Seq(S) PROVE s \o t \in Seq(S)
OBVIOUS

LEMMA AppendTyped ==
  ASSUME NEW S, NEW s \in Seq(S), NEW e \in S PROVE Append(s, e) \in Seq(S)
OBVIOUS

LEMMA HeadTailTyped ==
  ASSUME NEW S, NEW s \in Seq(S), s # <<>> PROVE Head(s) \in S /\ Tail(s) \in Seq(S)
OBVIOUS

\* Taking one entry out of a list leaves a list over the same set.
LEMMA WithoutTyped ==
  ASSUME NEW S, NEW s \in Seq(S), NEW i \in 1 .. Len(s) PROVE Without(s, i) \in Seq(S)
<1>1. Len(s) \in Nat
  OBVIOUS
<1>2. SubSeq(s, 1, i - 1) \in Seq(S) /\ SubSeq(s, i + 1, Len(s)) \in Seq(S)
  BY <1>1, SubSeqTyped
<1> QED
  BY <1>2, ConcatTyped DEF Without

\* LRUCache::put keeps a list of block numbers.
LEMMA LruPutTyped ==
  ASSUME NEW lru \in Seq(Nat), NEW blk \in Nat PROVE LruPut(lru, blk) \in Seq(Nat)
<1> DEFINE at == CHOOSE i \in DOMAIN lru : lru[i] = blk
           rest == IF blk \in Range(lru) THEN Without(lru, at) ELSE lru
<1>1. rest \in Seq(Nat)
  <2>1. CASE blk \in Range(lru)
    <3>1. at \in DOMAIN lru
      BY <2>1 DEF Range
    <3>2. at \in 1 .. Len(lru)
      BY <3>1
    <3> HIDE DEF at
    <3> QED
      BY <2>1, <3>2, WithoutTyped
  <2> QED
    BY <2>1
<1> HIDE DEF rest
<1>2. <<blk>> \o rest \in Seq(Nat) /\ Len(<<blk>> \o rest) = Len(rest) + 1 /\ Len(rest) \in Nat
  BY <1>1
<1>3. Least(Len(rest) + 1, Quota) \in 0 .. Len(<<blk>> \o rest)
  BY <1>2, QuotaAssumption DEF Least
<1>4. SubSeq(<<blk>> \o rest, 1, Least(Len(rest) + 1, Quota)) \in Seq(Nat)
  BY <1>2, <1>3, SubSeqTyped
<1> QED
  BY <1>4, Zenon DEF LruPut, rest

\* LRUCache::removeNumOfKeys: what stays and what is removed.
LEMMA LruRemoveTyped ==
  ASSUME NEW lru \in Seq(Nat), NEW n \in Nat
  PROVE  LruKept(lru, n) \in Seq(Nat) /\ LruRemoved(lru, n) \in Seq(Nat)
<1> DEFINE k == Least(n, Len(lru))
<1>1. k \in 0 .. Len(lru) /\ Len(lru) \in Nat
  BY DEF Least
<1> HIDE DEF k
<1>2. SubSeq(lru, 1, Len(lru) - k) \in Seq(Nat)
  BY <1>1, SubSeqTyped
<1>3. [i \in 1 .. k |-> lru[Len(lru) + 1 - i]] \in Seq(Nat)
  BY <1>1
<1> QED
  BY <1>2, <1>3 DEF LruKept, LruRemoved, k

\* The buckets acquireFreeBucket returns are a list of buckets.
LEMMA InOrderTyped ==
  ASSUME NEW S \in SUBSET Buckets, NEW got \in InOrder(S) PROVE got \in Seq(Buckets)
<1>1. Cardinality(S) \in Nat
  BY BucketsFinite
<1> QED
  BY <1>1 DEF InOrder

\* The pairs handed to inactivateBuckets carry block numbers.
LEMMA PairsTyped ==
  ASSUME NEW me, NEW blks \in Seq(Nat)
  PROVE  \A i \in DOMAIN Pairs(me, blks) : Pairs(me, blks)[i].blk \in Int
BY DEF Pairs

\* A sequence in which some places are overwritten.
LEMMA OverwriteTyped ==
  ASSUME NEW S, NEW s \in Seq(S), NEW i, NEW v \in S PROVE [s EXCEPT ![i] = v] \in Seq(S)
<1>1. CASE i \in 1 .. Len(s)
  <2>1. [s EXCEPT ![i] = v] = [j \in 1 .. Len(s) |-> IF j = i THEN v ELSE s[j]]
    BY <1>1
  <2>2. \A j \in 1 .. Len(s) : (IF j = i THEN v ELSE s[j]) \in S
    OBVIOUS
  <2>3. [j \in 1 .. Len(s) |-> IF j = i THEN v ELSE s[j]] \in Seq(S)
    BY <2>2
  <2> QED
    BY <2>1, <2>3
<1>2. CASE i \notin 1 .. Len(s)
  <2>1. [s EXCEPT ![i] = v] = s
    BY <1>2
  <2> QED
    BY <2>1
<1> QED
  BY <1>1, <1>2

-----------------------------------------------------------------------------
(* Manifests *)

\* A new state of one block array and of one list of records not yet replayed.
LEMMA FileUpdated ==
  ASSUME NEW files \in GoodFiles, NEW f, NEW blocks, NEW unseen,
         f \in Files => blocks \in Seq(Block), f \in Files => unseen \in Seq(EvictRecord)
  PROVE  [files EXCEPT ![f].unseen = unseen, ![f].blocks = blocks] \in GoodFiles
<1>1. CASE f \in Files
  <2>1. ASSUME NEW x \in File PROVE [x EXCEPT !.unseen = unseen, !.blocks = blocks] \in File
    BY <1>1 DEF File
  <2> QED
    BY <1>1, <2>1 DEF GoodFiles
<1>2. CASE f \notin Files
  BY <1>2 DEF GoodFiles
<1> QED
  BY <1>1, <1>2

\* Replacing one file's block array by another.
LEMMA BlocksUpdated ==
  ASSUME NEW files \in GoodFiles, NEW f, NEW blocks, f \in Files => blocks \in Seq(Block)
  PROVE  [files EXCEPT ![f].blocks = blocks] \in GoodFiles
<1>1. CASE f \in Files
  <2>1. ASSUME NEW x \in File PROVE [x EXCEPT !.blocks = blocks] \in File
    BY <1>1 DEF File
  <2> QED
    BY <1>1, <2>1 DEF GoodFiles
<1>2. CASE f \notin Files
  BY <1>2 DEF GoodFiles
<1> QED
  BY <1>1, <1>2

\* A handle that has replayed its manifest has no unseen records.
LEMMA Replayed ==
  ASSUME NEW files \in GoodFiles, NEW f
  PROVE  /\ [files EXCEPT ![f].unseen = <<>>] \in GoodFiles
         /\ [files EXCEPT ![f].exists = TRUE, ![f].unseen = <<>>] \in GoodFiles
<1>1. ASSUME NEW x \in File, NEW none \in Seq(EvictRecord)
      PROVE  [x EXCEPT !.unseen = none] \in File /\ [x EXCEPT !.exists = TRUE, !.unseen = none] \in File
  BY DEF File
<1>2. <<>> \in Seq(EvictRecord)
  OBVIOUS
<1> QED
  BY <1>1, <1>2 DEF GoodFiles

\* logInactivateBucket leaves a well-formed manifest.
LEMMA LogInactivateTyped ==
  ASSUME TypeOK, NEW s, NEW me, NEW list PROVE LogInactivate(s, me, list) \in GoodFiles
<1> DEFINE used == {list[i].blk : i \in TurnedToUsed(s, list, me.id)}
           old == file[me.file].blocks
           cell(i) == IF i \in used THEN [old[i] EXCEPT !.state = "used"] ELSE old[i]
           new == [i \in DOMAIN old |-> cell(i)]
<1>1. file \in GoodFiles
  BY DEF TypeOK, GoodFiles
<1>2. ASSUME me.file \in Files PROVE new \in Seq(Block)
  <2>1. old \in Seq(Block)
    BY <1>1, <1>2 DEF GoodFiles, File
  <2> HIDE DEF old, used
  <2>2. ASSUME NEW i \in DOMAIN old PROVE cell(i) \in Block
    <3>1. old[i] \in Block
      BY <2>1
    <3>2. [old[i] EXCEPT !.state = "used"] \in Block
      BY <3>1 DEF Block, EvictRecord
    <3> QED
      BY <3>1, <3>2
  <2>3. DOMAIN old = 1 .. Len(old) /\ Len(old) \in Nat
    BY <2>1
  <2> HIDE DEF cell
  <2> QED
    BY <2>2, <2>3
<1>3. LogInactivate(s, me, list) = [file EXCEPT ![me.file].blocks = new]
  <2>1. LogInactivate(s, me, list) =
          [file EXCEPT ![me.file].blocks =
             [i \in DOMAIN @ |-> IF i \in used THEN [@[i] EXCEPT !.state = "used"] ELSE @[i]]]
    BY Zenon DEF LogInactivate
  <2> QED
    BY <2>1, Zenon
<1> HIDE DEF new
<1>4. [file EXCEPT ![me.file].blocks = new] \in GoodFiles
  BY <1>1, <1>2, BlocksUpdated
<1> QED
  BY <1>3, <1>4

\* logEvictBlock leaves a well-formed manifest, its own or another file's.
LEMMA LogEvictTyped ==
  ASSUME TypeOK, NEW v \in Victim, v.bucket \in Buckets PROVE LogEvict(v) \in GoodFiles
<1> DEFINE old == file[v.file].blocks
           late == file[v.file].unseen
           out == [bucket |-> InvalidBucketId, local |-> FALSE, state |-> "free"]
           blocks == [i \in DOMAIN old |-> IF i = v.blk THEN out ELSE old[i]]
           unseen == IF IsFileOpening(shm, v.file)
                     THEN Append(late, [blk |-> v.blk, bucket |-> v.bucket]) ELSE late
<1>1. file \in GoodFiles
  BY DEF TypeOK, GoodFiles
<1>2. LogEvict(v) = [file EXCEPT ![v.file].unseen = unseen, ![v.file].blocks = blocks]
  BY Zenon DEF LogEvict
<1>3. ASSUME v.file \in Files
      PROVE  blocks \in Seq(Block) /\ unseen \in Seq(EvictRecord)
  <2>1. old \in Seq(Block) /\ late \in Seq(EvictRecord)
    BY <1>1, <1>3 DEF GoodFiles, File
  <2>2. out \in Block
    BY DEF Block
  <2> HIDE DEF old, late, out
  <2>3. DOMAIN old = 1 .. Len(old) /\ Len(old) \in Nat
    BY <2>1
  <2>4. blocks \in Seq(Block)
    BY <2>1, <2>2, <2>3
  <2>5. [blk |-> v.blk, bucket |-> v.bucket] \in EvictRecord
    BY DEF Victim, EvictRecord
  <2>6. unseen \in Seq(EvictRecord)
    BY <2>1, <2>5
  <2> QED
    BY <2>4, <2>6
<1> HIDE DEF blocks, unseen
<1>4. [file EXCEPT ![v.file].unseen = unseen, ![v.file].blocks = blocks] \in GoodFiles
  BY <1>1, <1>3, FileUpdated
<1> QED
  BY <1>2, <1>4

\* logLoadBlock leaves a well-formed manifest, also when it overwrites a record.
LEMMA LogLoadTyped ==
  ASSUME TypeOK, NEW f, NEW l \in Load PROVE LogLoad(f, l) \in GoodFiles
<1> DEFINE late == file[f].unseen
           loaded == [file[f].blocks EXCEPT
                        ![l.blk] = [bucket |-> l.bucket, local |-> TRUE, state |-> "active"]]
           unseen == IF late = <<>> THEN late ELSE Tail(late)
           blocks == IF late = <<>> THEN loaded
                     ELSE [loaded EXCEPT ![Head(late).blk] =
                             [bucket |-> Head(late).bucket, local |-> TRUE, state |-> "used"]]
<1>1. file \in GoodFiles
  BY DEF TypeOK, GoodFiles
<1>2. LogLoad(f, l) = [file EXCEPT ![f].unseen = unseen, ![f].blocks = blocks]
  BY Zenon DEF LogLoad
<1>3. ASSUME f \in Files
      PROVE  blocks \in Seq(Block) /\ unseen \in Seq(EvictRecord)
  <2>1. file[f].blocks \in Seq(Block) /\ late \in Seq(EvictRecord)
    BY <1>1, <1>3 DEF GoodFiles, File
  <2> HIDE DEF late
  <2>2. [bucket |-> l.bucket, local |-> TRUE, state |-> "active"] \in Block
    BY DEF Block, Load
  <2>3. loaded \in Seq(Block)
    BY <2>1, <2>2, OverwriteTyped
  <2> HIDE DEF loaded
  <2>4. CASE late = <<>>
    BY <2>1, <2>3, <2>4
  <2>5. CASE late # <<>>
    <3>1. Head(late) \in EvictRecord /\ Tail(late) \in Seq(EvictRecord)
      BY <2>1, <2>5
    <3>2. [bucket |-> Head(late).bucket, local |-> TRUE, state |-> "used"] \in Block
      BY <3>1 DEF Block, EvictRecord
    <3>3. blocks \in Seq(Block)
      BY <2>3, <2>5, <3>2, OverwriteTyped
    <3> QED
      BY <2>5, <3>1, <3>3
  <2> QED
    BY <2>4, <2>5
<1> HIDE DEF blocks, unseen
<1>4. [file EXCEPT ![f].unseen = unseen, ![f].blocks = blocks] \in GoodFiles
  BY <1>1, <1>3, FileUpdated
<1> QED
  BY <1>2, <1>4

-----------------------------------------------------------------------------
(* Handles *)

\* The types of the fields of a well-formed handle.
LEMMA HandleFields ==
  ASSUME NEW me, GoodHandle(me)
  PROVE  /\ me.lru \in Seq(Nat) /\ me.pre \in Seq(Buckets) /\ me.loading \in SUBSET Load
         /\ me.cur \in Nat /\ me.ctr \in Nat /\ me.need \in Int /\ me.victim \in Victim
         /\ me.id \in AnyId /\ me.file \in AnyFile /\ me.purge \in SUBSET Nat
         /\ me.pc \in Locked \cup {"none", "idle", "wait", "io", "purge", "halfclosed"}
         /\ me.kind \in {"write", "read", "delete"} /\ me.retry \in BOOLEAN
BY DEF GoodHandle, Handle, AnyId, AnyFile

\* The handle of an open file can be used by its thread.
LEMMA GoodIsUsable == ASSUME NEW me, GoodHandle(me), me.file \in Files PROVE Usable(me)
BY DEF GoodHandle, Prepared, Usable

\* BlockInfo after reset().
LEMMA NoVictimTyped == NoVictim \in Victim
<1>1. InvalidBlockId \in Int
  BY DEF InvalidBlockId
<1> QED
  BY <1>1 DEF NoVictim, Victim

\* The state before open and after close.
LEMMA ClosedHandleGood == GoodHandle(ClosedHandle)
<1>1. <<>> \in Seq(Nat) /\ <<>> \in Seq(Buckets) /\ InvalidActiveId \in AnyId
  BY DEF AnyId
<1>2. ClosedHandle \in Handle
  BY <1>1, NoVictimTyped DEF ClosedHandle, Handle, AnyId, Locked
<1>3. Prepared(ClosedHandle)
  BY FS_EmptySet DEF Prepared, ClosedHandle
<1> QED
  BY <1>2, <1>3 DEF GoodHandle

\* The handle that an exception leaves behind.
LEMMA FailedGood == ASSUME NEW me, Usable(me) PROVE GoodHandle(Failed(me))
<1>1. ASSUME NEW v \in Victim, NEW z \in Nat, NEW n \in Int
      PROVE  [me EXCEPT !.pc = "failed", !.cur = z, !.ctr = z, !.retry = FALSE, !.need = n,
                        !.victim = v] \in Handle
  BY DEF Usable, Handle, Locked
<1>2. Prepared(Failed(me))
  BY DEF Usable, Failed, Handle, Prepared
<1>3. Failed(me) \in Handle
  <2>1. 0 \in Nat /\ 0 \in Int
    OBVIOUS
  <2> QED
    BY <1>1, <2>1, NoVictimTyped, Zenon DEF Failed
<1> QED
  BY <1>2, <1>3 DEF GoodHandle

\* The handle when acquireNewBlocks returns: there is a bucket, or it throws.
LEMMA AcquiredGood == ASSUME NEW me, Usable(me) PROVE GoodHandle(Acquired(me))
<1>1. CASE me.pre = <<>>
  BY <1>1, FailedGood DEF Acquired
<1>2. CASE me.pre # <<>>
  <2>1. ASSUME NEW p \in {"extend", "activate"}, NEW v \in Victim, NEW n \in Int
        PROVE  GoodHandle([me EXCEPT !.victim = v, !.need = n, !.pc = p])
    BY <1>2 DEF Usable, GoodHandle, Handle, Prepared, Locked
  <2>2. 0 \in Int
    OBVIOUS
  <2>3. (IF me.cur > Len(BlocksOf(me)) THEN "extend" ELSE "activate") \in {"extend", "activate"}
    OBVIOUS
  <2> QED
    BY <1>2, <2>1, <2>2, <2>3, NoVictimTyped, Zenon DEF Acquired
<1> QED
  BY <1>1, <1>2

\* A handle whose thread goes on to the next block, or has all it wanted.
LEMMA MovedOn ==
  ASSUME NEW me, Usable(me), NEW k \in Nat
  PROVE  /\ GoodHandle([me EXCEPT !.ctr = k, !.pc = IF me.pre = <<>> THEN "acquire" ELSE "activate"])
         /\ \A p \in {"io", "wait"} : GoodHandle([me EXCEPT !.ctr = k, !.pc = p])
<1>1. ASSUME NEW p \in {"io", "wait", "acquire"} PROVE GoodHandle([me EXCEPT !.ctr = k, !.pc = p])
  BY DEF Usable, GoodHandle, Handle, Prepared, Locked
<1>2. ASSUME me.pre # <<>> PROVE GoodHandle([me EXCEPT !.ctr = k, !.pc = "activate"])
  BY <1>2 DEF Usable, GoodHandle, Handle, Prepared, Locked
<1> QED
  BY <1>1, <1>2

\* The handle wherever the pre-activation loop of adjustActiveBlock goes next.
LEMMA SettleGood ==
  ASSUME NEW me, Usable(me), NEW from \in Nat
  PROVE  GoodHandle(Settle(me, from))
<1> DEFINE todo == {k \in from .. Least(Quota, PreActivate) - 1 :
                     /\ me.cur + k <= Len(BlocksOf(me))
                     /\ me.cur + k \notin Range(me.lru)
                     /\ me.cur + k \notin LoadingBlks(me)}
<1>1. todo \in SUBSET Nat
  BY QuotaAssumption, PreAssumption DEF Least
<1>2. ASSUME todo # {} PROVE Min(todo) \in Nat
  <2>1. \E x \in todo : \A y \in todo : x <= y
    BY <1>1, <1>2, LeastExists
  <2> HIDE DEF todo
  <2>2. Min(todo) \in todo
    BY <2>1 DEF Min
  <2> QED
    BY <1>1, <2>2
<1>3. Settle(me, from) =
        IF todo # {}
        THEN [me EXCEPT !.ctr = Min(todo), !.pc = IF me.pre = <<>> THEN "acquire" ELSE "activate"]
        ELSE [me EXCEPT !.ctr = 0, !.pc = IF me.cur \in Range(me.lru) THEN "io" ELSE "wait"]
  BY Zenon DEF Settle
<1> HIDE DEF todo
<1>4. CASE todo # {}
  <2>1. GoodHandle([me EXCEPT !.ctr = Min(todo),
                              !.pc = IF me.pre = <<>> THEN "acquire" ELSE "activate"])
    BY <1>2, <1>4, MovedOn
  <2> QED
    BY <1>3, <1>4, <2>1
<1>5. CASE todo = {}
  <2>1. \A p \in {"io", "wait"} : GoodHandle([me EXCEPT !.ctr = 0, !.pc = p])
    BY MovedOn
  <2> QED
    BY <1>3, <1>5, <2>1
<1> QED
  BY <1>4, <1>5

\* The handle when activateBlock returns to either of its callers.
LEMMA ContinueGood ==
  ASSUME NEW me, Usable(me) PROVE GoodHandle(Continue(me))
<1>1. CASE me.retry
  <2>1. ASSUME NEW p \in {"io", "wait"} PROVE GoodHandle([me EXCEPT !.retry = FALSE, !.pc = p])
    BY DEF Usable, GoodHandle, Handle, Prepared, Locked
  <2> QED
    BY <1>1, <2>1 DEF Continue
<1>2. CASE ~me.retry
  <2>1. me.ctr + 1 \in Nat
    BY DEF Usable, Handle
  <2> QED
    BY <1>2, <2>1, SettleGood DEF Continue
<1> QED
  BY <1>1, <1>2

\* A handle that is in use has a file.
LEMMA OpenedFile ==
  ASSUME NEW me, GoodHandle(me), me.pc \notin {"none", "halfclosed"} PROVE me.file \in Files
BY DEF GoodHandle, Prepared

\* The handle after a transfer.
LEMMA IdleGood == ASSUME NEW me, GoodHandle(me), me.file \in Files PROVE GoodHandle(Idle(me))
<1>1. ASSUME NEW z \in Nat PROVE GoodHandle([me EXCEPT !.pc = "idle", !.cur = z])
  BY DEF GoodHandle, Handle, Prepared
<1>2. 0 \in Nat
  OBVIOUS
<1> QED
  BY <1>1, <1>2, Zenon DEF Idle

\* One load of a handle goes on.
LEMMA StepGood ==
  ASSUME NEW me, GoodHandle(me), NEW l \in me.loading,
         NEW st \in {"reading", "read", "done", "failed"}
  PROVE  GoodHandle(Step(me, l, st))
<1> DEFINE new == (me.loading \ {l}) \cup {[l EXCEPT !.st = st]}
<1>1. me.loading \in SUBSET Load /\ IsFiniteSet(me.loading)
  BY DEF GoodHandle, Handle, Prepared
<1>2. l \in Load
  BY <1>1
<1>3. [l EXCEPT !.st = st] \in Load
  BY <1>2 DEF Load
<1>4. new \in SUBSET Load
  BY <1>1, <1>3
<1>5. IsFiniteSet(new)
  <2>1. IsFiniteSet(me.loading \ {l})
    BY <1>1, FS_RemoveElement
  <2> QED
    BY <2>1, FS_AddElement
<1> HIDE DEF new
<1>6. GoodHandle([me EXCEPT !.loading = new])
  BY <1>4, <1>5, ZenonT(40) DEF GoodHandle, Handle, Prepared
<1> QED
  BY <1>6, Zenon DEF Step, new

\* getNumAcquiredBuckets is a number: the handle's lists are finite.
LEMMA NumAcquiredTyped == ASSUME NEW me, GoodHandle(me) PROVE NumAcquired(me) \in Nat
<1>1. Cardinality(me.loading) \in Nat
  BY FS_CardinalityType DEF GoodHandle, Prepared
<1>2. Len(me.lru) \in Nat /\ Len(me.pre) \in Nat
  BY HandleFields
<1>3. \A x, y, z \in Nat : x + y + z \in Nat
  OBVIOUS
<1> QED
  BY <1>1, <1>2, <1>3, Zenon DEF NumAcquired

\* The lists and the number a handle may be given.
LEMMA HandleWith ==
  ASSUME NEW me, GoodHandle(me), me.pc \notin {"extend", "activate"}, NEW lru \in Seq(Nat)
  PROVE  /\ GoodHandle([me EXCEPT !.lru = lru]) /\ [me EXCEPT !.lru = lru].file = me.file
         /\ [me EXCEPT !.lru = lru].pre = me.pre /\ [me EXCEPT !.lru = lru].pc = me.pc
<1>1. GoodHandle([me EXCEPT !.lru = lru])
  BY ZenonT(40) DEF GoodHandle, Handle, Prepared
<1> QED
  BY <1>1 DEF GoodHandle, Handle

\* New buckets go to the end of mPreAllocatedBuckets.
LEMMA HandleWithPre ==
  ASSUME NEW me, GoodHandle(me), me.pc \notin {"extend", "activate"},
         NEW pre \in Seq(Buckets), NEW need \in Int
  PROVE  GoodHandle([me EXCEPT !.pre = pre, !.need = need])
BY ZenonT(40) DEF GoodHandle, Handle, Prepared

\* What acquireFreeBucket adds to mPreAllocatedBuckets.
LEMMA MorePre ==
  ASSUME NEW pre \in Seq(Buckets), NEW S \in SUBSET Buckets, NEW got \in InOrder(S)
  PROVE  pre \o got \in Seq(Buckets)
<1>1. got \in Seq(Buckets)
  BY InOrderTyped
<1> QED
  BY <1>1, ConcatTyped

\* acquireFreeBucket returns ids of buckets.
LEMMA AcquiredBucketsTyped == ASSUME NEW s, NEW n PROVE AcquiredBuckets(s, n) \in SUBSET Buckets
BY DEF AcquiredBuckets, FreeBuckets, Lowest

\* The policy asks for no negative number of inactivations.
LEMMA PolicyTyped ==
  ASSUME NEW acq \in Nat, NEW lru \in Nat, NEW free \in Int, NEW used \in Int
  PROVE  AcquirePolicy(acq, lru, free, used).drop \in Nat
         /\ AcquirePolicy(acq, lru, free, used).take \in Int
<1> DEFINE case2a == Least(free + used, Least(Quota - acq, PreAllocate))
           case3a == Least(Least(free, Least(Quota, PreAllocate)), lru)
           drop2a == IF acq + case2a > Quota THEN acq + case2a - Quota ELSE 0
           answer(drop, take) == [ok |-> drop <= lru, drop |-> drop, take |-> take]
<1>1. case2a \in Int /\ case3a \in Int /\ drop2a \in Nat
  BY QuotaAssumption, PreAssumption DEF Least
<1>2. ASSUME free > 0, lru > 0 PROVE case3a \in Nat
  BY <1>2, QuotaAssumption, PreAssumption DEF Least
<1>3. ASSUME NEW drop, NEW take PROVE answer(drop, take).drop = drop /\ answer(drop, take).take = take
  OBVIOUS
<1>4. AcquirePolicy(acq, lru, free, used) =
        IF acq < Quota /\ free + used > 0 THEN answer(drop2a, case2a)
        ELSE IF acq = Quota /\ free > 0 /\ lru > 0 THEN answer(case3a, case3a)
        ELSE IF acq <= Quota THEN answer(1, 1)
        ELSE answer(acq - Quota + 1, 1)
  BY Zenon DEF AcquirePolicy
<1> HIDE DEF case2a, case3a, drop2a, answer
<1> QED
  BY <1>1, <1>2, <1>3, <1>4, QuotaAssumption

\* activateBlock logs the block as active.
LEMMA LogActivateTyped ==
  ASSUME NEW files \in GoodFiles, NEW f \in Files, NEW k
  PROVE  [files EXCEPT ![f].blocks = [@ EXCEPT ![k].state = "active"]] \in GoodFiles
<1> DEFINE old == files[f].blocks
           new == [old EXCEPT ![k].state = "active"]
<1>1. old \in Seq(Block)
  BY DEF GoodFiles, File
<1> HIDE DEF old
<1>2. new \in Seq(Block)
  <2>1. CASE k \in 1 .. Len(old)
    <3>1. old[k] \in Block
      BY <1>1, <2>1
    <3>2. [old[k] EXCEPT !.state = "active"] \in Block
      BY <3>1 DEF Block
    <3>3. [old EXCEPT ![k] = [old[k] EXCEPT !.state = "active"]] \in Seq(Block)
      BY <1>1, <3>2, OverwriteTyped
    <3> QED
      BY <3>3, Zenon
  <2>2. CASE k \notin 1 .. Len(old)
    <3>1. new = old
      BY <1>1, <2>2
    <3> QED
      BY <1>1, <3>1
  <2> QED
    BY <2>1, <2>2
<1> HIDE DEF new
<1>3. [files EXCEPT ![f].blocks = new] \in GoodFiles
  BY <1>2, BlocksUpdated
<1> QED
  BY <1>3, Zenon DEF new, old

-----------------------------------------------------------------------------
(* Sizes: how many buckets a handle holds *)

\* A list with one entry less, the rest of a list, a longer list.
LEMMA SeqSizes ==
  ASSUME NEW S, NEW s \in Seq(S)
  PROVE  /\ Len(s) \in Nat
         /\ s # <<>> => Len(Tail(s)) = Len(s) - 1
         /\ \A x \in S : Len(Append(s, x)) = Len(s) + 1
         /\ \A n \in 0 .. Len(s) : Len(SubSeq(s, 1, n)) = n
         /\ \A t \in Seq(S) : Len(s \o t) = Len(s) + Len(t)
OBVIOUS

\* LRUCache::put adds at most one entry.
LEMMA LruPutSize ==
  ASSUME NEW lru \in Seq(Nat), NEW blk \in Nat PROVE Len(LruPut(lru, blk)) <= Len(lru) + 1
<1> DEFINE at == CHOOSE i \in DOMAIN lru : lru[i] = blk
           rest == IF blk \in Range(lru) THEN Without(lru, at) ELSE lru
<1>1. rest \in Seq(Nat) /\ Len(rest) <= Len(lru)
  <2>1. CASE blk \in Range(lru)
    <3>1. at \in 1 .. Len(lru)
      BY <2>1 DEF Range
    <3> HIDE DEF at
    <3>2. Len(Without(lru, at)) = Len(lru) - 1
      <4> DEFINE front == SubSeq(lru, 1, at - 1)
                 back == SubSeq(lru, at + 1, Len(lru))
      <4>1. Len(front) = at - 1 /\ Len(back) = Len(lru) - at
        BY <3>1
      <4>2. front \in Seq(Nat) /\ back \in Seq(Nat)
        BY <3>1, SubSeqTyped
      <4>3. Without(lru, at) = front \o back
        BY DEF Without
      <4> HIDE DEF front, back
      <4>4. Len(front \o back) = Len(front) + Len(back)
        BY <4>2
      <4> QED
        BY <3>1, <4>1, <4>3, <4>4
    <3> QED
      BY <2>1, <3>1, <3>2, WithoutTyped
  <2> QED
    BY <2>1
<1> HIDE DEF rest
<1>2. <<blk>> \o rest \in Seq(Nat) /\ Len(<<blk>> \o rest) = Len(rest) + 1 /\ Len(rest) \in Nat
  BY <1>1
<1>3. Least(Len(rest) + 1, Quota) \in 0 .. Len(rest) + 1
  BY <1>2, QuotaAssumption DEF Least
<1>4. Len(SubSeq(<<blk>> \o rest, 1, Least(Len(rest) + 1, Quota))) = Least(Len(rest) + 1, Quota)
  BY <1>2, <1>3, SeqSizes
<1>5. LruPut(lru, blk) = SubSeq(<<blk>> \o rest, 1, Least(Len(rest) + 1, Quota))
  BY Zenon DEF LruPut, rest
<1> QED
  BY <1>1, <1>2, <1>3, <1>4, <1>5

\* LRUCache::removeNumOfKeys leaves what it does not remove.
LEMMA LruKeptSize ==
  ASSUME NEW lru \in Seq(Nat), NEW n \in 0 .. Len(lru) PROVE Len(LruKept(lru, n)) = Len(lru) - n
<1>1. Least(n, Len(lru)) = n /\ Len(lru) - n \in 0 .. Len(lru)
  BY DEF Least
<1> QED
  BY <1>1, SeqSizes DEF LruKept

\* mLoadingBuckets with one load more, one less, one replaced.
LEMMA LoadsSizes ==
  ASSUME NEW L, IsFiniteSet(L)
  PROVE  /\ Cardinality(L) \in Nat
         /\ \A k : Cardinality(L \cup {k}) \in Nat /\ Cardinality(L \cup {k}) <= Cardinality(L) + 1
         /\ \A l \in L : Cardinality(L \ {l}) = Cardinality(L) - 1
         /\ \A l \in L : \A k : /\ Cardinality((L \ {l}) \cup {k}) \in Nat
                                 /\ Cardinality((L \ {l}) \cup {k}) <= Cardinality(L)
<1>1. Cardinality(L) \in Nat
  BY FS_CardinalityType
<1>2. ASSUME NEW k, NEW M, IsFiniteSet(M)
      PROVE  /\ Cardinality(M \cup {k}) \in Nat
             /\ Cardinality(M \cup {k}) <= Cardinality(M) + 1
  <2>1. Cardinality(M) \in Nat
    BY <1>2, FS_CardinalityType
  <2> QED
    BY <1>2, <2>1, FS_AddElement
<1>3. ASSUME NEW l \in L PROVE IsFiniteSet(L \ {l}) /\ Cardinality(L \ {l}) = Cardinality(L) - 1
  BY FS_RemoveElement
<1>4. ASSUME NEW l \in L, NEW k
      PROVE  /\ Cardinality((L \ {l}) \cup {k}) \in Nat
             /\ Cardinality((L \ {l}) \cup {k}) <= Cardinality(L)
  <2>1. Cardinality((L \ {l}) \cup {k}) \in Nat /\ Cardinality((L \ {l}) \cup {k}) <= Cardinality(L \ {l}) + 1
    BY <1>2, <1>3
  <2> QED
    <3>1. Cardinality(L \ {l}) + 1 = Cardinality(L)
      BY <1>1, <1>3
    <3> QED
      BY <2>1, <3>1
<1> QED
  BY <1>1, <1>2, <1>3, <1>4

\* acquireFreeBucket returns as many buckets as it took.
LEMMA InOrderSize ==
  ASSUME NEW S \in SUBSET Buckets, NEW got \in InOrder(S) PROVE Len(got) = Cardinality(S)
<1>1. Cardinality(S) \in Nat
  BY BucketsFinite
<1> QED
  BY <1>1 DEF InOrder

\* What acquireNewBlocks gives up and asks for keeps a handle within its quota; it asks for
\* one bucket at least, and what it gives up it has when the policy does not throw.
LEMMA PolicyWithinQuota ==
  ASSUME NEW acq \in Nat, NEW lru \in Nat, acq <= Quota, NEW free \in Int, NEW used \in Int
  PROVE  LET p == AcquirePolicy(acq, lru, free, used)
         IN acq - p.drop + p.take <= Quota /\ p.take >= 1 /\ (p.ok => p.drop \in 0 .. lru)
<1> DEFINE case2a == Least(free + used, Least(Quota - acq, PreAllocate))
           case3a == Least(Least(free, Least(Quota, PreAllocate)), lru)
           drop2a == IF acq + case2a > Quota THEN acq + case2a - Quota ELSE 0
           answer(drop, take) == [ok |-> drop <= lru, drop |-> drop, take |-> take]
           p == AcquirePolicy(acq, lru, free, used)
<1>1. ASSUME acq < Quota, free + used > 0
      PROVE  case2a \in Nat /\ case2a >= 1 /\ drop2a = 0 /\ acq + case2a <= Quota
  BY <1>1, QuotaAssumption, PreAssumption DEF Least
<1>2. ASSUME free > 0, lru > 0 PROVE case3a \in Nat /\ case3a >= 1
  BY <1>2, QuotaAssumption, PreAssumption DEF Least
<1>3. ASSUME NEW drop, NEW take
      PROVE  /\ answer(drop, take).drop = drop /\ answer(drop, take).take = take
             /\ answer(drop, take).ok => drop <= lru
  OBVIOUS
<1>4. \/ acq < Quota /\ free + used > 0 /\ p = answer(drop2a, case2a)
      \/ free > 0 /\ lru > 0 /\ p = answer(case3a, case3a)
      \/ p = answer(1, 1)
  <2>1. p = IF acq < Quota /\ free + used > 0 THEN answer(drop2a, case2a)
            ELSE IF acq = Quota /\ free > 0 /\ lru > 0 THEN answer(case3a, case3a)
            ELSE IF acq <= Quota THEN answer(1, 1)
            ELSE answer(acq - Quota + 1, 1)
    BY Zenon DEF AcquirePolicy
  <2> HIDE DEF p, answer, case2a, case3a, drop2a
  <2> QED
    BY <2>1, Zenon
<1> HIDE DEF case2a, case3a, drop2a, answer, p
<1>5. acq - p.drop + p.take <= Quota /\ p.take >= 1 /\ (p.ok => p.drop \in 0 .. lru)
  BY <1>1, <1>2, <1>3, <1>4, QuotaAssumption
<1> QED
  BY <1>5 DEF p

\* The thread of x stands elsewhere than in the eviction loop, with the buckets that me has.
Parked(me, x) ==
  /\ x.lru = me.lru /\ x.pre = me.pre /\ x.loading = me.loading /\ x.id = me.id
  /\ x.pc \notin {"evict", "loop"}

\* Returning, failing, waiting and going on to the next block change no list.
LEMMA ParkedHandles ==
  ASSUME NEW me \in Handle
  PROVE  /\ Parked(me, Failed(me)) /\ Parked(me, Acquired(me)) /\ Parked(me, Idle(me))
         /\ Parked(me, Continue(me)) /\ \A from : Parked(me, Settle(me, from))
<1>1. Parked(me, Failed(me))
  BY DEF Parked, Failed, Handle
<1>2. ASSUME NEW p \in {"extend", "activate"}, NEW v, NEW n
      PROVE  Parked(me, [me EXCEPT !.victim = v, !.need = n, !.pc = p])
  BY DEF Parked, Handle
<1>3. Parked(me, Acquired(me))
  BY <1>1, <1>2 DEF Acquired
<1>4. Parked(me, Idle(me))
  BY DEF Parked, Idle, Handle
<1>5. ASSUME NEW k, NEW p \in {"io", "wait", "acquire", "activate"}
      PROVE  /\ Parked(me, [me EXCEPT !.ctr = k, !.pc = p])
             /\ Parked(me, [me EXCEPT !.retry = k, !.pc = p])
  BY DEF Parked, Handle
<1>6. ASSUME NEW from PROVE Parked(me, Settle(me, from))
  BY <1>5 DEF Settle
<1>7. Parked(me, Continue(me))
  BY <1>5, <1>6 DEF Continue
<1> QED
  BY <1>1, <1>3, <1>4, <1>6, <1>7
=============================================================================
