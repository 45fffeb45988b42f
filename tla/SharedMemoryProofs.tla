-------------------------- MODULE SharedMemoryProofs --------------------------
(* What every operation of SharedMemoryContext preserves, for any number of buckets, slots  *)
(* and files, and in any state of the segment, also one that an earlier error has upset:    *)
(* the segment keeps its type, the five bucket counters of the header keep their sum, and   *)
(* the header never counts fewer free buckets than there are.  The second half says what    *)
(* the operations do to each bucket and slot when they succeed.                             *)
EXTENDS SharedMemory, FiniteSetTheorems, TLAPS

\* The header's numFreeBuckets is at least the number of free buckets.
FreeCounted(s) == Cardinality(FreeBuckets(s)) <= s.num["free"]

\* What each operation below is shown to do to a segment.
Keeps(s, t) ==
  t \in Segment /\ StatisticsSum(t) = StatisticsSum(s) /\ (FreeCounted(s) => FreeCounted(t))

\* A set of buckets has a size: the counters move by whole numbers.
LEMMA BucketsFinite == ASSUME NEW S \in SUBSET Buckets PROVE Cardinality(S) \in Nat
<1>1. IsFiniteSet(Buckets)
  BY NumBucketsAssumption, FS_Interval DEF Buckets
<1>2. IsFiniteSet(S)
  BY <1>1, FS_Subset
<1> QED
  BY <1>2, FS_CardinalityType

\* A non-empty set of numbers has a least one.
LEMMA LeastExists ==
  ASSUME NEW S \in SUBSET Nat, S # {} PROVE \E x \in S : \A y \in S : x <= y
<1> DEFINE Lt == {p \in Nat \X Nat : p[1] < p[2]}
<1>1. OpToRel(<, Nat) = Lt
  BY Zenon DEF OpToRel
<1>2. IsWellFoundedOn(Lt, Nat)
  BY <1>1, NatLessThanWellFounded
<1> HIDE DEF Lt
<1>3. PICK x \in S : \A y \in S : ~(<<y, x>> \in Lt)
  BY <1>2, WFMin
<1>4. ASSUME NEW y \in S PROVE x <= y
  <2>1. ~(<<y, x>> \in Lt)
    BY <1>3
  <2>2. x \in Nat /\ y \in Nat
    OBVIOUS
  <2>3. ~(y < x)
    BY <2>1, <2>2 DEF Lt
  <2> QED
    BY <2>2, <2>3
<1> QED
  BY <1>4

-----------------------------------------------------------------------------

\* The two reset() methods of SharedMemoryObj.h leave well-formed structures.
LEMMA ResetTyped == ResetBucket \in ShareMemBucket /\ ResetActiveStatus \in ShareMemActiveStatus
BY DEF ResetBucket, ShareMemBucket, ActiveInfos, NoInfos, ResetActiveStatus,
       ShareMemActiveStatus, InvalidActiveId, InvalidBlockId

\* markWrite/markRead and unmarkWrite/unmarkRead keep a list of handle ids.
LEMMA MarkTyped ==
  ASSUME NEW infos \in ActiveInfos, NEW id \in ActiveIds \cup {InvalidActiveId}
  PROVE  Mark(infos, id) \in ActiveInfos /\ Unmark(infos, id) \in ActiveInfos
<1>1. \A j : [infos EXCEPT ![j] = id] \in ActiveInfos
  BY DEF ActiveInfos
<1>2. \A j : [infos EXCEPT ![j] = InvalidActiveId] \in ActiveInfos
  BY DEF ActiveInfos
<1> QED
  BY <1>1, <1>2 DEF Mark, Unmark

\* registFile finds a slot or nothing.
LEMMA FreeSlotTyped ==
  ASSUME NEW s PROVE FreeSlot(s) \in ActiveIds \cup {InvalidActiveId}
<1> DEFINE free == {i \in ActiveIds : ~s.act[i].used}
<1>1. CASE free = {}
  BY <1>1 DEF FreeSlot
<1>2. CASE free # {}
  <2>1. free \in SUBSET Nat
    BY MaxConnectionAssumption DEF ActiveIds
  <2>2. \E x \in free : \A y \in free : x <= y
    BY <1>2, <2>1, LeastExists
  <2> QED
    BY <1>2, <2>2 DEF FreeSlot
<1> QED
  BY <1>1, <1>2

\* The counters of a header move in pairs.
LEMMA MovedKeeps ==
  ASSUME NEW num \in ShareMemHeader, NEW from \in Counters, NEW to \in Counters, from # to,
         NEW n \in Int
  PROVE  /\ Moved(num, from, to, n) \in ShareMemHeader
         /\ CounterSum(Moved(num, from, to, n)) = CounterSum(num)
BY DEF Counters, ShareMemHeader, Moved, CounterSum

\* What that does to one counter.
LEMMA MovedFree ==
  ASSUME NEW num \in ShareMemHeader, NEW from \in Counters, NEW to \in Counters, from # to,
         NEW n \in Int
  PROVE  Moved(num, from, to, n)["free"] =
           IF from = "free" THEN num["free"] - n ELSE IF to = "free" THEN num["free"] + n
           ELSE num["free"]
BY DEF Counters, ShareMemHeader, Moved

\* The pieces of a segment.
LEMMA SegmentFields ==
  ASSUME NEW s \in Segment
  PROVE  /\ s.num \in ShareMemHeader /\ s.bkt \in [Buckets -> ShareMemBucket]
         /\ s.act \in [ActiveIds -> ShareMemActiveStatus] /\ s.ok \in BOOLEAN
BY DEF Segment

\* At most the buckets of G are free that were not, and the counter goes up by their number.
LEMMA FreeKept ==
  ASSUME NEW s \in Segment, NEW t \in Segment, NEW G \in SUBSET Buckets,
         FreeBuckets(t) \subseteq FreeBuckets(s) \cup G,
         t.num["free"] = s.num["free"] + Cardinality(G), FreeCounted(s)
  PROVE  FreeCounted(t)
<1> DEFINE S == FreeBuckets(s)
           T == FreeBuckets(t)
<1>1. S \in SUBSET Buckets /\ T \in SUBSET Buckets /\ S \cup G \in SUBSET Buckets
  BY DEF FreeBuckets
<1> HIDE DEF S, T
<1>2. IsFiniteSet(Buckets)
  BY NumBucketsAssumption, FS_Interval DEF Buckets
<1>3. IsFiniteSet(S) /\ IsFiniteSet(G) /\ IsFiniteSet(S \cup G)
  BY <1>1, <1>2, FS_Subset
<1>4. Cardinality(T) <= Cardinality(S \cup G)
  BY <1>3, FS_Subset DEF S, T
<1>5. Cardinality(S \cup G) <= Cardinality(S) + Cardinality(G)
  <2>1. Cardinality(S \cup G) = Cardinality(S) + Cardinality(G) - Cardinality(S \cap G)
    BY <1>3, FS_Union
  <2>2. Cardinality(S \cap G) \in Nat /\ Cardinality(S) \in Nat /\ Cardinality(G) \in Nat
    BY <1>1, BucketsFinite
  <2> QED
    BY <2>1, <2>2
<1>6. /\ Cardinality(S) \in Nat /\ Cardinality(G) \in Nat /\ Cardinality(T) \in Nat
      /\ Cardinality(S \cup G) \in Nat /\ s.num["free"] \in Int
  BY <1>1, BucketsFinite DEF Segment, ShareMemHeader, Counters
<1> QED
  BY <1>4, <1>5, <1>6 DEF FreeCounted, S, T

\* A segment put together from well-formed parts is one; what Keeps says of its counters when
\* at most the buckets of G become free.
LEMMA Rebuilt ==
  ASSUME NEW s \in Segment, NEW num \in ShareMemHeader, CounterSum(num) = CounterSum(s.num),
         NEW bkt \in [Buckets -> ShareMemBucket],
         NEW act \in [ActiveIds -> ShareMemActiveStatus], NEW ok \in BOOLEAN,
         NEW G \in SUBSET Buckets, num["free"] = s.num["free"] + Cardinality(G),
         \A b \in Buckets : bkt[b].type = "free" => b \in G \/ s.bkt[b].type = "free"
  PROVE  Keeps(s, [num |-> num, bkt |-> bkt, act |-> act, ok |-> ok])
<1> DEFINE t == [num |-> num, bkt |-> bkt, act |-> act, ok |-> ok]
<1>1. t \in Segment /\ StatisticsSum(t) = StatisticsSum(s)
  BY DEF Segment, StatisticsSum
<1>2. FreeBuckets(t) \subseteq FreeBuckets(s) \cup G /\ t.num["free"] = s.num["free"] + Cardinality(G)
  BY DEF FreeBuckets
<1> HIDE DEF t
<1>3. FreeCounted(s) => FreeCounted(t)
  BY <1>1, <1>2, FreeKept
<1>4. Keeps(s, t)
  BY <1>1, <1>3 DEF Keeps
<1> QED
  BY <1>4 DEF t

\* The same when no bucket becomes free.
LEMMA RebuiltNoneFreed ==
  ASSUME NEW s \in Segment, NEW num \in ShareMemHeader, CounterSum(num) = CounterSum(s.num),
         NEW bkt \in [Buckets -> ShareMemBucket],
         NEW act \in [ActiveIds -> ShareMemActiveStatus], NEW ok \in BOOLEAN,
         num["free"] = s.num["free"],
         \A b \in Buckets : bkt[b].type = "free" => s.bkt[b].type = "free"
  PROVE  Keeps(s, [num |-> num, bkt |-> bkt, act |-> act, ok |-> ok])
<1>1. Cardinality({}) = 0 /\ {} \in SUBSET Buckets
  BY FS_EmptySet
<1>2. num["free"] = s.num["free"] + Cardinality({})
  BY <1>1 DEF Segment, ShareMemHeader, Counters
<1> QED
  BY <1>1, <1>2, Rebuilt

\* Slots and the error flag do not matter.
LEMMA SlotsFree ==
  ASSUME NEW s \in Segment, NEW t \in Segment, t.num = s.num, t.bkt = s.bkt
  PROVE  Keeps(s, t)
BY DEF Keeps, StatisticsSum, FreeCounted, FreeBuckets

-----------------------------------------------------------------------------
(* The operations *)

AnyId == ActiveIds \cup {InvalidActiveId}
AnyFile == Files \cup {NoFile}

\* Doing nothing keeps the segment.
LEMMA KeepsItself == ASSUME NEW s \in Segment PROVE Keeps(s, s)
BY DEF Keeps

\* Two operations in a row, as in one critical section.
LEMMA KeepsTransitive ==
  ASSUME NEW s, NEW t, NEW u, Keeps(s, t), Keeps(t, u) PROVE Keeps(s, u)
BY DEF Keeps

\* An exception before the first write.
LEMMA ThrowKeeps == ASSUME NEW s \in Segment PROVE Keeps(s, Throw(s))
<1>1. Throw(s) \in Segment /\ Throw(s).num = s.num /\ Throw(s).bkt = s.bkt
  BY DEF Throw, Segment
<1> QED
  BY <1>1, SlotsFree

\* registFile, with and without a free slot.
LEMMA RegistFileKeeps ==
  ASSUME NEW s \in Segment, NEW f \in Files, NEW isDelete \in BOOLEAN
  PROVE  Keeps(s, RegistFile(s, f, isDelete))
<1> DEFINE mine == FreeSlot(s)
           doomed == isDelete \/ \E i \in ActiveIds : s.act[i].file = f /\ s.act[i].destroy
           slot(i) == IF i = mine
                      THEN [s.act[i] EXCEPT !.used = TRUE, !.file = f, !.blk = InvalidBlockId,
                                            !.destroy = @ \/ doomed]
                      ELSE IF isDelete /\ s.act[i].file = f
                           THEN [s.act[i] EXCEPT !.destroy = TRUE]
                      ELSE s.act[i]
           act == [i \in ActiveIds |-> slot(i)]
<1>1. doomed \in BOOLEAN
  OBVIOUS
<1>2. ASSUME NEW x \in ShareMemActiveStatus, NEW k \in Int, NEW d \in BOOLEAN
      PROVE  [x EXCEPT !.used = TRUE, !.file = f, !.blk = k,
                       !.destroy = d] \in ShareMemActiveStatus
  BY DEF ShareMemActiveStatus
<1>3. ASSUME NEW i \in ActiveIds
      PROVE  [s.act[i] EXCEPT !.used = TRUE, !.file = f, !.blk = InvalidBlockId,
                              !.destroy = @ \/ doomed] \in ShareMemActiveStatus
  <2>1. s.act[i] \in ShareMemActiveStatus /\ InvalidBlockId \in Int
    BY SegmentFields DEF InvalidBlockId
  <2>2. (s.act[i].destroy \/ doomed) \in BOOLEAN
    OBVIOUS
  <2> QED
    BY <1>2, <2>1, <2>2, Zenon
<1> HIDE DEF mine, doomed
<1>4. ASSUME NEW i \in ActiveIds PROVE slot(i) \in ShareMemActiveStatus
  <2>1. s.act[i] \in ShareMemActiveStatus
    BY SegmentFields
  <2>2. [s.act[i] EXCEPT !.destroy = TRUE] \in ShareMemActiveStatus
    BY <2>1 DEF ShareMemActiveStatus
  <2> QED
    BY <1>3, <2>1, <2>2, Zenon
<1>5. RegistFile(s, f, isDelete) = [s EXCEPT !.act = act]
  BY Zenon DEF RegistFile, mine, doomed
<1> HIDE DEF slot
<1>6. act \in [ActiveIds -> ShareMemActiveStatus]
  BY <1>4
<1> HIDE DEF act
<1>7. LET t == [s EXCEPT !.act = act] IN t \in Segment /\ t.num = s.num /\ t.bkt = s.bkt
  BY <1>6 DEF Segment
<1> QED
  BY <1>5, <1>7, SlotsFree

\* unregistFile, also for an id out of range.
LEMMA UnregistFileKeeps == ASSUME NEW s \in Segment, NEW id PROVE Keeps(s, UnregistFile(s, id))
<1> DEFINE act == [s.act EXCEPT ![id] = ResetActiveStatus]
<1>1. act \in [ActiveIds -> ShareMemActiveStatus]
  BY ResetTyped, SegmentFields
<1>2. UnregistFile(s, id) = IF id \in ActiveIds THEN [s EXCEPT !.act = act] ELSE s
  BY DEF UnregistFile
<1> HIDE DEF act
<1>3. LET t == [s EXCEPT !.act = act] IN t \in Segment /\ t.num = s.num /\ t.bkt = s.bkt
  BY <1>1 DEF Segment
<1> QED
  BY <1>2, <1>3, SlotsFree, KeepsItself

\* acquireFreeBucket, also when it throws after taking too few.
LEMMA AcquireFreeBucketKeeps ==
  ASSUME NEW s \in Segment, NEW id \in AnyId, NEW n, NEW f \in AnyFile
  PROVE  Keeps(s, AcquireFreeBucket(s, id, n, f))
<1> DEFINE got == AcquiredBuckets(s, n)
           num == Moved(s.num, "free", "active", Cardinality(got))
           bkt == [b \in Buckets |->
                     IF b \in got
                     THEN [s.bkt[b] EXCEPT !.type = "active", !.file = f, !.infos = Mark(@, id)]
                     ELSE s.bkt[b]]
           ok == Cardinality(got) = n
<1>1. Cardinality(got) \in Nat
  BY BucketsFinite DEF AcquiredBuckets, FreeBuckets, Lowest
<1>2. num \in ShareMemHeader /\ CounterSum(num) = CounterSum(s.num)
  BY <1>1, SegmentFields, MovedKeeps DEF Counters
<1>3. bkt \in [Buckets -> ShareMemBucket]
  <2>1. ASSUME NEW x \in ShareMemBucket
        PROVE  [x EXCEPT !.type = "active", !.file = f, !.infos = Mark(@, id)] \in ShareMemBucket
    <3>1. Mark(x.infos, id) \in ActiveInfos
      BY MarkTyped DEF ShareMemBucket, AnyId
    <3> QED
      BY <3>1 DEF ShareMemBucket, AnyFile
  <2> QED
    BY <2>1, SegmentFields
<1>4. ok \in BOOLEAN
  OBVIOUS
<1>5. AcquireFreeBucket(s, id, n, f) = [num |-> num, bkt |-> bkt, act |-> s.act, ok |-> ok]
  BY Zenon DEF AcquireFreeBucket
<1> DEFINE t == [num |-> num, bkt |-> bkt, act |-> s.act, ok |-> ok]
<1>6. /\ got \subseteq FreeBuckets(s)
      /\ \A b \in Buckets : bkt[b].type = "free" => b \notin got /\ s.bkt[b].type = "free"
  <2>1. got \subseteq FreeBuckets(s)
    BY DEF AcquiredBuckets, FreeBuckets, Lowest
  <2>2. ASSUME NEW x \in ShareMemBucket
        PROVE  [x EXCEPT !.type = "active", !.file = f, !.infos = Mark(@, id)].type = "active"
    BY DEF ShareMemBucket
  <2> HIDE DEF got
  <2> QED
    BY <2>1, <2>2, SegmentFields
<1>7. num["free"] = s.num["free"] - Cardinality(got)
  BY <1>1, SegmentFields, MovedFree DEF Counters
<1> HIDE DEF num, bkt, ok
<1>8. t \in Segment /\ t.num = num /\ FreeBuckets(t) \subseteq FreeBuckets(s) \ got
  BY <1>2, <1>3, <1>4, <1>6, SegmentFields DEF Segment, FreeBuckets
<1>9. StatisticsSum(t) = StatisticsSum(s)
  BY <1>2, <1>8 DEF StatisticsSum
<1> HIDE DEF t, got
<1>10. FreeCounted(s) => FreeCounted(t)
  <2>0. IsFiniteSet(Buckets) /\ FreeBuckets(s) \in SUBSET Buckets
    BY NumBucketsAssumption, FS_Interval DEF Buckets, FreeBuckets
  <2>1. IsFiniteSet(FreeBuckets(s))
    BY <2>0, FS_Subset
  <2>2. FreeBuckets(s) \cap got = got
    BY <1>6
  <2>3. Cardinality(FreeBuckets(s) \ got) = Cardinality(FreeBuckets(s)) - Cardinality(got)
    BY <2>1, <2>2, FS_Difference
  <2>4. IsFiniteSet(FreeBuckets(s) \ got)
    BY <2>1, FS_Subset
  <2>5. Cardinality(FreeBuckets(t)) <= Cardinality(FreeBuckets(s) \ got)
    BY <1>8, <2>4, FS_Subset
  <2>6. Cardinality(FreeBuckets(t)) \in Nat /\ Cardinality(FreeBuckets(s)) \in Nat
    BY BucketsFinite DEF FreeBuckets
  <2>7. s.num["free"] \in Int
    BY DEF Segment, ShareMemHeader, Counters
  <2> QED
    BY <1>1, <1>7, <1>8, <2>3, <2>5, <2>6, <2>7 DEF FreeCounted
<1> QED
  BY <1>5, <1>8, <1>9, <1>10 DEF Keeps, t

\* releaseBuckets, also when it throws half-way through its list.
LEMMA ReleaseBucketsKeeps ==
  ASSUME NEW s \in Segment, NEW list PROVE Keeps(s, ReleaseBuckets(s, list))
<1> DEFINE good(i) == s.bkt[list[i]].type = "active" /\ \A j \in 1 .. i - 1 : list[j] # list[i]
           done == {i \in DOMAIN list : \A j \in 1 .. i : good(j)}
           freed == {b \in Buckets : \E i \in done : list[i] = b}
           num == Moved(s.num, "active", "free", Cardinality(freed))
           bkt == [b \in Buckets |-> IF b \in freed THEN ResetBucket ELSE s.bkt[b]]
           ok == done = DOMAIN list
<1>1. freed \in SUBSET Buckets
  OBVIOUS
<1>2. ok \in BOOLEAN
  OBVIOUS
<1>3. ReleaseBuckets(s, list) = [num |-> num, bkt |-> bkt, act |-> s.act, ok |-> ok]
  BY Zenon DEF ReleaseBuckets
<1> HIDE DEF freed, ok
<1>4. num \in ShareMemHeader /\ CounterSum(num) = CounterSum(s.num)
  BY <1>1, BucketsFinite, SegmentFields, MovedKeeps DEF Counters
<1>5. /\ bkt \in [Buckets -> ShareMemBucket]
      /\ \A b \in Buckets : bkt[b].type = "free" => b \in freed \/ s.bkt[b].type = "free"
  BY SegmentFields, ResetTyped
<1>6. num["free"] = s.num["free"] + Cardinality(freed)
  BY <1>1, BucketsFinite, SegmentFields, MovedFree DEF Counters
<1> HIDE DEF num, bkt
<1> QED
  BY <1>1, <1>2, <1>3, <1>4, <1>5, <1>6, SegmentFields, Rebuilt

\* inactivateBuckets, also when it throws half-way through its list.
LEMMA InactivateBucketsKeeps ==
  ASSUME NEW s \in Segment, NEW list, \A i \in DOMAIN list : list[i].blk \in Int,
         NEW f \in AnyFile, NEW id \in AnyId
  PROVE  Keeps(s, InactivateBuckets(s, list, f, id))
<1> DEFINE done == Inactivated(s, list, id)
           touched == done \cup {i \in DOMAIN list : /\ i \notin done
                                                     /\ 1 .. i - 1 \subseteq done
                                                     /\ s.bkt[list[i].bucket].type = "active"}
           place(b) == CHOOSE i \in touched : list[i].bucket = b
           turned == {b \in Buckets : \E i \in TurnedToUsed(s, list, id) : list[i].bucket = b}
           num == Moved(s.num, "active", "used", Cardinality(turned))
           cell(b) == IF \E i \in touched : list[i].bucket = b
                      THEN [s.bkt[b] EXCEPT !.file = f, !.blk = list[place(b)].blk,
                              !.infos = Unmark(@, id), !.type = IF b \in turned THEN "used" ELSE @]
                      ELSE s.bkt[b]
           bkt == [b \in Buckets |-> cell(b)]
           ok == done = DOMAIN list
<1>1. turned \in SUBSET Buckets /\ ok \in BOOLEAN
  OBVIOUS
<1>2. touched \subseteq DOMAIN list
  BY DEF Inactivated
<1>3. InactivateBuckets(s, list, f, id) = [num |-> num, bkt |-> bkt, act |-> s.act, ok |-> ok]
  BY Zenon DEF InactivateBuckets
<1> HIDE DEF touched, turned, ok
<1>a. Cardinality(turned) \in Int
  BY <1>1, BucketsFinite
<1>4. num \in ShareMemHeader /\ CounterSum(num) = CounterSum(s.num)
  BY <1>a, SegmentFields, MovedKeeps DEF Counters
<1>b. num["free"] = s.num["free"]
  BY <1>a, SegmentFields, MovedFree DEF Counters
<1>5. ASSUME NEW b \in Buckets
      PROVE  cell(b) \in ShareMemBucket /\ (cell(b).type = "free" => s.bkt[b].type = "free")
  <2>1. s.bkt[b] \in ShareMemBucket
    BY SegmentFields
  <2>2. CASE \E i \in touched : list[i].bucket = b
    <3> DEFINE k == list[place(b)].blk
               infos == Unmark(s.bkt[b].infos, id)
               type == IF b \in turned THEN "used" ELSE s.bkt[b].type
    <3>1. k \in Int
      BY <1>2, <2>2
    <3>2. infos \in ActiveInfos
      BY <2>1, MarkTyped DEF ShareMemBucket, AnyId
    <3>3. type \in {"free", "active", "used"} /\ (type = "free" => s.bkt[b].type = "free")
      BY <2>1 DEF ShareMemBucket
    <3>4. cell(b) = [s.bkt[b] EXCEPT !.file = f, !.blk = k, !.infos = infos, !.type = type]
      BY <2>2, Zenon
    <3> HIDE DEF cell, k, infos, type
    <3>5. cell(b) \in ShareMemBucket /\ cell(b).type = type
      BY <2>1, <3>1, <3>2, <3>3, <3>4, ZenonT(40) DEF ShareMemBucket, AnyFile
    <3> QED
      BY <3>3, <3>5
  <2>3. CASE ~\E i \in touched : list[i].bucket = b
    BY <2>1, <2>3, Zenon
  <2> QED
    BY <2>2, <2>3
<1> HIDE DEF cell
<1>6. /\ bkt \in [Buckets -> ShareMemBucket]
      /\ \A b \in Buckets : bkt[b].type = "free" => s.bkt[b].type = "free"
  BY <1>5
<1> HIDE DEF num, bkt
<1> QED
  BY <1>1, <1>3, <1>4, <1>b, <1>6, SegmentFields, RebuiltNoneFreed

\* activateBucket: the plain case, the shared bucket, the steal and the exceptions.
LEMMA ActivateBucketKeeps ==
  ASSUME NEW s \in Segment, NEW f, NEW blk, NEW b, NEW id \in AnyId
  PROVE  Keeps(s, ActivateBucket(s, f, blk, b, id))
<1> DEFINE bk == s.bkt[b]
           taken == [bk EXCEPT !.type = "active", !.infos = Mark(@, id)]
           bkt == [s.bkt EXCEPT ![b] = taken]
           held == [s EXCEPT !.bkt = bkt]
           used == Moved(s.num, "used", "active", 1)
           evicting == Moved(s.num, "evicting", "active", 1)
           act == [s.act EXCEPT ![bk.by].stolen = TRUE]
<1>1. /\ bkt \in [Buckets -> ShareMemBucket]
      /\ \A x \in Buckets : bkt[x].type = "free" => s.bkt[x].type = "free"
  <2>1. CASE b \in Buckets
    <3>1. bk \in ShareMemBucket
      BY <2>1, SegmentFields
    <3> HIDE DEF bk
    <3>2. Mark(bk.infos, id) \in ActiveInfos
      BY <3>1, MarkTyped DEF ShareMemBucket, AnyId
    <3>3. taken \in ShareMemBucket /\ taken.type = "active"
      BY <3>1, <3>2 DEF ShareMemBucket
    <3> HIDE DEF taken
    <3> QED
      BY <3>3, SegmentFields
  <2>2. CASE b \notin Buckets
    BY <2>2, SegmentFields
  <2> QED
    BY <2>1, <2>2
<1>2. act \in [ActiveIds -> ShareMemActiveStatus]
  <2>1. ASSUME NEW x \in ShareMemActiveStatus
        PROVE  [x EXCEPT !.stolen = TRUE] \in ShareMemActiveStatus
    BY DEF ShareMemActiveStatus
  <2> QED
    BY <2>1, SegmentFields
<1>3. used \in ShareMemHeader /\ CounterSum(used) = CounterSum(s.num)
  BY SegmentFields, MovedKeeps DEF Counters
<1>a. evicting \in ShareMemHeader /\ CounterSum(evicting) = CounterSum(s.num)
  BY SegmentFields, MovedKeeps DEF Counters
<1>c. used["free"] = s.num["free"] /\ evicting["free"] = s.num["free"]
  BY SegmentFields, MovedFree DEF Counters
<1>4. ActivateBucket(s, f, blk, b, id) \in
        {Throw(s), Throw(held), held, [held EXCEPT !.num = used],
         [held EXCEPT !.num = evicting, !.act = act]}
  BY Zenon DEF ActivateBucket
<1> HIDE DEF bkt, used, evicting, act
<1>d. held = [num |-> s.num, bkt |-> bkt, act |-> s.act, ok |-> s.ok]
  BY DEF Segment
<1> HIDE DEF held
<1>5. [held EXCEPT !.num = used] = [num |-> used, bkt |-> bkt, act |-> s.act, ok |-> s.ok]
  BY <1>d
<1>e. [held EXCEPT !.num = evicting, !.act = act] =
        [num |-> evicting, bkt |-> bkt, act |-> act, ok |-> s.ok]
  <2>1. ASSUME NEW n, NEW a
        PROVE  [held EXCEPT !.num = n, !.act = a] = [[held EXCEPT !.num = n] EXCEPT !.act = a]
    BY Zenon
  <2>2. [held EXCEPT !.num = evicting] = [num |-> evicting, bkt |-> bkt, act |-> s.act, ok |-> s.ok]
    BY <1>d
  <2>3. [[num |-> evicting, bkt |-> bkt, act |-> s.act, ok |-> s.ok] EXCEPT !.act = act] =
          [num |-> evicting, bkt |-> bkt, act |-> act, ok |-> s.ok]
    OBVIOUS
  <2> QED
    BY <2>1, <2>2, <2>3, Zenon
<1>b. s.num \in ShareMemHeader /\ s.act \in [ActiveIds -> ShareMemActiveStatus] /\ s.ok \in BOOLEAN
  BY SegmentFields
<1>7. Keeps(s, held) /\ Keeps(s, [held EXCEPT !.num = used])
  BY <1>1, <1>3, <1>c, <1>d, <1>5, <1>b, RebuiltNoneFreed
<1>8. Keeps(s, [held EXCEPT !.num = evicting, !.act = act])
  BY <1>1, <1>2, <1>a, <1>c, <1>e, <1>b, RebuiltNoneFreed
<1>6. Keeps(s, Throw(s)) /\ Keeps(s, Throw(held))
  BY <1>7, ThrowKeeps, KeepsTransitive DEF Keeps
<1> QED
  BY <1>4, <1>6, <1>7, <1>8

\* updateActiveFileInfo, also on a file mismatch.
LEMMA UpdateActiveFileInfoKeeps ==
  ASSUME NEW s \in Segment, NEW b, NEW blk \in Int, NEW f
  PROVE  Keeps(s, UpdateActiveFileInfo(s, b, blk, f))
<1> DEFINE bkt == [s.bkt EXCEPT ![b].blk = blk]
<1>1. /\ bkt \in [Buckets -> ShareMemBucket]
      /\ \A x \in Buckets : bkt[x].type = "free" => s.bkt[x].type = "free"
  <2>1. ASSUME NEW x \in ShareMemBucket
        PROVE  [x EXCEPT !.blk = blk] \in ShareMemBucket /\ [x EXCEPT !.blk = blk].type = x.type
    BY DEF ShareMemBucket
  <2> QED
    BY <2>1, SegmentFields
<1>2. UpdateActiveFileInfo(s, b, blk, f) \in {[s EXCEPT !.bkt = bkt], Throw(s)}
  BY Zenon DEF UpdateActiveFileInfo
<1> HIDE DEF bkt
<1> DEFINE t == [s EXCEPT !.bkt = bkt]
<1>a. t = [num |-> s.num, bkt |-> bkt, act |-> s.act, ok |-> s.ok]
  BY DEF Segment
<1> HIDE DEF t
<1>b. s.num \in ShareMemHeader /\ s.act \in [ActiveIds -> ShareMemActiveStatus] /\ s.ok \in BOOLEAN
  BY SegmentFields
<1>3. Keeps(s, t)
  BY <1>1, <1>a, <1>b, RebuiltNoneFreed
<1> QED
  BY <1>2, <1>3, ThrowKeeps DEF t

\* Two counters, one bucket and one slot change together; no bucket becomes free.
LEMMA OneBucketKeeps ==
  ASSUME NEW s \in Segment, NEW from \in Counters \ {"free"}, NEW to \in Counters \ {"free"},
         from # to, NEW bkt \in [Buckets -> ShareMemBucket],
         \A x \in Buckets : bkt[x].type = "free" => s.bkt[x].type = "free",
         NEW act \in [ActiveIds -> ShareMemActiveStatus]
  PROVE  Keeps(s, [num |-> Moved(s.num, from, to, 1), bkt |-> bkt, act |-> act, ok |-> s.ok])
<1> DEFINE num == Moved(s.num, from, to, 1)
<1>1. num \in ShareMemHeader /\ CounterSum(num) = CounterSum(s.num) /\ num["free"] = s.num["free"]
  BY SegmentFields, MovedKeeps, MovedFree
<1> HIDE DEF num
<1>2. Keeps(s, [num |-> num, bkt |-> bkt, act |-> act, ok |-> s.ok])
  BY <1>1, SegmentFields, RebuiltNoneFreed
<1> QED
  BY <1>2 DEF num

\* markBucketEvicting, for whatever bucket the sweep stops at.
LEMMA MarkBucketEvictingKeeps ==
  ASSUME NEW s \in Segment, NEW b \in Buckets, NEW id \in AnyId
  PROVE  Keeps(s, MarkBucketEvicting(s, b, id))
<1> DEFINE bkt == [s.bkt EXCEPT ![b].evicting = TRUE, ![b].by = id]
           act == [s.act EXCEPT ![id].evictFile = s.bkt[b].file, ![id].blk = s.bkt[b].blk]
<1>1. /\ bkt \in [Buckets -> ShareMemBucket]
      /\ \A x \in Buckets : bkt[x].type = "free" => s.bkt[x].type = "free"
  <2>1. ASSUME NEW x \in ShareMemBucket
        PROVE  /\ [x EXCEPT !.evicting = TRUE, !.by = id] \in ShareMemBucket
               /\ [x EXCEPT !.evicting = TRUE, !.by = id].type = x.type
    BY DEF ShareMemBucket, AnyId
  <2> QED
    BY <2>1, SegmentFields, ZenonT(40)
<1>2. act \in [ActiveIds -> ShareMemActiveStatus]
  <2>1. s.bkt[b].file \in Files \cup {NoFile} /\ s.bkt[b].blk \in Int
    BY SegmentFields DEF ShareMemBucket
  <2>2. ASSUME NEW x \in ShareMemActiveStatus, NEW f \in Files \cup {NoFile}, NEW k \in Int
        PROVE  [x EXCEPT !.evictFile = f, !.blk = k] \in ShareMemActiveStatus
    BY DEF ShareMemActiveStatus
  <2> QED
    BY <2>1, <2>2, SegmentFields
<1>3. MarkBucketEvicting(s, b, id) =
        [num |-> Moved(s.num, "used", "evicting", 1), bkt |-> bkt, act |-> act, ok |-> s.ok]
  BY Zenon DEF MarkBucketEvicting
<1> HIDE DEF bkt, act
<1> QED
  BY <1>1, <1>2, <1>3, OneBucketKeeps DEF Counters

\* The common part of the two evictBucketFinish methods.
LEMMA EvictBucketFinishKeeps ==
  ASSUME NEW s \in Segment, NEW b, NEW id, NEW to \in Counters \ {"evicting"},
         NEW bk \in ShareMemBucket, bk.type = "free" => to = "free", to = "free" => b \in Buckets
  PROVE  Keeps(s, EvictBucketFinish(s, b, id, to, bk))
<1> DEFINE bkt == [s.bkt EXCEPT ![b] = bk]
           act == ClearEvictInfo(s, id)
<1>1. /\ bkt \in [Buckets -> ShareMemBucket]
      /\ \A x \in Buckets : bkt[x].type = "free" => s.bkt[x].type = "free" \/ (x = b /\ to = "free")
  BY SegmentFields
<1>2. act \in [ActiveIds -> ShareMemActiveStatus]
  <2>1. ASSUME NEW x \in ShareMemActiveStatus, NEW k \in Int
        PROVE  [x EXCEPT !.evictFile = NoFile, !.blk = k, !.stolen = FALSE] \in ShareMemActiveStatus
    BY DEF ShareMemActiveStatus
  <2>2. InvalidBlockId \in Int
    BY DEF InvalidBlockId
  <2> QED
    BY <2>1, <2>2, SegmentFields DEF ClearEvictInfo
<1>3. EvictBucketFinish(s, b, id, to, bk) \in
        {[s EXCEPT !.act = act],
         [num |-> Moved(s.num, "evicting", to, 1), bkt |-> bkt, act |-> act, ok |-> s.ok]}
  BY Zenon DEF EvictBucketFinish
<1> HIDE DEF bkt, act
<1>a. LET t == [s EXCEPT !.act = act] IN t \in Segment /\ t.num = s.num /\ t.bkt = s.bkt
  BY <1>2 DEF Segment
<1>4. Keeps(s, [s EXCEPT !.act = act])
  BY <1>a, SlotsFree
<1>5. Keeps(s, [num |-> Moved(s.num, "evicting", to, 1), bkt |-> bkt, act |-> act, ok |-> s.ok])
  <2>1. CASE to # "free"
    BY <1>1, <1>2, <2>1, OneBucketKeeps DEF Counters
  <2>2. CASE to = "free"
    <3> DEFINE num == Moved(s.num, "evicting", "free", 1)
    <3>1. num \in ShareMemHeader /\ CounterSum(num) = CounterSum(s.num)
      BY SegmentFields, MovedKeeps DEF Counters
    <3>2. Cardinality({b}) = 1 /\ {b} \in SUBSET Buckets
      BY <2>2, FS_Singleton
    <3>3. num["free"] = s.num["free"] + Cardinality({b})
      BY <3>2, SegmentFields, MovedFree DEF Counters
    <3>4. \A x \in Buckets : bkt[x].type = "free" => x \in {b} \/ s.bkt[x].type = "free"
      BY <1>1
    <3> HIDE DEF num
    <3>5. Keeps(s, [num |-> num, bkt |-> bkt, act |-> act, ok |-> s.ok])
      BY <1>1, <1>2, <3>1, <3>2, <3>3, <3>4, SegmentFields, Rebuilt
    <3> QED
      BY <2>2, <3>5 DEF num
  <2> QED
    BY <2>1, <2>2
<1> QED
  BY <1>3, <1>4, <1>5

\* evictBucketFinishAndTryAcquire, stolen or not, on whatever bucket it is called.
LEMMA EvictBucketFinishAndTryAcquireKeeps ==
  ASSUME NEW s \in Segment, NEW b, NEW id \in AnyId, NEW f \in AnyFile
  PROVE  Keeps(s, EvictBucketFinishAndTryAcquire(s, b, id, f))
<1> DEFINE bk == [ResetBucket EXCEPT !.type = "active", !.file = f, !.infos = Mark(@, id)]
<1>1. bk \in ShareMemBucket /\ bk.type # "free"
  <2>1. Mark(ResetBucket.infos, id) \in ActiveInfos
    BY ResetTyped, MarkTyped DEF ShareMemBucket, AnyId
  <2>2. ASSUME NEW x \in ShareMemBucket, NEW infos \in ActiveInfos
        PROVE  /\ [x EXCEPT !.type = "active", !.file = f, !.infos = infos] \in ShareMemBucket
               /\ [x EXCEPT !.type = "active", !.file = f, !.infos = infos].type = "active"
    BY DEF ShareMemBucket, AnyFile
  <2> QED
    BY <2>1, <2>2, ResetTyped
<1>2. EvictBucketFinishAndTryAcquire(s, b, id, f) = EvictBucketFinish(s, b, id, "active", bk)
  BY Zenon DEF EvictBucketFinishAndTryAcquire
<1> HIDE DEF bk
<1> QED
  BY <1>1, <1>2, EvictBucketFinishKeeps DEF Counters

\* markBucketLoading on a bucket of the handle.
LEMMA MarkBucketLoadingKeeps ==
  ASSUME NEW s \in Segment, NEW b, NEW blk \in Int, NEW id \in AnyId
  PROVE  Keeps(s, MarkBucketLoading(s, b, blk, id))
<1> DEFINE bkt == [s.bkt EXCEPT ![b].blk = blk, ![b].loading = TRUE, ![b].by = id]
           act == [s.act EXCEPT ![id].blk = blk, ![id].loading = TRUE]
<1>1. /\ bkt \in [Buckets -> ShareMemBucket]
      /\ \A x \in Buckets : bkt[x].type = "free" => s.bkt[x].type = "free"
  <2>1. ASSUME NEW x \in ShareMemBucket
        PROVE  /\ [x EXCEPT !.blk = blk, !.loading = TRUE, !.by = id] \in ShareMemBucket
               /\ [x EXCEPT !.blk = blk, !.loading = TRUE, !.by = id].type = x.type
    BY DEF ShareMemBucket, AnyId
  <2>2. s.bkt \in [Buckets -> ShareMemBucket]
    BY SegmentFields
  <2>3. ASSUME NEW x \in Buckets PROVE bkt[x] \in ShareMemBucket /\ bkt[x].type = s.bkt[x].type
    BY <2>1, <2>2
  <2>4. bkt \in [Buckets -> ShareMemBucket]
    BY <2>1, <2>2
  <2> QED
    BY <2>3, <2>4
<1>2. act \in [ActiveIds -> ShareMemActiveStatus]
  <2>1. ASSUME NEW x \in ShareMemActiveStatus
        PROVE  [x EXCEPT !.blk = blk, !.loading = TRUE] \in ShareMemActiveStatus
    BY DEF ShareMemActiveStatus
  <2> QED
    BY <2>1, SegmentFields
<1>3. MarkBucketLoading(s, b, blk, id) =
        [num |-> Moved(s.num, "active", "loading", 1), bkt |-> bkt, act |-> act, ok |-> s.ok]
  BY Zenon DEF MarkBucketLoading
<1> HIDE DEF bkt, act
<1> QED
  BY <1>1, <1>2, <1>3, OneBucketKeeps DEF Counters

\* markLoadFinish, which the loader calls without the lock.
LEMMA MarkLoadFinishKeeps ==
  ASSUME NEW s \in Segment, NEW b, NEW id PROVE Keeps(s, MarkLoadFinish(s, b, id))
<1> DEFINE bkt == [s.bkt EXCEPT ![b].loading = FALSE]
           act == LoadEnded(s, id)
<1>1. /\ bkt \in [Buckets -> ShareMemBucket]
      /\ \A x \in Buckets : bkt[x].type = "free" => s.bkt[x].type = "free"
  <2>1. ASSUME NEW x \in ShareMemBucket
        PROVE  /\ [x EXCEPT !.loading = FALSE] \in ShareMemBucket
               /\ [x EXCEPT !.loading = FALSE].type = x.type
    BY DEF ShareMemBucket
  <2> QED
    BY <2>1, SegmentFields
<1>2. act \in [ActiveIds -> ShareMemActiveStatus]
  <2>1. ASSUME NEW x \in ShareMemActiveStatus, NEW k \in Int
        PROVE  [x EXCEPT !.blk = k, !.loading = FALSE] \in ShareMemActiveStatus
    BY DEF ShareMemActiveStatus
  <2>2. InvalidBlockId \in Int
    BY DEF InvalidBlockId
  <2> QED
    BY <2>1, <2>2, SegmentFields DEF LoadEnded
<1>3. MarkLoadFinish(s, b, id) =
        [num |-> Moved(s.num, "loading", "active", 1), bkt |-> bkt, act |-> act, ok |-> s.ok]
  BY Zenon DEF MarkLoadFinish
<1> HIDE DEF bkt, act
<1> QED
  BY <1>1, <1>2, <1>3, OneBucketKeeps DEF Counters

\* deleteBlocks, also when it throws half-way through its list.
LEMMA DeleteBlocksKeeps ==
  ASSUME NEW s \in Segment, NEW blocks, NEW f PROVE Keeps(s, DeleteBlocks(s, blocks, f))
<1> DEFINE frees(b) == s.bkt[b].type = "used" /\ s.bkt[b].file = f
           marks(b) == ~frees(b) /\ s.bkt[b].evicting /\ s.bkt[b].file = f
           locals == {i \in DOMAIN blocks : blocks[i].local}
           good(i) == \/ marks(blocks[i].bucket)
                      \/ /\ frees(blocks[i].bucket)
                         /\ \A j \in locals : j < i => blocks[j].bucket # blocks[i].bucket
           done == {i \in locals : \A j \in locals : j <= i => good(j)}
           freed == {b \in Buckets : frees(b) /\ \E i \in done : blocks[i].bucket = b}
           marked == {b \in Buckets : marks(b) /\ \E i \in done : blocks[i].bucket = b}
           num == Moved(s.num, "used", "free", Cardinality(freed))
           bkt == [b \in Buckets |-> IF b \in freed THEN ResetBucket
                                     ELSE IF b \in marked THEN [s.bkt[b] EXCEPT !.deleted = TRUE]
                                     ELSE s.bkt[b]]
           ok == done = locals
<1>1. freed \in SUBSET Buckets /\ ok \in BOOLEAN
  OBVIOUS
<1>2. DeleteBlocks(s, blocks, f) = [num |-> num, bkt |-> bkt, act |-> s.act, ok |-> ok]
  BY Zenon DEF DeleteBlocks
<1> HIDE DEF freed, marked, ok
<1>3. Cardinality(freed) \in Int
  BY <1>1, BucketsFinite
<1>4. num \in ShareMemHeader /\ CounterSum(num) = CounterSum(s.num)
  BY <1>3, SegmentFields, MovedKeeps DEF Counters
<1>5. /\ bkt \in [Buckets -> ShareMemBucket]
      /\ \A b \in Buckets : bkt[b].type = "free" => b \in freed \/ s.bkt[b].type = "free"
  <2>1. ASSUME NEW x \in ShareMemBucket
        PROVE  /\ [x EXCEPT !.deleted = TRUE] \in ShareMemBucket
               /\ [x EXCEPT !.deleted = TRUE].type = x.type
    BY DEF ShareMemBucket
  <2> QED
    BY <2>1, SegmentFields, ResetTyped
<1>6. num["free"] = s.num["free"] + Cardinality(freed)
  BY <1>3, SegmentFields, MovedFree DEF Counters
<1> HIDE DEF num, bkt
<1> QED
  BY <1>1, <1>2, <1>4, <1>5, <1>6, SegmentFields, Rebuilt

-----------------------------------------------------------------------------
(* What the operations of the segment do to buckets and slots *)

\* A used bucket is held by nobody and a free one has no block.
Settled(s) ==
  \A b \in Buckets : /\ s.bkt[b].type = "used" => NoActiveReadWrite(s.bkt[b].infos)
                     /\ s.bkt[b].type = "free" => s.bkt[b].blk = InvalidBlockId

\* The bucket b is being evicted by the slot id, which knows it.
Evicts(s, id, b, blk) ==
  /\ s.bkt[b].type = "used" /\ s.bkt[b].evicting /\ s.bkt[b].by = id /\ s.bkt[b].blk = blk
  /\ s.act[id].evictFile = s.bkt[b].file /\ s.act[id].blk = blk

\* A bucket that nobody holds can be marked.
LEMMA QuietHasRoom ==
  ASSUME NEW infos \in ActiveInfos, NoActiveReadWrite(infos)
  PROVE  ~MarkFull(infos)
BY MaxOpenAssumption DEF ActiveInfos, NoActiveReadWrite, MarkFull, HasActiveId

\* A free slot is not in use.
LEMMA FreeSlotFree ==
  ASSUME NEW s, FreeSlot(s) # InvalidActiveId
  PROVE  FreeSlot(s) \in ActiveIds /\ ~s.act[FreeSlot(s)].used
<1> DEFINE free == {i \in ActiveIds : ~s.act[i].used}
<1>1. free # {}
  BY DEF FreeSlot
<1>2. free \in SUBSET Nat
  BY MaxConnectionAssumption DEF ActiveIds
<1>3. \E x \in free : \A y \in free : x <= y
  BY <1>1, <1>2, LeastExists, Zenon
<1> QED
  BY <1>1, <1>3 DEF FreeSlot

\* registFile writes its own slot only, and no bucket.
LEMMA RegistEffect ==
  ASSUME NEW s \in Segment, NEW f
  PROVE  /\ RegistFile(s, f, FALSE).bkt = s.bkt
         /\ \A i \in ActiveIds : i # FreeSlot(s) => RegistFile(s, f, FALSE).act[i] = s.act[i]
BY DEF RegistFile, Segment

\* unregistAdmin writes its own slot only.
LEMMA UnregistEffect ==
  ASSUME NEW s \in Segment, NEW id \in ActiveIds, NEW t, t = UnregistFile(s, id)
  PROVE  t.bkt = s.bkt /\ \A i \in ActiveIds : i # id => t.act[i] = s.act[i]
BY DEF UnregistFile, Segment

\* acquireFreeBucket turns free buckets into active ones of the file.
LEMMA AcquireEffect ==
  ASSUME NEW s \in Segment, NEW id \in AnyId, NEW f, NEW t, t = AcquireFreeBucket(s, id, 1, f)
  PROVE  /\ t.act = s.act /\ AcquiredBuckets(s, 1) \subseteq FreeBuckets(s)
         /\ \A b \in Buckets : IF b \in AcquiredBuckets(s, 1)
                               THEN /\ t.bkt[b].type = "active" /\ t.bkt[b].file = f
                                    /\ t.bkt[b].blk = s.bkt[b].blk
                               ELSE t.bkt[b] = s.bkt[b]
<1> DEFINE with(x, w, q) == [x EXCEPT !.type = w, !.file = f, !.infos = q]
<1>1. AcquiredBuckets(s, 1) \subseteq FreeBuckets(s)
  BY DEF AcquiredBuckets, Lowest
<1>2. ASSUME NEW x \in ShareMemBucket, NEW w, NEW q
      PROVE  with(x, w, q).type = w /\ with(x, w, q).file = f /\ with(x, w, q).blk = x.blk
  BY DEF ShareMemBucket
<1>3. t.act = s.act
  BY Zenon DEF AcquireFreeBucket
<1>4. t.bkt = [b \in Buckets |->
                 IF b \in AcquiredBuckets(s, 1)
                 THEN [s.bkt[b] EXCEPT !.type = "active", !.file = f, !.infos = Mark(@, id)]
                 ELSE s.bkt[b]]
  BY Zenon DEF AcquireFreeBucket
<1>5. \A b \in Buckets : s.bkt[b] \in ShareMemBucket
  BY SegmentFields
<1>6. ASSUME NEW b \in Buckets, b \in AcquiredBuckets(s, 1)
      PROVE  t.bkt[b].type = "active" /\ t.bkt[b].file = f /\ t.bkt[b].blk = s.bkt[b].blk
  <2>1. t.bkt[b] = with(s.bkt[b], "active", Mark(s.bkt[b].infos, id))
    BY <1>4, <1>6, Zenon
  <2> HIDE DEF with
  <2> QED
    BY <2>1, <1>2, <1>5
<1>7. ASSUME NEW b \in Buckets, b \notin AcquiredBuckets(s, 1)
      PROVE  t.bkt[b] = s.bkt[b]
  BY <1>4, <1>7, Zenon
<1> QED
  BY <1>1, <1>3, <1>6, <1>7, Zenon

\* The bucket b of s is active or used in t, and used only when no handle is left on it.
Released(s, t, b) ==
  /\ t.act = s.act /\ \A x \in Buckets : x # b => t.bkt[x] = s.bkt[x]
  /\ t.bkt[b].type \in {"active", "used"}
  /\ t.bkt[b].type = "used" => NoActiveReadWrite(t.bkt[b].infos)

\* inactivateBuckets of one active bucket.
LEMMA InactivateEffect ==
  ASSUME NEW s \in Segment, NEW b \in Buckets, NEW k, NEW f, NEW id \in AnyId, NEW t,
         s.bkt[b].type = "active", t = InactivateBuckets(s, <<[blk |-> k, bucket |-> b]>>, f, id)
  PROVE  Released(s, t, b)
<1> DEFINE list == <<[blk |-> k, bucket |-> b]>>
           done == Inactivated(s, list, id)
           touched == done \cup {i \in DOMAIN list : /\ i \notin done
                                                     /\ 1 .. i - 1 \subseteq done
                                                     /\ s.bkt[list[i].bucket].type = "active"}
           place(x) == CHOOSE i \in touched : list[i].bucket = x
           turned == {x \in Buckets : \E i \in TurnedToUsed(s, list, id) : list[i].bucket = x}
           cell(x) == IF \E i \in touched : list[i].bucket = x
                      THEN [s.bkt[x] EXCEPT !.file = f, !.blk = list[place(x)].blk,
                              !.infos = Unmark(@, id), !.type = IF x \in turned THEN "used" ELSE @]
                      ELSE s.bkt[x]
<1>1. DOMAIN list = {1} /\ list[1].bucket = b
  OBVIOUS
<1>2. t.act = s.act /\ t.bkt = [x \in Buckets |-> cell(x)]
  BY Zenon DEF InactivateBuckets
<1>3. touched \subseteq {1}
  BY <1>1 DEF Inactivated
<1>4. b \in turned => NoActiveReadWrite(Unmark(s.bkt[b].infos, id))
  BY <1>1 DEF TurnedToUsed, Inactivated
<1>5. s.bkt[b] \in ShareMemBucket
  BY SegmentFields
<1> HIDE DEF list, touched, turned
<1>6. ASSUME NEW x \in Buckets, x # b PROVE t.bkt[x] = s.bkt[x]
  <2>1. ~\E i \in touched : list[i].bucket = x
    BY <1>1, <1>3, <1>6
  <2> QED
    BY <1>2, <2>1, Zenon
<1>7. /\ t.bkt[b].type \in {"active", "used"}
      /\ t.bkt[b].type = "used" => NoActiveReadWrite(t.bkt[b].infos)
  <2>1. CASE ~\E i \in touched : list[i].bucket = b
    <3>1. t.bkt[b] = s.bkt[b]
      BY <1>2, <2>1, Zenon
    <3> QED
      BY <3>1
  <2>2. CASE \E i \in touched : list[i].bucket = b
    <3> DEFINE infos == Unmark(s.bkt[b].infos, id)
               type == IF b \in turned THEN "used" ELSE s.bkt[b].type
               with(x, y, q, w) == [x EXCEPT !.file = f, !.blk = y, !.infos = q, !.type = w]
    <3>1. t.bkt[b] = with(s.bkt[b], list[place(b)].blk, infos, type)
      BY <1>2, <2>2, Zenon
    <3>2. ASSUME NEW x \in ShareMemBucket, NEW y, NEW q, NEW w
          PROVE  with(x, y, q, w).type = w /\ with(x, y, q, w).infos = q
      BY DEF ShareMemBucket
    <3> HIDE DEF with
    <3>3. t.bkt[b].type = type /\ t.bkt[b].infos = infos
      <4> HIDE DEF type, infos, place
      <4> QED
        BY <3>1, <3>2, <1>5
    <3>4. type = "used" => b \in turned
      OBVIOUS
    <3>5. type \in {"active", "used"}
      OBVIOUS
    <3> HIDE DEF type
    <3>6. type = "used" => NoActiveReadWrite(infos)
      BY <3>4, <1>4
    <3> HIDE DEF infos
    <3> QED
      BY <3>3, <3>5, <3>6
  <2> QED
    BY <2>1, <2>2
<1> QED
  BY <1>2, <1>6, <1>7, Zenon DEF Released

\* The bucket b of s is active again in t, or is as it was; whoever was evicting it was told.
Retaken(s, t, b, k) ==
  /\ \A x \in Buckets : x # b => t.bkt[x] = s.bkt[x]
  /\ t.bkt[b].type \in {s.bkt[b].type, "active"} /\ t.bkt[b].evicting = s.bkt[b].evicting
  /\ t.bkt[b].file = s.bkt[b].file /\ t.bkt[b].blk = s.bkt[b].blk /\ t.bkt[b].by = s.bkt[b].by
  /\ t.bkt[b].type = "used" => NoActiveReadWrite(t.bkt[b].infos)
  /\ \A i \in ActiveIds : /\ t.act[i].used = s.act[i].used
                          /\ t.act[i].evictFile = s.act[i].evictFile
                          /\ t.act[i].blk = s.act[i].blk
                          /\ s.act[i].stolen => t.act[i].stolen
  /\ t.ok => t.bkt[b].type = "active" /\ s.bkt[b].blk = k
  /\ s.bkt[b].type = "used" /\ t.bkt[b].type = "active" =>
       \A i \in ActiveIds : Evicts(s, i, b, s.bkt[b].blk) => t.act[i].stolen

\* activateBucket writes one bucket, and in the slots at most the flag that tells the bucket's
\* evictor.  A bucket that was being evicted by a slot that knows it ends active and told.
LEMMA ActivateEffect ==
  ASSUME NEW s \in Segment, NEW b \in Buckets, NEW k, NEW f, NEW id \in AnyId, NEW t,
         t = ActivateBucket(s, f, k, b, id), Settled(s)
  PROVE  Retaken(s, t, b, k)
<1> DEFINE bk == s.bkt[b]
           taken == [bk EXCEPT !.type = "active", !.infos = Mark(@, id)]
           bkt == [s.bkt EXCEPT ![b] = taken]
           held == [s EXCEPT !.bkt = bkt]
           mine == s.act[bk.by].evictFile = bk.file /\ s.act[bk.by].blk = bk.blk
           act == [s.act EXCEPT ![bk.by].stolen = TRUE]
           un == Moved(s.num, "used", "active", 1)
           en == Moved(s.num, "evicting", "active", 1)
<1>1. /\ bk \in ShareMemBucket /\ s.bkt \in [Buckets -> ShareMemBucket]
      /\ s.act \in [ActiveIds -> ShareMemActiveStatus]
  BY SegmentFields
<1>2. /\ taken.type = "active" /\ taken.evicting = bk.evicting /\ taken.file = bk.file
      /\ taken.blk = bk.blk /\ taken.by = bk.by
  <2> DEFINE with(x, w, q) == [x EXCEPT !.type = w, !.infos = q]
  <2>1. taken = with(bk, "active", Mark(bk.infos, id))
    BY Zenon
  <2>2. ASSUME NEW x \in ShareMemBucket, NEW w, NEW q
        PROVE  /\ with(x, w, q).type = w /\ with(x, w, q).evicting = x.evicting
               /\ with(x, w, q).file = x.file /\ with(x, w, q).blk = x.blk
               /\ with(x, w, q).by = x.by
    BY DEF ShareMemBucket
  <2> HIDE DEF with, taken, bk
  <2> QED
    BY <2>1, <2>2, <1>1
<1>3. bk.type = "used" => ~MarkFull(bk.infos)
  BY <1>1, QuietHasRoom DEF Settled, ShareMemBucket
<1>4. \/ t = Throw(s)
      \/ t = held /\ bk.type = "active" /\ bk.blk = k
      \/ t = [held EXCEPT !.num = un] /\ bk.type = "used" /\ ~bk.evicting /\ bk.blk = k
      \/ t = [held EXCEPT !.num = en, !.act = act] /\ bk.type = "used" /\ bk.evicting /\ bk.blk = k
      \/ t = Throw(held) /\ bk.type = "used" /\ bk.evicting /\ ~mine
  BY <1>1, <1>3, Zenon DEF ActivateBucket, ShareMemBucket
<1> HIDE DEF taken, mine, un, en
<1>5. bkt[b] = taken /\ \A x \in Buckets : x # b => bkt[x] = s.bkt[x]
  BY <1>1
<1>6. \A i \in ActiveIds : /\ act[i].used = s.act[i].used /\ act[i].evictFile = s.act[i].evictFile
                           /\ act[i].blk = s.act[i].blk /\ (s.act[i].stolen => act[i].stolen)
                           /\ i = bk.by => act[i].stolen
  BY <1>1 DEF ShareMemActiveStatus
<1> HIDE DEF bkt, act
<1>7. \/ t.bkt = s.bkt /\ t.act = s.act /\ ~t.ok
      \/ t.bkt = bkt /\ t.act = s.act /\ bk.type = "active" /\ bk.blk = k
      \/ t.bkt = bkt /\ t.act = s.act /\ bk.type = "used" /\ ~bk.evicting /\ bk.blk = k
      \/ t.bkt = bkt /\ t.act = act /\ bk.type = "used" /\ bk.evicting /\ bk.blk = k
      \/ t.bkt = bkt /\ t.act = s.act /\ bk.type = "used" /\ bk.evicting /\ ~mine /\ ~t.ok
  BY <1>4, Zenon DEF Throw, Segment
<1>8. \A i \in ActiveIds : Evicts(s, i, b, s.bkt[b].blk) => mine /\ bk.evicting /\ i = bk.by
  BY DEF Evicts, mine
<1>9. s.bkt[b].type = "used" => NoActiveReadWrite(s.bkt[b].infos)
  BY DEF Settled
<1> HIDE DEF bk
<1>10. s.bkt[b] = bk
  BY DEF bk
<1> QED
  BY <1>2, <1>5, <1>6, <1>7, <1>8, <1>9, <1>10, ZenonT(40) DEF Retaken

\* In t, the slot id is evicting the bucket b.
Marked(s, t, b, id) ==
  /\ \A x \in Buckets : x # b => t.bkt[x] = s.bkt[x]
  /\ t.bkt[b].infos = s.bkt[b].infos /\ t.bkt[b].blk = s.bkt[b].blk
  /\ Evicts(t, id, b, s.bkt[b].blk)
  /\ \A i \in ActiveIds : i # id => t.act[i] = s.act[i]
  /\ t.act[id].used = s.act[id].used

\* markBucketEvicting writes the victim and the evictor's slot, which then knows it.
LEMMA MarkEvictingEffect ==
  ASSUME NEW s \in Segment, NEW b \in Buckets, NEW id \in ActiveIds, NEW t,
         s.bkt[b].type = "used", t = MarkBucketEvicting(s, b, id)
  PROVE  Marked(s, t, b, id)
<1> DEFINE wb(x) == [x EXCEPT !.evicting = TRUE, !.by = id]
           wa(x, f, k) == [x EXCEPT !.evictFile = f, !.blk = k]
<1>1. /\ s.bkt \in [Buckets -> ShareMemBucket] /\ s.act \in [ActiveIds -> ShareMemActiveStatus]
      /\ s.bkt[b] \in ShareMemBucket /\ s.act[id] \in ShareMemActiveStatus
  BY SegmentFields
<1>2. /\ t.bkt = [s.bkt EXCEPT ![b].evicting = TRUE, ![b].by = id]
      /\ t.act = [s.act EXCEPT ![id].evictFile = s.bkt[b].file, ![id].blk = s.bkt[b].blk]
  BY DEF MarkBucketEvicting
<1>3. t.bkt[b] = wb(s.bkt[b]) /\ \A x \in Buckets : x # b => t.bkt[x] = s.bkt[x]
  BY <1>1, <1>2, Zenon
<1>4. /\ t.act[id] = wa(s.act[id], s.bkt[b].file, s.bkt[b].blk)
      /\ \A i \in ActiveIds : i # id => t.act[i] = s.act[i]
  BY <1>1, <1>2, Zenon
<1>5. ASSUME NEW x \in ShareMemBucket
      PROVE  /\ wb(x).evicting /\ wb(x).by = id /\ wb(x).type = x.type /\ wb(x).infos = x.infos
             /\ wb(x).blk = x.blk /\ wb(x).file = x.file
  BY DEF ShareMemBucket
<1>6. ASSUME NEW x \in ShareMemActiveStatus, NEW f, NEW k
      PROVE  wa(x, f, k).evictFile = f /\ wa(x, f, k).blk = k /\ wa(x, f, k).used = x.used
  BY DEF ShareMemActiveStatus
<1> HIDE DEF wb, wa
<1> QED
  <2>1. /\ t.bkt[b].evicting /\ t.bkt[b].by = id /\ t.bkt[b].type = s.bkt[b].type
        /\ t.bkt[b].infos = s.bkt[b].infos /\ t.bkt[b].blk = s.bkt[b].blk
        /\ t.bkt[b].file = s.bkt[b].file
    BY <1>1, <1>3, <1>5
  <2>2. /\ t.act[id].evictFile = s.bkt[b].file /\ t.act[id].blk = s.bkt[b].blk
        /\ t.act[id].used = s.act[id].used
    BY <1>1, <1>4, <1>6
  <2>3. Evicts(t, id, b, s.bkt[b].blk)
    BY <2>1, <2>2, Zenon DEF Evicts
  <2> QED
    BY <1>3, <1>4, <2>1, <2>2, <2>3, Zenon DEF Marked

\* In t, the slot id is done with the eviction of the bucket b.
Finished(s, t, b, id) ==
  /\ t \in Segment
  /\ \A x \in Buckets : x # b => t.bkt[x] = s.bkt[x]
  /\ s.act[id].stolen => t.bkt = s.bkt
  /\ ~s.act[id].stolen => t.bkt[b] = ResetBucket
  /\ \A i \in ActiveIds : i # id => t.act[i] = s.act[i]
  /\ t.act[id].used = s.act[id].used

\* evictBucketFinishAndTryFree frees the bucket unless it was stolen, and clears the slot.
LEMMA FinishEffect ==
  ASSUME NEW s \in Segment, NEW b \in Buckets, NEW id \in ActiveIds, NEW t,
         t = EvictBucketFinishAndTryFree(s, b, id)
  PROVE  Finished(s, t, b, id)
<1> DEFINE wa(x) == [x EXCEPT !.evictFile = NoFile, !.blk = InvalidBlockId, !.stolen = FALSE]
           act == ClearEvictInfo(s, id)
<1>1. /\ s.bkt \in [Buckets -> ShareMemBucket] /\ s.act \in [ActiveIds -> ShareMemActiveStatus]
      /\ s.act[id] \in ShareMemActiveStatus
  BY SegmentFields
<1>2. t \in Segment
  BY ResetTyped, EvictBucketFinishKeeps DEF EvictBucketFinishAndTryFree, Counters, Keeps
<1>3. act[id] = wa(s.act[id]) /\ \A i \in ActiveIds : i # id => act[i] = s.act[i]
  BY <1>1, Zenon DEF ClearEvictInfo
<1>4. ASSUME NEW x \in ShareMemActiveStatus PROVE wa(x).used = x.used
  BY DEF ShareMemActiveStatus
<1> HIDE DEF wa, act
<1>5. t.act = act /\ t.bkt = IF s.act[id].stolen THEN s.bkt ELSE [s.bkt EXCEPT ![b] = ResetBucket]
  BY DEF EvictBucketFinishAndTryFree, EvictBucketFinish, act, Segment
<1> QED
  BY <1>1, <1>2, <1>3, <1>4, <1>5 DEF Finished
=============================================================================
