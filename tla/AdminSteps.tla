----------------------------- MODULE AdminSteps ------------------------------
(***************************************************************************)
(* The inductive invariant of AdminActiveStatus, and that the steps of the *)
(* file's handle keep it.                                                  *)
(*                                                                         *)
(* The invariant says what ties the handle, the administrators and the     *)
(* sweep to the segment: an active block of the handle has its bucket      *)
(* (BlocksHeld, SpareHeld), a used bucket is held by nobody and a free one *)
(* has no block (Settled), administrators have slots of their own (Slots), *)
(* and a victim is being evicted by the administrator that chose it until  *)
(* the owner tells otherwise (Victims).                                    *)
(***************************************************************************)
EXTENDS AdminActiveStatus, SharedMemoryProofs

BlockInfo == [bucket : Buckets, active : BOOLEAN, count : 0 .. MaxTouches]

HandleTyped(hh) ==
  hh \in [id : AnyId, spare : Buckets \cup {InvalidBucketId}, blocks : Seq(BlockInfo), steals : Nat]

AdminRecord == [pc : AdminStates, id : AnyId, bucket : Buckets \cup {InvalidBucketId},
                blk : Int, rounds : Nat, evicted : Nat]

AdminTyped(ad) == ad \in [Admins -> AdminRecord]

BlocksHeld(s, hh) ==
  \A i \in DOMAIN hh.blocks : hh.blocks[i].active =>
    s.bkt[hh.blocks[i].bucket].type = "active" /\ s.bkt[hh.blocks[i].bucket].blk = i

SpareHeld(s, hh) ==
  hh.spare # InvalidBucketId =>
    /\ s.bkt[hh.spare].type = "active" /\ s.bkt[hh.spare].file = TheFile
    /\ s.bkt[hh.spare].blk = InvalidBlockId

Slots(s, ad) ==
  /\ \A a \in Admins : ad[a].pc # "none" => ad[a].id \in ActiveIds /\ s.act[ad[a].id].used
  /\ \A a, c \in Admins : a # c /\ ad[a].pc # "none" /\ ad[c].pc # "none" => ad[a].id # ad[c].id

Evicting(ad) == ad.pc \in {"write", "finish"}

Victims(s, ad) ==
  \A a \in Admins : Evicting(ad[a]) =>
    /\ ad[a].bucket \in Buckets
    /\ s.act[ad[a].id].stolen \/ Evicts(s, ad[a].id, ad[a].bucket, ad[a].blk)

AdminInv ==
  /\ shm \in Segment /\ UsedIsEvictable /\ HandleTyped(h) /\ AdminTyped(admin)
  /\ BlocksHeld(shm, h) /\ SpareHeld(shm, h) /\ Settled(shm)
  /\ Slots(shm, admin) /\ Victims(shm, admin)

-----------------------------------------------------------------------------
(* Steps *)

\* registAdmin writes its own slot only.
LEMMA RegistAdminEffect ==
  ASSUME NEW s \in Segment, FreeSlot(s) # InvalidActiveId
  PROVE  /\ RegistAdmin(s) \in Segment /\ RegistAdmin(s).bkt = s.bkt
         /\ RegistAdmin(s).act[FreeSlot(s)].used
         /\ \A i \in ActiveIds : i # FreeSlot(s) => RegistAdmin(s).act[i] = s.act[i]
<1> DEFINE m == FreeSlot(s)
           act == [s.act EXCEPT ![m].used = TRUE]
<1>1. m \in ActiveIds
  BY FreeSlotFree
<1>2. RegistAdmin(s) = [s EXCEPT !.act = act]
  BY DEF RegistAdmin
<1>3. s.act \in [ActiveIds -> ShareMemActiveStatus]
  BY SegmentFields
<1> HIDE DEF m
<1>4. act \in [ActiveIds -> ShareMemActiveStatus]
  <2>1. ASSUME NEW x \in ShareMemActiveStatus
        PROVE  [x EXCEPT !.used = TRUE] \in ShareMemActiveStatus
    BY Zenon DEF ShareMemActiveStatus
  <2> QED
    BY <2>1, <1>3, Zenon
<1>5. act[m].used
  BY <1>1, <1>3 DEF ShareMemActiveStatus
<1>6. \A i \in ActiveIds : i # m => act[i] = s.act[i]
  BY <1>1, <1>3
<1> HIDE DEF act
<1>7. /\ [s EXCEPT !.act = act] \in Segment /\ [s EXCEPT !.act = act].bkt = s.bkt
      /\ [s EXCEPT !.act = act].act = act
  BY <1>4 DEF Segment
<1> QED
  BY <1>2, <1>5, <1>6, <1>7 DEF m

\* What can be evicted depends on type and evicting bit only.
LEMMA EvictableSame ==
  ASSUME NEW s, NEW t, \A b \in Buckets : /\ t.bkt[b].type = "used" <=> s.bkt[b].type = "used"
                                          /\ t.bkt[b].evicting = s.bkt[b].evicting
                                             \/ s.bkt[b].type # "used"
  PROVE  Evictable(t) = Evictable(s)
BY DEF Evictable

\* The first state: nothing is open.
LEMMA AdminInit == Init => AdminInv
<1> SUFFICES ASSUME Init PROVE AdminInv
  OBVIOUS
<1>1. /\ ResetBucket.type = "free" /\ ResetBucket.blk = InvalidBlockId
      /\ ResetBucket \in ShareMemBucket
  BY ResetTyped DEF ResetBucket
<1>2. /\ shm \in Segment /\ \A b \in Buckets : shm.bkt[b] = ResetBucket
  <2>1. [k \in Counters |-> IF k = "free" THEN NumBuckets ELSE 0] \in ShareMemHeader
    BY NumBucketsAssumption DEF ShareMemHeader
  <2> QED
    BY <2>1, ResetTyped DEF Init, ResetSegment, Segment
<1>3. UsedIsEvictable /\ Settled(shm)
  BY <1>1, <1>2 DEF Init, CSInit, UsedIsEvictable, Evictable, Settled
<1>4. HandleTyped(h) /\ BlocksHeld(shm, h) /\ SpareHeld(shm, h)
  BY DEF Init, HandleTyped, BlocksHeld, SpareHeld, AnyId
<1>5. AdminTyped(admin) /\ Slots(shm, admin) /\ Victims(shm, admin)
  BY DEF Init, AdminTyped, AdminRecord, NewAdmin, AdminStates, Slots, Victims, Evicting, AnyId, InvalidBlockId
<1> QED
  BY <1>2, <1>3, <1>4, <1>5 DEF AdminInv

\* The invariant after a step, conjunct by conjunct.
LEMMA AdminInvAfter ==
  ASSUME shm' \in Segment, used' = Evictable(shm'), HandleTyped(h'), AdminTyped(admin'),
         BlocksHeld(shm', h'), SpareHeld(shm', h'), Settled(shm'),
         Slots(shm', admin'), Victims(shm', admin')
  PROVE  AdminInv'
BY DEF AdminInv, UsedIsEvictable, HandleTyped, AdminTyped, BlocksHeld, SpareHeld, Settled, Slots,
       Victims, Evicts, Evicting

\* An operation that only writes a slot m of no administrator.
LEMMA OtherSlot ==
  ASSUME NEW s \in Segment, NEW t \in Segment, t.bkt = s.bkt, NEW m, NEW hh, NEW ad,
         \A i \in ActiveIds : i # m => t.act[i] = s.act[i],
         \A a \in Admins : ad[a].pc # "none" => ad[a].id # m,
         BlocksHeld(s, hh), SpareHeld(s, hh), Settled(s), Slots(s, ad), Victims(s, ad)
  PROVE  /\ BlocksHeld(t, hh) /\ SpareHeld(t, hh) /\ Settled(t) /\ Slots(t, ad) /\ Victims(t, ad)
         /\ Evictable(t) = Evictable(s)
<1>1. BlocksHeld(t, hh) /\ SpareHeld(t, hh) /\ Settled(t) /\ Evictable(t) = Evictable(s)
  BY ZenonT(40) DEF BlocksHeld, SpareHeld, Settled, Evictable
<1>2. \A a \in Admins : ad[a].pc # "none" => t.act[ad[a].id] = s.act[ad[a].id]
  BY DEF Slots
<1>3. Slots(t, ad)
  BY <1>2 DEF Slots
<1>4. Victims(t, ad)
  <2> SUFFICES ASSUME NEW a \in Admins, Evicting(ad[a])
               PROVE  /\ ad[a].bucket \in Buckets
                      /\ t.act[ad[a].id].stolen \/ Evicts(t, ad[a].id, ad[a].bucket, ad[a].blk)
    BY Zenon DEF Victims
  <2>1. t.act[ad[a].id] = s.act[ad[a].id]
    BY <1>2 DEF Evicting
  <2> QED
    BY <2>1, Zenon DEF Victims, Evicts
<1> QED
  BY <1>1, <1>3, <1>4

\* An operation that writes no slot, and of the buckets turns some that are not used active.
LEMMA OtherBuckets ==
  ASSUME NEW s, NEW t, t.act = s.act, NEW ad,
         \A b \in Buckets : \/ t.bkt[b] = s.bkt[b]
                            \/ s.bkt[b].type # "used" /\ t.bkt[b].type = "active",
         Settled(s), Slots(s, ad), Victims(s, ad)
  PROVE  Settled(t) /\ Slots(t, ad) /\ Victims(t, ad) /\ Evictable(t) = Evictable(s)
<1>1. Settled(t) /\ Evictable(t) = Evictable(s)
  BY DEF Settled, Evictable
<1>2. Slots(t, ad)
  BY DEF Slots
<1>3. Victims(t, ad)
  <2> SUFFICES ASSUME NEW a \in Admins, Evicting(ad[a])
               PROVE  /\ ad[a].bucket \in Buckets
                      /\ t.act[ad[a].id].stolen \/ Evicts(t, ad[a].id, ad[a].bucket, ad[a].blk)
    BY Zenon DEF Victims
  <2>1. s.bkt[ad[a].bucket].type = "used" => t.bkt[ad[a].bucket] = s.bkt[ad[a].bucket]
    BY DEF Victims
  <2>2. CASE Evicts(s, ad[a].id, ad[a].bucket, ad[a].blk)
    BY <2>1, <2>2 DEF Evicts, Victims
  <2> QED
    BY <2>2, Zenon DEF Victims
<1> QED
  BY <1>1, <1>2, <1>3

\* The entries of the handle's block array.
LEMMA BlockOf ==
  ASSUME NEW hh, HandleTyped(hh), NEW i \in DOMAIN hh.blocks
  PROVE  hh.blocks[i] \in BlockInfo /\ i \in Nat
<1>1. hh.blocks \in Seq(BlockInfo)
  BY DEF HandleTyped
<1> QED
  BY <1>1

\* Their fields.
LEMMA BlocksTyped ==
  ASSUME NEW hh, HandleTyped(hh), NEW i \in DOMAIN hh.blocks
  PROVE  /\ i \in Nat /\ hh.blocks[i].bucket \in Buckets /\ hh.blocks[i].active \in BOOLEAN
         /\ hh.blocks[i].count \in 0 .. MaxTouches
<1>1. hh.blocks[i] \in BlockInfo /\ i \in Nat
  BY BlockOf, Zenon
<1> QED
  BY <1>1 DEF BlockInfo

\* The one file of the model.
LEMMA TheFileIsFile == TheFile \in Files
BY AdminAssumption DEF TheFile

\* Registering a handle.
LEMMA RegistStep == ASSUME AdminInv, Regist PROVE AdminInv' /\ UNCHANGED cvars
<1> DEFINE m == FreeSlot(shm)
<1>1. shm' = RegistFile(shm, TheFile, FALSE) /\ used' = Evictable(shm') /\ admin' = admin
  BY DEF Regist, Commit
<1>2. shm \in Segment /\ shm' \in Segment
  BY <1>1, TheFileIsFile, RegistFileKeeps, Zenon DEF AdminInv, Keeps
<1>3. m \in ActiveIds /\ ~shm.act[m].used
  BY FreeSlotFree DEF Regist
<1>4. h' = [h EXCEPT !.id = m] /\ HandleTyped(h)
  BY DEF Regist, AdminInv
<1>5. HandleTyped(h') /\ h'.blocks = h.blocks /\ h'.spare = h.spare
  BY <1>3, <1>4 DEF HandleTyped, AnyId
<1>6. /\ shm'.bkt = shm.bkt /\ \A i \in ActiveIds : i # m => shm'.act[i] = shm.act[i]
  <2>1. /\ RegistFile(shm, TheFile, FALSE).bkt = shm.bkt
        /\ \A i \in ActiveIds : i # m => RegistFile(shm, TheFile, FALSE).act[i] = shm.act[i]
    BY <1>2, RegistEffect, Zenon
  <2> QED
    BY <1>1, <2>1, Zenon
<1> HIDE DEF m
<1>7. \A a \in Admins : admin[a].pc # "none" => admin[a].id # m
  BY <1>3 DEF AdminInv, Slots
<1>8. /\ BlocksHeld(shm', h) /\ SpareHeld(shm', h) /\ Settled(shm')
      /\ Slots(shm', admin) /\ Victims(shm', admin) /\ Evictable(shm') = Evictable(shm)
  BY <1>2, <1>6, <1>7, OtherSlot, Zenon DEF AdminInv
<1>9. BlocksHeld(shm', h') /\ SpareHeld(shm', h')
  <2>1. BlocksHeld(shm', h')
    BY <1>5, <1>8, Zenon DEF BlocksHeld
  <2>2. SpareHeld(shm', h')
    BY <1>5, <1>8, Zenon DEF SpareHeld
  <2> QED
    BY <2>1, <2>2
<1>10. AdminInv'
  BY <1>1, <1>2, <1>5, <1>8, <1>9, AdminInvAfter, Zenon DEF AdminInv
<1>11. UNCHANGED cvars
  BY <1>1, <1>8, Zenon DEF Regist, NoSweep, cvars, AdminInv, UsedIsEvictable
<1> QED
  BY <1>10, <1>11

\* A pre-allocated bucket.
LEMMA AcquireStep == ASSUME AdminInv, AcquireNewBlock PROVE AdminInv' /\ UNCHANGED cvars
<1>1. /\ shm' = AcquireFreeBucket(shm, h.id, 1, TheFile) /\ used' = Evictable(shm')
      /\ admin' = admin /\ shm \in Segment /\ HandleTyped(h) /\ h.id \in AnyId
  BY DEF AcquireNewBlock, Commit, AdminInv, HandleTyped
<1>2. shm' \in Segment
  BY <1>1, TheFileIsFile, AcquireFreeBucketKeeps DEF Keeps, AnyFile
<1>3. PICK b \in AcquiredBuckets(shm, 1) : h' = [h EXCEPT !.spare = b]
  BY DEF AcquireNewBlock
<1>4. /\ shm'.act = shm.act /\ AcquiredBuckets(shm, 1) \subseteq FreeBuckets(shm)
      /\ \A x \in Buckets : IF x \in AcquiredBuckets(shm, 1)
                            THEN /\ shm'.bkt[x].type = "active" /\ shm'.bkt[x].file = TheFile
                                 /\ shm'.bkt[x].blk = shm.bkt[x].blk
                            ELSE shm'.bkt[x] = shm.bkt[x]
  BY <1>1, AcquireEffect
<1>5. \A x \in AcquiredBuckets(shm, 1) : x \in Buckets /\ shm.bkt[x].type = "free"
  BY <1>4 DEF FreeBuckets
<1>6. HandleTyped(h') /\ h'.blocks = h.blocks /\ h'.spare = b
  BY <1>1, <1>3, <1>5 DEF HandleTyped
<1>7. /\ Settled(shm') /\ Slots(shm', admin) /\ Victims(shm', admin)
      /\ Evictable(shm') = Evictable(shm)
  BY <1>4, <1>5, OtherBuckets DEF AdminInv
<1>8. \A i \in DOMAIN h.blocks : h.blocks[i].bucket \in Buckets
  BY <1>1, BlocksTyped
<1>9. BlocksHeld(shm', h')
  <2>1. ASSUME NEW i \in DOMAIN h.blocks, h.blocks[i].active
        PROVE  /\ shm'.bkt[h.blocks[i].bucket].type = "active"
               /\ shm'.bkt[h.blocks[i].bucket].blk = i
    <3> DEFINE x == h.blocks[i].bucket
    <3>1. x \in Buckets /\ shm.bkt[x].type = "active" /\ shm.bkt[x].blk = i
      BY <1>8, <2>1, Zenon DEF AdminInv, BlocksHeld
    <3>2. x \notin AcquiredBuckets(shm, 1)
      BY <1>5, <3>1, Zenon
    <3> QED
      BY <1>4, <3>1, <3>2, Zenon
  <2> QED
    BY <1>6, <2>1, Zenon DEF BlocksHeld
<1>10. SpareHeld(shm', h')
  BY <1>3, <1>4, <1>5, <1>6 DEF AdminInv, Settled, SpareHeld
<1>11. AdminInv'
  BY <1>1, <1>2, <1>6, <1>7, <1>9, <1>10, AdminInvAfter DEF AdminInv
<1>12. UNCHANGED cvars
  BY <1>1, <1>7 DEF AcquireNewBlock, NoSweep, cvars, AdminInv, UsedIsEvictable
<1> QED
  BY <1>11, <1>12

\* A new block in the pre-allocated bucket.
LEMMA ExtendStep == ASSUME AdminInv, ExtendOneBlock PROVE AdminInv' /\ UNCHANGED cvars
<1> DEFINE b == h.spare
           k == Len(h.blocks) + 1
           new == [bucket |-> b, active |-> TRUE, count |-> 0]
<1>1. /\ shm' = UpdateActiveFileInfo(shm, b, k, TheFile) /\ used' = Evictable(shm')
      /\ admin' = admin /\ shm \in Segment /\ HandleTyped(h)
      /\ h' = [h EXCEPT !.spare = InvalidBucketId, !.blocks = Append(@, new)]
  BY DEF ExtendOneBlock, Commit, AdminInv
<1>2. b \in Buckets /\ h.blocks \in Seq(BlockInfo)
  BY <1>1 DEF ExtendOneBlock, HandleTyped
<1>3. /\ shm.bkt[b].type = "active" /\ shm.bkt[b].file = TheFile
      /\ \A i \in DOMAIN h.blocks : h.blocks[i].active => h.blocks[i].bucket # b
  <2>1. /\ shm.bkt[b].type = "active" /\ shm.bkt[b].file = TheFile
        /\ shm.bkt[b].blk = InvalidBlockId
    BY Zenon DEF ExtendOneBlock, AdminInv, SpareHeld
  <2>2. ASSUME NEW i \in DOMAIN h.blocks, h.blocks[i].active PROVE h.blocks[i].bucket # b
    <3>1. shm.bkt[h.blocks[i].bucket].blk = i
      BY <2>2, Zenon DEF AdminInv, BlocksHeld
    <3>2. i \in Nat
      BY <1>1, BlocksTyped, Zenon
    <3>3. i # InvalidBlockId
      BY <3>2 DEF InvalidBlockId
    <3> QED
      BY <2>1, <3>1, <3>3, Zenon
  <2> QED
    BY <2>1, <2>2, Zenon
<1>4. new \in BlockInfo
  BY <1>2, AdminAssumption DEF BlockInfo
<1> HIDE DEF new
<1>5. /\ Append(h.blocks, new) \in Seq(BlockInfo) /\ k \in Int
      /\ DOMAIN Append(h.blocks, new) = DOMAIN h.blocks \cup {k}
      /\ Append(h.blocks, new)[k] = new
      /\ \A i \in DOMAIN h.blocks : Append(h.blocks, new)[i] = h.blocks[i] /\ i # k
  BY <1>2, <1>4
<1>6. HandleTyped(h') /\ h'.spare = InvalidBucketId /\ h'.blocks = Append(h.blocks, new)
  BY <1>1, <1>5, Zenon DEF HandleTyped
<1>7. shm' \in Segment
  BY <1>1, <1>5, UpdateActiveFileInfoKeeps DEF Keeps
<1> HIDE DEF b, k
<1>8. /\ shm'.act = shm.act /\ \A x \in Buckets : x # b => shm'.bkt[x] = shm.bkt[x]
      /\ shm'.bkt[b].type = "active" /\ shm'.bkt[b].blk = k
  <2>1. shm.bkt \in [Buckets -> ShareMemBucket]
    BY <1>1, SegmentFields
  <2>2. shm' = [shm EXCEPT !.bkt = [shm.bkt EXCEPT ![b].blk = k]]
    BY <1>1, <1>3 DEF UpdateActiveFileInfo
  <2>3. shm'.act = shm.act /\ shm'.bkt = [shm.bkt EXCEPT ![b].blk = k]
    BY <1>1, <2>2 DEF Segment
  <2>4. ASSUME NEW x \in ShareMemBucket
        PROVE  [x EXCEPT !.blk = k].type = x.type /\ [x EXCEPT !.blk = k].blk = k
    BY DEF ShareMemBucket
  <2>5. /\ shm'.bkt[b] = [shm.bkt[b] EXCEPT !.blk = k]
        /\ \A x \in Buckets : x # b => shm'.bkt[x] = shm.bkt[x]
    BY <1>2, <2>1, <2>3
  <2> QED
    BY <1>2, <1>3, <2>1, <2>3, <2>4, <2>5
<1>9. /\ Settled(shm') /\ Slots(shm', admin) /\ Victims(shm', admin)
      /\ Evictable(shm') = Evictable(shm)
  BY <1>3, <1>8, OtherBuckets DEF AdminInv
<1>10. BlocksHeld(shm', h')
  <2>1. \A i \in DOMAIN h.blocks : h.blocks[i].bucket \in Buckets
    BY <1>1, BlocksTyped
  <2>2. new.bucket = b
    BY DEF new
  <2>3. ASSUME NEW i \in DOMAIN h'.blocks, h'.blocks[i].active
        PROVE  /\ shm'.bkt[h'.blocks[i].bucket].type = "active"
               /\ shm'.bkt[h'.blocks[i].bucket].blk = i
    <3>1. CASE i = k
      BY <1>5, <1>6, <1>8, <2>2, <3>1, Zenon
    <3>2. CASE i \in DOMAIN h.blocks
      <4>1. h'.blocks[i] = h.blocks[i]
        BY <1>5, <1>6, <3>2, Zenon
      <4>2. shm.bkt[h.blocks[i].bucket].type = "active" /\ shm.bkt[h.blocks[i].bucket].blk = i
        BY <2>3, <3>2, <4>1, Zenon DEF AdminInv, BlocksHeld
      <4>3. shm'.bkt[h.blocks[i].bucket] = shm.bkt[h.blocks[i].bucket]
        BY <1>3, <1>8, <2>1, <2>3, <3>2, <4>1, Zenon
      <4> QED
        BY <4>1, <4>2, <4>3, Zenon
    <3> QED
      BY <1>5, <1>6, <2>3, <3>1, <3>2, Zenon
  <2> QED
    BY <2>3, Zenon DEF BlocksHeld
<1>11. SpareHeld(shm', h')
  BY <1>6 DEF SpareHeld
<1>12. AdminInv'
  BY <1>1, <1>6, <1>7, <1>9, <1>10, <1>11, AdminInvAfter DEF AdminInv
<1>13. UNCHANGED cvars
  BY <1>1, <1>9 DEF ExtendOneBlock, NoSweep, cvars, AdminInv, UsedIsEvictable
<1> QED
  BY <1>12, <1>13

Edited(hh, i, e, g) ==
  /\ HandleTyped(g) /\ g.id = hh.id /\ g.spare = hh.spare
  /\ DOMAIN g.blocks = DOMAIN hh.blocks /\ g.blocks[i] = e
  /\ \A j \in DOMAIN hh.blocks : j # i => g.blocks[j] = hh.blocks[j]

\* One entry of the block array changes, and perhaps the count of steals.
LEMMA BlockEdit ==
  ASSUME NEW hh, HandleTyped(hh), NEW i \in DOMAIN hh.blocks, NEW e \in BlockInfo, NEW n \in Nat,
         NEW g, g = [hh EXCEPT !.blocks = [hh.blocks EXCEPT ![i] = e], !.steals = n]
  PROVE  Edited(hh, i, e, g)
<1> DEFINE edited == [hh.blocks EXCEPT ![i] = e]
<1>1. hh.blocks \in Seq(BlockInfo)
  BY DEF HandleTyped
<1>2. /\ edited \in Seq(BlockInfo) /\ DOMAIN edited = DOMAIN hh.blocks /\ edited[i] = e
      /\ \A j \in DOMAIN hh.blocks : j # i => edited[j] = hh.blocks[j]
  BY <1>1
<1> HIDE DEF edited
<1>3. g = [hh EXCEPT !.blocks = edited, !.steals = n]
  BY DEF edited
<1>4. /\ g.blocks = edited /\ g.id = hh.id /\ g.spare = hh.spare /\ HandleTyped(g)
  BY <1>2, <1>3, Zenon DEF HandleTyped
<1> QED
  BY <1>2, <1>4 DEF Edited

\* A count that stays below the limit does not wrap.
LEMMA WrapSmall == ASSUME NEW n \in 0 .. CountLimit - 1 PROVE Wrap(n) = n
<1>1. CountLimit \in Nat /\ CountLimit > 0
  BY CountLimitAssumption
<1>2. n + CountLimit \in 0 .. 2 * CountLimit - 1
  BY <1>1
<1>3. (n + CountLimit) % (2 * CountLimit) = n + CountLimit
  BY <1>1, <1>2
<1> QED
  BY <1>1, <1>3 DEF Wrap

\* An access that the handle counts.
LEMMA TouchStep ==
  ASSUME AdminInv, NEW i \in 1 .. MaxBlocks, Touch(i) PROVE AdminInv' /\ UNCHANGED cvars
<1> DEFINE old == h.blocks[i]
           e == [old EXCEPT !.count = Wrap(old.count + 1)]
<1>1. /\ i \in DOMAIN h.blocks /\ old.count < MaxTouches /\ HandleTyped(h)
      /\ UNCHANGED <<shm, admin, cvars>>
  BY DEF Touch, AdminInv
<1>2. old \in BlockInfo /\ old.count \in 0 .. MaxTouches /\ h.steals \in Nat
  <2>1. h.blocks \in Seq(BlockInfo) /\ h.steals \in Nat
    BY <1>1 DEF HandleTyped
  <2> QED
    BY <1>1, <2>1, BlocksTyped
<1>3. Wrap(old.count + 1) \in 0 .. MaxTouches
  <2>1. old.count + 1 \in 0 .. MaxTouches /\ old.count + 1 \in 0 .. CountLimit - 1
    BY <1>1, <1>2, AdminAssumption, CountLimitAssumption
  <2> QED
    BY <2>1, WrapSmall
<1>4. e \in BlockInfo /\ e.bucket = old.bucket /\ e.active = old.active
  BY <1>2, <1>3 DEF BlockInfo
<1>5. h' = [h EXCEPT !.blocks = [h.blocks EXCEPT ![i] = e], !.steals = h.steals]
  BY <1>1, Zenon DEF Touch, HandleTyped
<1> HIDE DEF e
<1>6. Edited(h, i, e, h')
  BY <1>1, <1>2, <1>4, <1>5, BlockEdit, Zenon
<1>7. BlocksHeld(shm', h') /\ SpareHeld(shm', h')
  <2>1. shm' = shm /\ BlocksHeld(shm, h) /\ SpareHeld(shm, h)
    BY <1>1, Zenon DEF AdminInv
  <2>2. DOMAIN h'.blocks = DOMAIN h.blocks /\ h'.spare = h.spare /\ h'.blocks[i] = e
    BY <1>6, Zenon DEF Edited
  <2>3. ASSUME NEW j \in DOMAIN h.blocks
        PROVE  h'.blocks[j].bucket = h.blocks[j].bucket /\ h'.blocks[j].active = h.blocks[j].active
    <3>1. CASE j = i
      BY <1>4, <2>2, <3>1, Zenon
    <3>2. CASE j # i
      BY <1>6, <3>2, Zenon DEF Edited
    <3> QED
      BY <3>1, <3>2
  <2>4. ASSUME NEW j \in DOMAIN h.blocks, h'.blocks[j].active
        PROVE  /\ shm'.bkt[h'.blocks[j].bucket].type = "active"
               /\ shm'.bkt[h'.blocks[j].bucket].blk = j
    <3>1. h'.blocks[j].bucket = h.blocks[j].bucket /\ h.blocks[j].active
      BY <2>3, <2>4, Zenon
    <3> QED
      BY <2>1, <3>1, Zenon DEF BlocksHeld
  <2>5. BlocksHeld(shm', h')
    BY <2>2, <2>4, Zenon DEF BlocksHeld
  <2>6. SpareHeld(shm', h')
    BY <2>1, <2>2, Zenon DEF SpareHeld
  <2> QED
    BY <2>5, <2>6
<1>8. AdminInv'
  BY <1>1, <1>6, <1>7, AdminInvAfter DEF AdminInv, UsedIsEvictable, cvars, Edited
<1> QED
  BY <1>1, <1>8

\* A bucket that was let go: the segment keeps its part of the invariant, and the bucket can
\* be evicted if it is used now.
LEMMA ReleasedKeeps ==
  ASSUME NEW s, NEW t, NEW b \in Buckets, NEW ad, Released(s, t, b), s.bkt[b].type = "active",
         Settled(s), Slots(s, ad), Victims(s, ad)
  PROVE  /\ Settled(t) /\ Slots(t, ad) /\ Victims(t, ad)
         /\ b \notin Evictable(s) /\ Evictable(t) \in {Evictable(s), Evictable(s) \cup {b}}
<1>1. Settled(t)
  BY DEF Settled, Released
<1>2. Slots(t, ad)
  BY DEF Slots, Released
<1>3. Victims(t, ad)
  BY ZenonT(40) DEF Victims, Evicts, Released
<1>4. b \notin Evictable(s) /\ Evictable(t) \in {Evictable(s), Evictable(s) \cup {b}}
  BY DEF Evictable, Released
<1> QED
  BY <1>1, <1>2, <1>3, <1>4

\* The handle still has the buckets of its other active blocks.
LEMMA ReleasedHolds ==
  ASSUME NEW s, NEW t, NEW hh, HandleTyped(hh), NEW i \in DOMAIN hh.blocks, NEW e, NEW g,
         Edited(hh, i, e, g), e.active = FALSE, hh.blocks[i].active,
         Released(s, t, hh.blocks[i].bucket), BlocksHeld(s, hh), SpareHeld(s, hh)
  PROVE  BlocksHeld(t, g) /\ SpareHeld(t, g)
<1> DEFINE b == hh.blocks[i].bucket
<1>1. /\ \A j \in DOMAIN hh.blocks : j \in Nat /\ hh.blocks[j].bucket \in Buckets
      /\ hh.spare # InvalidBucketId => hh.spare \in Buckets
  BY BlocksTyped DEF HandleTyped
<1>2. s.bkt[b].type = "active" /\ s.bkt[b].blk = i
  BY DEF BlocksHeld
<1> HIDE DEF b
<1>3. \A x \in Buckets : x # b => t.bkt[x] = s.bkt[x]
  BY DEF Released, b
<1>4. BlocksHeld(t, g)
  <2>1. ASSUME NEW j \in DOMAIN hh.blocks, g.blocks[j].active
        PROVE  t.bkt[g.blocks[j].bucket].type = "active" /\ t.bkt[g.blocks[j].bucket].blk = j
    <3>1. j # i /\ g.blocks[j] = hh.blocks[j]
      BY <2>1, Zenon DEF Edited
    <3>2. s.bkt[hh.blocks[j].bucket].type = "active" /\ s.bkt[hh.blocks[j].bucket].blk = j
      BY <2>1, <3>1, Zenon DEF BlocksHeld
    <3>3. hh.blocks[j].bucket # b
      BY <1>2, <3>1, <3>2, Zenon
    <3> QED
      BY <1>1, <1>3, <3>1, <3>2, <3>3, Zenon
  <2> QED
    BY <2>1, Zenon DEF BlocksHeld, Edited
<1>5. SpareHeld(t, g)
  BY <1>1, <1>2, <1>3 DEF SpareHeld, Edited, InvalidBlockId
<1> QED
  BY <1>4, <1>5

\* A block that the handle lets go.
LEMMA InactivateStep ==
  ASSUME AdminInv, NEW i \in 1 .. MaxBlocks, Inactivate(i)
  PROVE  AdminInv' /\ \E b \in Buckets : \E n \in Counts : AddUsage(b, n)
<1> DEFINE b == h.blocks[i].bucket
           n == h.blocks[i].count
           list == <<[blk |-> i, bucket |-> b]>>
           e == [h.blocks[i] EXCEPT !.active = FALSE]
<1>1. /\ i \in DOMAIN h.blocks /\ h.blocks[i].active /\ HandleTyped(h) /\ shm \in Segment
      /\ shm' = InactivateBuckets(shm, list, TheFile, h.id) /\ used' = Evictable(shm')
      /\ usage' = [usage EXCEPT ![b] = Wrap(usage[b] + n)] /\ admin' = admin /\ pc = "idle"
      /\ UNCHANGED <<hand, tries, pc, start>>
  BY DEF Inactivate, AdminInv, Commit, NoSweep, Counted, Unlocked
<1>2. b \in Buckets /\ n \in 0 .. MaxTouches /\ n \in Counts /\ h.id \in AnyId
  <2>1. b \in Buckets /\ n \in 0 .. MaxTouches
    BY <1>1, BlocksTyped
  <2>2. n \in Counts
    BY <2>1, AdminAssumption, CountLimitAssumption DEF Counts
  <2> QED
    BY <1>1, <2>1, <2>2 DEF HandleTyped
<1>3. shm.bkt[b].type = "active" /\ shm.bkt[b].blk = i
  BY <1>1 DEF AdminInv, BlocksHeld
<1>4. e \in BlockInfo /\ e.bucket = b /\ e.active = FALSE /\ h.steals \in Nat
  <2>1. h.blocks[i] \in BlockInfo /\ h.steals \in Nat
    <3>1. h.steals \in Nat
      BY <1>1 DEF HandleTyped
    <3> QED
      BY <1>1, <3>1, BlockOf, Zenon
  <2> QED
    BY <2>1, Zenon DEF BlockInfo
<1>5. h' = [h EXCEPT !.blocks = [h.blocks EXCEPT ![i] = e], !.steals = h.steals]
  BY <1>1, Zenon DEF Inactivate, HandleTyped
<1> HIDE DEF e
<1>6. Edited(h, i, e, h')
  BY <1>1, <1>4, <1>5, BlockEdit, Zenon
<1>7. shm' \in Segment
  <2>1. \A j \in DOMAIN list : list[j].blk \in Int
    OBVIOUS
  <2> HIDE DEF list
  <2> QED
    BY <1>1, <1>2, <2>1, TheFileIsFile, InactivateBucketsKeeps, Zenon DEF Keeps, AnyFile
<1> HIDE DEF b, n
<1>8. Released(shm, shm', b)
  BY <1>1, <1>2, <1>3, InactivateEffect
<1> HIDE DEF list
<1>9. /\ Settled(shm') /\ Slots(shm', admin) /\ Victims(shm', admin)
      /\ b \notin Evictable(shm) /\ Evictable(shm') \in {Evictable(shm), Evictable(shm) \cup {b}}
  BY <1>2, <1>3, <1>8, ReleasedKeeps DEF AdminInv
<1>10. BlocksHeld(shm', h') /\ SpareHeld(shm', h')
  BY <1>1, <1>4, <1>6, <1>8, ReleasedHolds, Zenon DEF AdminInv, b
<1>11. AdminInv'
  BY <1>1, <1>6, <1>7, <1>9, <1>10, AdminInvAfter DEF Edited, AdminInv
<1>12. b \notin used /\ used' \in {used, used \cup {b}}
  BY <1>1, <1>9 DEF AdminInv, UsedIsEvictable
<1>13. AddUsage(b, n)
  BY <1>1, <1>12 DEF AddUsage
<1> QED
  BY <1>2, <1>11, <1>13

\* Two sets of buckets that agree on all but one.
LEMMA OneLess ==
  ASSUME NEW S \in SUBSET Buckets, NEW T \in SUBSET Buckets, NEW b, b \in T => b \in S,
         \A x \in Buckets : x # b => (x \in T <=> x \in S)
  PROVE  T = S \/ (b \in S /\ T = S \ {b})
<1>1. CASE b \in S /\ b \notin T
  BY <1>1
<1>2. CASE b \notin S \/ b \in T
  BY <1>2
<1> QED
  BY <1>1, <1>2

\* A bucket that was taken back, or was not: the segment keeps its part of the invariant.
LEMMA RetakenKeeps ==
  ASSUME NEW s, NEW t, NEW b \in Buckets, NEW k, NEW ad, Retaken(s, t, b, k),
         Settled(s), Slots(s, ad), Victims(s, ad)
  PROVE  /\ Settled(t) /\ Slots(t, ad) /\ Victims(t, ad)
         /\ Evictable(t) = Evictable(s) \/ (b \in Evictable(s) /\ Evictable(t) = Evictable(s) \ {b})
<1>1. Settled(t)
  <2>1. ASSUME NEW x \in Buckets
        PROVE  /\ t.bkt[x].type = "used" => NoActiveReadWrite(t.bkt[x].infos)
               /\ t.bkt[x].type = "free" => t.bkt[x].blk = InvalidBlockId
    <3>1. CASE x # b
      <4>1. t.bkt[x] = s.bkt[x]
        BY <3>1, Zenon DEF Retaken
      <4> QED
        BY <4>1, Zenon DEF Settled
    <3>2. CASE x = b
      <4>1. /\ t.bkt[b].type \in {s.bkt[b].type, "active"} /\ t.bkt[b].blk = s.bkt[b].blk
            /\ t.bkt[b].type = "used" => NoActiveReadWrite(t.bkt[b].infos)
        BY Zenon DEF Retaken
      <4>2. s.bkt[b].type = "free" => s.bkt[b].blk = InvalidBlockId
        BY Zenon DEF Settled
      <4> QED
        BY <3>2, <4>1, <4>2, Zenon
    <3> QED
      BY <3>1, <3>2
  <2> QED
    BY <2>1, Zenon DEF Settled
<1>2. Slots(t, ad)
  BY DEF Slots, Retaken
<1>3. ASSUME NEW a \in Admins, Evicting(ad[a])
      PROVE  /\ ad[a].bucket \in Buckets
             /\ t.act[ad[a].id].stolen \/ Evicts(t, ad[a].id, ad[a].bucket, ad[a].blk)
  <2>1. /\ ad[a].bucket \in Buckets /\ ad[a].id \in ActiveIds
        /\ s.act[ad[a].id].stolen \/ Evicts(s, ad[a].id, ad[a].bucket, ad[a].blk)
    BY <1>3 DEF Victims, Slots, Evicting
  <2>2. CASE s.act[ad[a].id].stolen
    BY <2>1, <2>2 DEF Retaken
  <2>3. CASE Evicts(s, ad[a].id, ad[a].bucket, ad[a].blk) /\ ad[a].bucket # b
    BY <2>1, <2>3, Zenon DEF Retaken, Evicts
  <2>4. CASE Evicts(s, ad[a].id, ad[a].bucket, ad[a].blk) /\ ad[a].bucket = b
    <3>1. ad[a].blk = s.bkt[b].blk /\ s.bkt[b].type = "used"
      BY <2>4 DEF Evicts
    <3>2. CASE t.bkt[b].type = "active"
      BY <2>1, <2>4, <3>1, <3>2, Zenon DEF Retaken
    <3>3. CASE t.bkt[b].type = "used"
      BY <2>1, <2>4, <3>3 DEF Retaken, Evicts
    <3>4. t.bkt[b].type \in {s.bkt[b].type, "active"}
      BY DEF Retaken
    <3> QED
      BY <3>1, <3>2, <3>3, <3>4, Zenon
  <2> QED
    BY <2>1, <2>2, <2>3, <2>4, Zenon
<1>4. Victims(t, ad)
  BY <1>3 DEF Victims
<1>5. Evictable(t) = Evictable(s) \/ (b \in Evictable(s) /\ Evictable(t) = Evictable(s) \ {b})
  <2>1. ASSUME NEW x \in Buckets, x # b
        PROVE  x \in Evictable(t) <=> x \in Evictable(s)
    BY <2>1, Zenon DEF Evictable, Retaken
  <2>2. b \in Evictable(t) => b \in Evictable(s)
    <3>1. b \in Evictable(t) => t.bkt[b].type = "used" /\ ~t.bkt[b].evicting
      BY Zenon DEF Evictable
    <3>2. t.bkt[b].type \in {s.bkt[b].type, "active"} /\ t.bkt[b].evicting = s.bkt[b].evicting
      BY Zenon DEF Retaken
    <3>3. s.bkt[b].type = "used" /\ ~s.bkt[b].evicting => b \in Evictable(s)
      BY Zenon DEF Evictable
    <3> QED
      BY <3>1, <3>2, <3>3, Zenon
  <2>3. Evictable(s) \subseteq Buckets /\ Evictable(t) \subseteq Buckets
    BY Zenon DEF Evictable
  <2> QED
    BY <2>1, <2>2, <2>3, OneLess, Zenon
<1> QED
  BY <1>1, <1>2, <1>4, <1>5

\* The handle has the bucket if the call succeeded, and keeps its others.
LEMMA RetakenHolds ==
  ASSUME NEW s, NEW t, NEW hh, HandleTyped(hh), NEW i \in DOMAIN hh.blocks, NEW e, NEW g,
         Edited(hh, i, e, g), e.active => t.ok, e.bucket = hh.blocks[i].bucket,
         Retaken(s, t, hh.blocks[i].bucket, i), BlocksHeld(s, hh), SpareHeld(s, hh)
  PROVE  BlocksHeld(t, g) /\ SpareHeld(t, g)
<1> DEFINE b == hh.blocks[i].bucket
<1>1. /\ \A j \in DOMAIN hh.blocks : hh.blocks[j].bucket \in Buckets
      /\ hh.spare # InvalidBucketId => hh.spare \in Buckets
  BY BlocksTyped DEF HandleTyped
<1>2. Retaken(s, t, b, i) /\ e.bucket = b
  OBVIOUS
<1> HIDE DEF b
<1>3. /\ \A x \in Buckets : x # b => t.bkt[x] = s.bkt[x]
      /\ s.bkt[b].type = "active" => t.bkt[b].type = "active"
      /\ t.bkt[b].file = s.bkt[b].file /\ t.bkt[b].blk = s.bkt[b].blk
      /\ t.ok => t.bkt[b].type = "active" /\ t.bkt[b].blk = i
  BY <1>2 DEF Retaken
<1>4. ASSUME NEW j \in DOMAIN hh.blocks, g.blocks[j].active
      PROVE  t.bkt[g.blocks[j].bucket].type = "active" /\ t.bkt[g.blocks[j].bucket].blk = j
  <2>1. CASE j = i
    BY <1>2, <1>3, <1>4, <2>1 DEF Edited
  <2>2. CASE j # i
    <3>1. g.blocks[j] = hh.blocks[j]
      BY <2>2 DEF Edited
    <3>2. /\ hh.blocks[j].bucket \in Buckets
          /\ s.bkt[hh.blocks[j].bucket].type = "active" /\ s.bkt[hh.blocks[j].bucket].blk = j
      BY <1>1, <1>4, <3>1 DEF BlocksHeld
    <3> QED
      BY <1>3, <3>1, <3>2
  <2> QED
    BY <2>1, <2>2
<1>5. BlocksHeld(t, g)
  BY <1>4 DEF BlocksHeld, Edited
<1>6. SpareHeld(t, g)
  BY <1>1, <1>3 DEF SpareHeld, Edited
<1> QED
  BY <1>5, <1>6

\* A block that the handle takes back.
LEMMA ActivateStep ==
  ASSUME AdminInv, NEW i \in 1 .. MaxBlocks, Activate(i)
  PROVE  AdminInv' /\ (UNCHANGED cvars \/ \E b \in Buckets : Leave(b))
<1> DEFINE b == h.blocks[i].bucket
           n == IF shm.bkt[b].evicting THEN h.steals + 1 ELSE h.steals
           e == [h.blocks[i] EXCEPT !.active = shm'.ok]
<1>1. /\ i \in DOMAIN h.blocks /\ HandleTyped(h) /\ shm \in Segment /\ Settled(shm)
      /\ shm' = ActivateBucket(shm, TheFile, i, b, h.id) /\ used' = Evictable(shm')
      /\ usage' = usage /\ admin' = admin /\ pc = "idle" /\ used = Evictable(shm)
      /\ UNCHANGED <<hand, tries, pc, start>>
  BY DEF Activate, AdminInv, Commit, NoSweep, Unlocked, UsedIsEvictable
<1>2. b \in Buckets /\ h.id \in AnyId
  BY <1>1, BlocksTyped DEF HandleTyped
<1>3. shm' \in Segment
  BY <1>1, <1>2, ActivateBucketKeeps DEF Keeps
<1>4. e \in BlockInfo /\ e.bucket = b /\ e.active = shm'.ok /\ n \in Nat
  <2>1. h.steals \in Nat
    BY <1>1 DEF HandleTyped
  <2>2. h.blocks[i] \in BlockInfo /\ shm'.ok \in BOOLEAN
    <3>1. h.blocks[i] \in BlockInfo
      BY <1>1, BlockOf, Zenon
    <3> QED
      BY <1>3, <3>1, SegmentFields, Zenon
  <2> QED
    BY <2>1, <2>2 DEF BlockInfo
<1>5. h' = [h EXCEPT !.blocks = [h.blocks EXCEPT ![i] = e], !.steals = n]
  BY <1>1 DEF Activate, HandleTyped
<1> HIDE DEF e, n
<1>6. Edited(h, i, e, h')
  BY <1>1, <1>4, <1>5, BlockEdit, Zenon
<1> HIDE DEF b
<1>7. Retaken(shm, shm', b, i)
  BY <1>1, <1>2, ActivateEffect
<1>8. /\ Settled(shm') /\ Slots(shm', admin) /\ Victims(shm', admin)
      /\ \/ Evictable(shm') = Evictable(shm)
         \/ b \in Evictable(shm) /\ Evictable(shm') = Evictable(shm) \ {b}
  BY <1>2, <1>7, RetakenKeeps, Zenon DEF AdminInv
<1>9. BlocksHeld(shm', h') /\ SpareHeld(shm', h')
  <2>1. (e.active => shm'.ok) /\ e.bucket = h.blocks[i].bucket /\ b = h.blocks[i].bucket
    BY <1>4, Zenon DEF b
  <2> QED
    BY <1>1, <1>6, <1>7, <2>1, RetakenHolds DEF AdminInv
<1>10. AdminInv'
  BY <1>1, <1>3, <1>6, <1>8, <1>9, AdminInvAfter DEF Edited, AdminInv
<1>11. used' = used \/ (b \in used /\ used' = used \ {b})
  BY <1>1, <1>8
<1>12. UNCHANGED cvars \/ Leave(b)
  BY <1>1, <1>11 DEF Leave, cvars
<1> QED
  BY <1>2, <1>10, <1>12
=============================================================================
