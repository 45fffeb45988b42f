----------------------------- MODULE QuotaProofs ------------------------------
(* A handle keeps its quota as long as no bucket under eviction is taken back.  The quota   *)
(* alone is not inductive: between two turns of the eviction loop acquireNewBlocks owes the *)
(* buckets it is still going to take, and a turn takes as many free buckets as the header   *)
(* counts.  The invariant therefore counts what is promised with what is held, and uses     *)
(* FreeCounted: a negative count of free buckets would make the loop ask for more.          *)
EXTENDS FileActiveStatusProofs

\* What acquireNewBlocks is still going to take.
Promised(me) == IF me.pc \in {"evict", "loop"} THEN me.need ELSE 0

\* A handle has its quota left for what it is still going to take, and a slot while it is open.
WithinQuota(me) ==
  /\ NumAcquired(me) + Promised(me) <= Quota
  /\ me.pc \in {"evict", "loop"} => me.need >= 1
  /\ me.pc \notin {"none", "purge", "halfclosed"} => me.id \in ActiveIds

\* The inductive invariant.
QuotaInv == \A c \in Clients : WithinQuota(h[c])

\* One handle changes.
LEMMA QuotaChanged ==
  ASSUME IInv, QuotaInv, NEW c \in Clients, NEW x, h' = [h EXCEPT ![c] = x], WithinQuota(x)
  PROVE  QuotaInv'
<1>1. h \in [Clients -> Handle]
  BY DEF IInv, TypeOK
<1>2. \A d \in Clients : WithinQuota(h'[d])
  BY <1>1 DEF QuotaInv
<1> QED
  BY <1>2 DEF QuotaInv, WithinQuota, Promised, NumAcquired

\* A handle of the invariant, with its sizes.
LEMMA QuotaOf ==
  ASSUME IInv, QuotaInv, NEW c \in Clients
  PROVE  /\ GoodHandle(h[c]) /\ h[c] \in Handle /\ WithinQuota(h[c]) /\ NumAcquired(h[c]) <= Quota
         /\ NumAcquired(h[c]) \in Nat /\ IsFiniteSet(h[c].loading)
         /\ h[c].lru \in Seq(Nat) /\ h[c].pre \in Seq(Buckets) /\ h[c].need \in Int
<1>1. GoodHandle(h[c]) /\ WithinQuota(h[c])
  BY Halves DEF Metadata, QuotaInv
<1>2. NumAcquired(h[c]) \in Nat /\ h[c].need \in Int
  BY <1>1, NumAcquiredTyped, HandleFields
<1>3. NumAcquired(h[c]) <= Quota
  BY <1>1, <1>2, QuotaAssumption DEF WithinQuota, Promised
<1> QED
  BY <1>1, <1>2, <1>3, HandleFields DEF GoodHandle, Prepared

\* A thread that stops anywhere but in the eviction loop holds what it held.
LEMMA QuotaParked ==
  ASSUME NEW me, NEW x, Parked(me, x), NumAcquired(me) \in Int, NumAcquired(me) <= Quota,
         me.id \in ActiveIds
  PROVE  WithinQuota(x)
<1>1. NumAcquired(x) = NumAcquired(me) /\ Promised(x) = 0
  BY DEF Parked, NumAcquired, Promised
<1> QED
  BY <1>1 DEF WithinQuota, Parked

\* Such a step, with the lists of me.
LEMMA QuotaStops ==
  ASSUME IInv, QuotaInv, NEW c \in Clients, NEW me, NEW x, Parked(me, x), h' = [h EXCEPT ![c] = x],
         NumAcquired(me) \in Nat, NumAcquired(me) <= Quota, me.id \in ActiveIds
  PROVE  QuotaInv'
<1>1. WithinQuota(x)
  BY QuotaParked
<1> QED
  BY <1>1, QuotaChanged

\* The lists of a handle are replaced.
LEMMA QuotaWith ==
  ASSUME NEW me \in Handle, NEW lru, NEW pre, NEW loading, NEW need
  PROVE  LET x == [me EXCEPT !.lru = lru, !.pre = pre, !.loading = loading, !.need = need]
         IN /\ x.lru = lru /\ x.pre = pre /\ x.loading = loading /\ x.need = need
            /\ x.pc = me.pc /\ x.id = me.id
BY DEF Handle

\* The end of both critical sections of acquireNewBlocks.
LEMMA QuotaNext ==
  ASSUME IInv, QuotaInv, NEW c \in Clients, NEW me \in Handle, NumAcquired(me) \in Nat,
         me.need \in Nat, NumAcquired(me) + me.need <= Quota, me.id \in ActiveIds,
         NEW s, NEW files, AcquireNext(c, me, s, files)
  PROVE  QuotaInv'
<1>1. NumAcquired(me) <= Quota
  BY QuotaAssumption
<1>2. CASE me.need = 0
  <2>1. h' = [h EXCEPT ![c] = Acquired(me)]
    BY <1>2 DEF AcquireNext, Commit
  <2> QED
    BY <1>1, <2>1, ParkedHandles, QuotaStops
<1>3. CASE me.need # 0 /\ Evictable(s) = {}
  <2>1. h' = [h EXCEPT ![c] = Failed(me)]
    BY <1>3 DEF AcquireNext, StartEvict, Commit
  <2> QED
    BY <1>1, <2>1, ParkedHandles, QuotaStops
<1>4. CASE me.need # 0 /\ Evictable(s) # {}
  <2>1. PICK v : h' = [h EXCEPT ![c] = [me EXCEPT !.pc = "evict", !.victim = v]]
    BY <1>4, Zenon DEF AcquireNext, StartEvict, Commit
  <2> DEFINE x == [me EXCEPT !.pc = "evict", !.victim = v]
  <2>2. /\ x.lru = me.lru /\ x.pre = me.pre /\ x.loading = me.loading /\ x.need = me.need
        /\ x.id = me.id /\ x.pc = "evict"
    BY DEF Handle
  <2> HIDE DEF x
  <2>3. NumAcquired(x) = NumAcquired(me) /\ Promised(x) = me.need
    BY <2>2 DEF NumAcquired, Promised
  <2>4. WithinQuota(x)
    BY <1>4, <2>2, <2>3 DEF WithinQuota
  <2> QED
    BY <2>1, <2>4, QuotaChanged DEF x
<1> QED
  BY <1>2, <1>3, <1>4

\* A closed handle holds nothing.
LEMMA QuotaClosed ==
  ASSUME NEW x, x.lru = <<>>, x.pre = <<>>, x.loading = {}, x.pc \in {"none", "purge", "halfclosed"}
  PROVE  WithinQuota(x)
<1>1. NumAcquired(x) = 0
  BY FS_EmptySet DEF NumAcquired
<1> QED
  BY <1>1, QuotaAssumption DEF WithinQuota, Promised

-----------------------------------------------------------------------------
(* The actions *)

\* The constructor opens a handle that holds nothing new.
LEMMA QuotaOpen ==
  ASSUME IInv, QuotaInv, NEW c \in Clients, NEW f, NEW kind, Open(c, f, kind) PROVE QuotaInv'
<1>1. /\ WithinQuota(h[c]) /\ h[c] \in Handle /\ NumAcquired(h[c]) \in Nat /\ NumAcquired(h[c]) <= Quota
      /\ h[c].pc = "none"
  BY QuotaOf DEF Open
<1>2. h' = [h EXCEPT ![c] = IF FreeSlot(shm) = InvalidActiveId THEN h[c]
               ELSE [h[c] EXCEPT !.pc = "idle", !.file = f, !.id = FreeSlot(shm), !.kind = kind]]
  BY Zenon DEF Open, Commit
<1>3. CASE FreeSlot(shm) = InvalidActiveId
  BY <1>1, <1>2, <1>3, QuotaChanged
<1>4. CASE FreeSlot(shm) # InvalidActiveId
  <2> DEFINE i == FreeSlot(shm)
             x == [h[c] EXCEPT !.pc = "idle", !.file = f, !.id = i, !.kind = kind]
  <2>1. i \in ActiveIds
    BY <1>4, FreeSlotTyped
  <2> HIDE DEF i
  <2>2. /\ x.lru = h[c].lru /\ x.pre = h[c].pre /\ x.loading = h[c].loading
        /\ x.id = i /\ x.pc = "idle"
    BY <1>1 DEF Handle
  <2>3. h' = [h EXCEPT ![c] = x]
    BY <1>2, <1>4 DEF i
  <2> HIDE DEF x
  <2>4. NumAcquired(x) = NumAcquired(h[c]) /\ Promised(x) = 0
    BY <2>2 DEF NumAcquired, Promised
  <2>5. WithinQuota(x)
    BY <1>1, <2>1, <2>2, <2>4 DEF WithinQuota
  <2> QED
    BY <2>3, <2>5, QuotaChanged
<1> QED
  BY <1>3, <1>4

\* A client asks for a block it has, or for a new one, or looks whether a load is done.
LEMMA QuotaAccess ==
  ASSUME IInv, QuotaInv, NEW c \in Clients, AccessOld(c) \/ AccessNew(c) \/ Wait(c) PROVE QuotaInv'
<1>1. /\ WithinQuota(h[c]) /\ h[c] \in Handle /\ NumAcquired(h[c]) \in Nat /\ NumAcquired(h[c]) <= Quota
  BY QuotaOf
<1>2. h[c].pc \in {"idle", "wait"}
  BY DEF AccessOld, AccessNew, Wait
<1>3. h[c].id \in ActiveIds
  BY <1>1, <1>2 DEF WithinQuota
<1>4. CASE AccessOld(c)
  <2>1. PICK b : h' = [h EXCEPT ![c] = Settle([h[c] EXCEPT !.cur = b], 0)]
    BY <1>4 DEF AccessOld
  <2> DEFINE me == [h[c] EXCEPT !.cur = b]
  <2>2. /\ me.lru = h[c].lru /\ me.pre = h[c].pre /\ me.loading = h[c].loading /\ me.id = h[c].id
    BY <1>1 DEF Handle
  <2>3. Parked(h[c], Settle(me, 0))
    <3>1. ASSUME NEW k, NEW p \in {"io", "wait", "acquire", "activate"}
          PROVE  Parked(h[c], [me EXCEPT !.ctr = k, !.pc = p])
      BY <1>1 DEF Parked, Handle
    <3> HIDE DEF me
    <3> QED
      BY <3>1 DEF Settle
  <2> QED
    BY <1>1, <1>3, <2>1, <2>3, QuotaStops
<1>5. CASE AccessNew(c)
  <2> DEFINE p == IF h[c].pre = <<>> THEN "acquire" ELSE "extend"
             k == Len(BlocksOf(h[c])) + 1
             x == [h[c] EXCEPT !.cur = k, !.pc = p]
  <2>1. h' = [h EXCEPT ![c] = x]
    BY <1>1, <1>5, Zenon DEF AccessNew
  <2>2. p \in {"acquire", "extend"}
    OBVIOUS
  <2> HIDE DEF p, k
  <2>3. Parked(h[c], x)
    BY <1>1, <2>2 DEF Parked, Handle
  <2> QED
    BY <1>1, <1>3, <2>1, <2>3, QuotaStops
<1>6. CASE Wait(c)
  <2> DEFINE p == IF h[c].pre = <<>> THEN "acquire" ELSE "activate"
             y == [h[c] EXCEPT !.retry = TRUE, !.ctr = 0, !.pc = p]
             z == [h[c] EXCEPT !.pc = "io"]
  <2>1. h' = [h EXCEPT ![c] = y] \/ h' = [h EXCEPT ![c] = z]
    BY <1>6, Zenon DEF Wait
  <2>2. p \in {"acquire", "activate"}
    OBVIOUS
  <2> HIDE DEF p
  <2>3. Parked(h[c], y) /\ Parked(h[c], z)
    BY <1>1, <2>2 DEF Parked, Handle
  <2> QED
    BY <1>1, <1>3, <2>1, <2>3, QuotaStops
<1> QED
  BY <1>4, <1>5, <1>6

\* Transfers, the two ends of writing a victim out, and the deletion of remote objects.
LEMMA QuotaTransfer ==
  ASSUME IInv, QuotaInv, NEW c \in Clients,
         Read(c) \/ Write(c) \/ EvictWrite(c) \/ EvictWriteFails(c) \/ Purge(c)
  PROVE  QuotaInv'
<1>1. /\ WithinQuota(h[c]) /\ h[c] \in Handle /\ NumAcquired(h[c]) \in Nat /\ NumAcquired(h[c]) <= Quota
  BY QuotaOf
<1>2. CASE Read(c) \/ Write(c) \/ EvictWriteFails(c)
  <2>1. h' = [h EXCEPT ![c] = Idle(h[c])] \/ h' = [h EXCEPT ![c] = Failed(h[c])]
    BY <1>2 DEF Read, Write, EvictWriteFails
  <2>2. h[c].id \in ActiveIds
    BY <1>1, <1>2 DEF WithinQuota, Read, Write, EvictWriteFails
  <2> QED
    BY <1>1, <2>1, <2>2, ParkedHandles, QuotaStops
<1>3. CASE EvictWrite(c)
  <2> DEFINE x == [h[c] EXCEPT !.pc = "loop"]
  <2>1. h' = [h EXCEPT ![c] = x] /\ h[c].pc = "evict"
    BY <1>3, Zenon DEF EvictWrite
  <2>2. /\ x.lru = h[c].lru /\ x.pre = h[c].pre /\ x.loading = h[c].loading /\ x.id = h[c].id
        /\ x.need = h[c].need /\ x.pc = "loop"
    BY <1>1 DEF Handle
  <2> HIDE DEF x
  <2>3. WithinQuota(x)
    BY <1>1, <2>1, <2>2 DEF WithinQuota, NumAcquired, Promised
  <2> QED
    BY <2>1, <2>3, QuotaChanged
<1>4. CASE Purge(c)
  <2> DEFINE left == h[c].purge \ {Min(h[c].purge)}
             x == [h[c] EXCEPT !.purge = left]
  <2>1. (h' = [h EXCEPT ![c] = x] \/ h' = [h EXCEPT ![c] = ClosedHandle]) /\ h[c].pc = "purge"
    BY <1>4, Zenon DEF Purge
  <2> HIDE DEF left
  <2>2. /\ x.lru = h[c].lru /\ x.pre = h[c].pre /\ x.loading = h[c].loading /\ x.pc = h[c].pc
    BY <1>1 DEF Handle
  <2> HIDE DEF x
  <2>3. WithinQuota(x)
    BY <1>1, <2>1, <2>2 DEF WithinQuota, NumAcquired, Promised
  <2> QED
    BY <2>1, <2>3, QuotaClosed, QuotaChanged DEF ClosedHandle
<1> QED
  BY <1>2, <1>3, <1>4

\* A load goes on, or ends with its bucket among the blocks or back among the spare ones.
LEMMA QuotaLoader ==
  ASSUME IInv, QuotaInv, NEW c \in Clients, LoadRead(c) \/ LoadDelete(c) \/ LoadFinish(c)
  PROVE  QuotaInv'
<1> DEFINE me == h[c]
<1>1. /\ GoodHandle(me) /\ WithinQuota(me) /\ me \in Handle /\ NumAcquired(me) \in Nat
      /\ NumAcquired(me) <= Quota /\ IsFiniteSet(me.loading)
      /\ me.lru \in Seq(Nat) /\ me.pre \in Seq(Buckets) /\ me.need \in Int
  BY QuotaOf
<1>2. CASE LoadRead(c) \/ LoadDelete(c)
  <2>1. PICK l \in me.loading, st \in {"read", "done", "failed"} : h' = [h EXCEPT ![c] = Step(me, l, st)]
    BY <1>2 DEF LoadRead, LoadDelete
  <2> HIDE DEF me
  <2> DEFINE loading == (me.loading \ {l}) \cup {[l EXCEPT !.st = st]}
             x == [me EXCEPT !.loading = loading]
  <2>2. Cardinality(loading) \in Nat /\ Cardinality(loading) <= Cardinality(me.loading)
    BY <1>1, LoadsSizes
  <2>3. h' = [h EXCEPT ![c] = x]
    BY <2>1, Zenon DEF Step
  <2> HIDE DEF loading
  <2>4. /\ x.lru = me.lru /\ x.pre = me.pre /\ x.loading = loading /\ x.id = me.id
        /\ x.need = me.need /\ x.pc = me.pc
    BY <1>1 DEF Handle
  <2> HIDE DEF x
  <2>5. NumAcquired(x) <= NumAcquired(me) /\ NumAcquired(x) \in Nat /\ Promised(x) = Promised(me)
    <3> DEFINE a == Len(me.lru)
               b == Len(me.pre)
               k == Cardinality(me.loading)
               k1 == Cardinality(loading)
    <3>1. a \in Nat /\ b \in Nat /\ k \in Nat /\ k1 \in Nat /\ k1 <= k
      BY <1>1, <2>2, FS_CardinalityType
    <3>2. NumAcquired(x) = a + b + k1 /\ NumAcquired(me) = a + b + k
      BY <2>4, Zenon DEF NumAcquired
    <3>3. Promised(x) = Promised(me)
      BY <2>4 DEF Promised
    <3> HIDE DEF a, b, k, k1
    <3> QED
      BY <3>1, <3>2, <3>3
  <2>6. Promised(me) \in Int
    BY <1>1 DEF Promised
  <2>7. WithinQuota(x)
    BY <1>1, <2>4, <2>5, <2>6, QuotaAssumption DEF WithinQuota
  <2> QED
    BY <2>3, <2>7, QuotaChanged
<1>3. CASE LoadFinish(c)
  <2>1. PICK l \in me.loading :
          LET y == [me EXCEPT !.loading = @ \ {l}]
          IN /\ me.pc \notin Locked
             /\ \/ h' = [h EXCEPT ![c] = [y EXCEPT !.lru = LruPut(@, l.blk)]]
                \/ h' = [h EXCEPT ![c] = [y EXCEPT !.pre = <<l.bucket>> \o @]]
    BY <1>3, Zenon DEF LoadFinish
  <2> HIDE DEF me
  <2> DEFINE loading == me.loading \ {l}
             lru == LruPut(me.lru, l.blk)
             pre == <<l.bucket>> \o me.pre
  <2>2. l.blk \in Nat /\ l.bucket \in Buckets
    <3>1. l \in Load
      BY <1>1, HandleFields
    <3> QED
      BY <3>1 DEF Load
  <2>3. Cardinality(me.loading) \in Nat /\ Cardinality(loading) = Cardinality(me.loading) - 1
    BY <1>1, LoadsSizes
  <2>4. Len(lru) <= Len(me.lru) + 1 /\ Len(lru) \in Nat /\ Len(me.lru) \in Nat
    <3>1. lru \in Seq(Nat) /\ Len(lru) <= Len(me.lru) + 1
      BY <1>1, <2>2, LruPutSize, LruPutTyped
    <3> QED
      BY <1>1, <3>1
  <2>5. Len(pre) = Len(me.pre) + 1 /\ Len(me.pre) \in Nat
    BY <1>1, <2>2
  <2> HIDE DEF loading, lru, pre
  <2> DEFINE x == [[me EXCEPT !.loading = loading] EXCEPT !.lru = lru]
             z == [[me EXCEPT !.loading = loading] EXCEPT !.pre = pre]
  <2>6. /\ x.lru = lru /\ x.pre = me.pre /\ x.loading = loading /\ x.id = me.id /\ x.pc = me.pc
    BY <1>1 DEF Handle
  <2>7. /\ z.lru = me.lru /\ z.pre = pre /\ z.loading = loading /\ z.id = me.id /\ z.pc = me.pc
    BY <1>1 DEF Handle
  <2>8. h' = [h EXCEPT ![c] = x] \/ h' = [h EXCEPT ![c] = z]
    <3>1. [me EXCEPT !.loading = loading].lru = me.lru /\ [me EXCEPT !.loading = loading].pre = me.pre
      BY <1>1 DEF Handle
    <3> QED
      BY <2>1, <3>1, Zenon DEF loading, lru, pre
  <2> HIDE DEF x, z
  <2>9. me.pc \notin {"evict", "loop"}
    BY <2>1 DEF Locked
  <2>10. NumAcquired(x) <= Quota /\ NumAcquired(x) \in Nat /\ Promised(x) = 0
    <3> DEFINE a == Len(me.lru)
               b == Len(me.pre)
               k == Cardinality(me.loading)
               a1 == Len(lru)
               b1 == Len(pre)
               k1 == Cardinality(loading)
    <3>1. /\ a \in Nat /\ b \in Nat /\ k \in Nat /\ a1 \in Nat /\ a1 <= a + 1 /\ b1 = b + 1
          /\ k1 = k - 1 /\ k1 \in Nat
      BY <1>1, <2>3, <2>4, <2>5, FS_CardinalityType, FS_RemoveElement DEF loading
    <3>2. NumAcquired(x) = a1 + b + k1 /\ NumAcquired(me) = a + b + k
      BY <2>6, Zenon DEF NumAcquired
    <3>3. Promised(x) = 0
      BY <2>6, <2>9 DEF Promised
    <3> HIDE DEF a, b, k, a1, b1, k1
    <3> QED
      BY <1>1, <3>1, <3>2, <3>3, QuotaAssumption
  <2>11. NumAcquired(z) <= Quota /\ NumAcquired(z) \in Nat /\ Promised(z) = 0
    <3> DEFINE a == Len(me.lru)
               b == Len(me.pre)
               k == Cardinality(me.loading)
               a1 == Len(lru)
               b1 == Len(pre)
               k1 == Cardinality(loading)
    <3>1. /\ a \in Nat /\ b \in Nat /\ k \in Nat /\ a1 \in Nat /\ a1 <= a + 1 /\ b1 = b + 1
          /\ k1 = k - 1 /\ k1 \in Nat
      BY <1>1, <2>3, <2>4, <2>5, FS_CardinalityType, FS_RemoveElement DEF loading
    <3>2. NumAcquired(z) = a + b1 + k1 /\ NumAcquired(me) = a + b + k
      BY <2>7, Zenon DEF NumAcquired
    <3>3. Promised(z) = 0
      BY <2>7, <2>9 DEF Promised
    <3> HIDE DEF a, b, k, a1, b1, k1
    <3> QED
      BY <1>1, <3>1, <3>2, <3>3, QuotaAssumption
  <2>12. WithinQuota(x)
    BY <1>1, <2>6, <2>9, <2>10, QuotaAssumption DEF WithinQuota
  <2>13. WithinQuota(z)
    BY <1>1, <2>7, <2>9, <2>11, QuotaAssumption DEF WithinQuota
  <2> QED
    BY <2>8, <2>12, <2>13, QuotaChanged
<1> QED
  BY <1>2, <1>3

\* extendOneBlock turns a spare bucket into a block.
LEMMA QuotaExtend == ASSUME IInv, QuotaInv, NEW c \in Clients, Extend(c) PROVE QuotaInv'
<1> DEFINE me == h[c]
           pre == Tail(me.pre)
           lru == LruPut(me.lru, me.cur)
           me1 == [me EXCEPT !.pre = pre, !.lru = lru]
           x == [me1 EXCEPT !.pc = "io"]
<1>1. /\ GoodHandle(me) /\ WithinQuota(me) /\ me \in Handle /\ NumAcquired(me) \in Nat
      /\ NumAcquired(me) <= Quota /\ IsFiniteSet(me.loading)
      /\ me.lru \in Seq(Nat) /\ me.pre \in Seq(Buckets) /\ me.need \in Int
  BY QuotaOf
<1>2. me.pc = "extend" /\ (h' = [h EXCEPT ![c] = x] \/ h' = [h EXCEPT ![c] = Failed(me1)])
  BY Zenon DEF Extend, Commit
<1>3. me.pre # <<>> /\ me.cur \in Nat /\ me.id \in ActiveIds
  BY <1>1, <1>2, HandleFields DEF GoodHandle, Prepared, WithinQuota
<1> HIDE DEF me
<1>4. /\ Len(pre) = Len(me.pre) - 1 /\ Len(me.pre) \in Nat /\ Len(lru) <= Len(me.lru) + 1
      /\ Len(lru) \in Nat /\ Len(me.lru) \in Nat /\ Cardinality(me.loading) \in Nat
      /\ pre \in Seq(Buckets) /\ lru \in Seq(Nat)
  <2>1. pre \in Seq(Buckets) /\ Len(pre) = Len(me.pre) - 1
    BY <1>1, <1>3
  <2>2. lru \in Seq(Nat) /\ Len(lru) <= Len(me.lru) + 1
    BY <1>1, <1>3, LruPutSize, LruPutTyped
  <2>3. Cardinality(me.loading) \in Nat
    BY <1>1, FS_CardinalityType
  <2> QED
    BY <1>1, <2>1, <2>2, <2>3
<1> HIDE DEF pre, lru
<1>5. /\ me1.lru = lru /\ me1.pre = pre /\ me1.loading = me.loading /\ me1.id = me.id /\ me1 \in Handle
  BY <1>1, <1>4 DEF Handle
<1>6. Parked(me1, x)
  BY <1>1 DEF Parked, Handle
<1> HIDE DEF me1, x
<1>7. NumAcquired(me1) \in Nat /\ NumAcquired(me1) <= Quota
  <2> DEFINE a == Len(me.lru)
             b == Len(me.pre)
             k == Cardinality(me.loading)
             a1 == Len(lru)
             b1 == Len(pre)
  <2>1. /\ a \in Nat /\ b \in Nat /\ k \in Nat /\ a1 \in Nat /\ a1 <= a + 1
        /\ b1 \in Nat /\ b1 = b - 1
    BY <1>4
  <2>2. NumAcquired(me1) = a1 + b1 + k /\ NumAcquired(me) = a + b + k
    BY <1>5, Zenon DEF NumAcquired
  <2> HIDE DEF a, b, k, a1, b1
  <2> QED
    BY <1>1, <2>1, <2>2, QuotaAssumption
<1>8. Parked(me1, Failed(me1))
  BY <1>5, ParkedHandles
<1> QED
  BY <1>2, <1>3, <1>5, <1>6, <1>7, <1>8, QuotaStops

\* activateBlock of a remote block: a spare bucket becomes a loading one.
LEMMA QuotaActivateRemote == ASSUME IInv, QuotaInv, NEW c \in Clients, ActivateRemote(c) PROVE QuotaInv'
<1> DEFINE me == h[c]
           new == [blk |-> me.cur + me.ctr, bucket |-> Head(me.pre), st |-> "reading"]
           pre == Tail(me.pre)
           loading == me.loading \cup {new}
           me1 == [me EXCEPT !.pre = pre, !.loading = loading]
<1>1. /\ GoodHandle(me) /\ WithinQuota(me) /\ me \in Handle /\ NumAcquired(me) \in Nat
      /\ NumAcquired(me) <= Quota /\ IsFiniteSet(me.loading)
      /\ me.lru \in Seq(Nat) /\ me.pre \in Seq(Buckets) /\ me.need \in Int
  BY QuotaOf
<1>2. me.pc = "activate" /\ (h' = [h EXCEPT ![c] = Continue(me)] \/ h' = [h EXCEPT ![c] = Continue(me1)])
  BY Zenon DEF ActivateRemote, Commit
<1>3. me.pre # <<>> /\ me.id \in ActiveIds
  BY <1>1, <1>2 DEF GoodHandle, Prepared, WithinQuota
<1> HIDE DEF me
<1>4. /\ Len(pre) = Len(me.pre) - 1 /\ Len(me.pre) \in Nat /\ Len(me.lru) \in Nat /\ Len(pre) \in Nat
      /\ Cardinality(me.loading) \in Nat /\ Cardinality(loading) \in Nat
      /\ Cardinality(loading) <= Cardinality(me.loading) + 1
  <2>1. pre \in Seq(Buckets) /\ Len(pre) = Len(me.pre) - 1 /\ Len(me.pre) \in Nat /\ Len(me.lru) \in Nat
    BY <1>1, <1>3
  <2> HIDE DEF new
  <2>2. /\ Cardinality(me.loading) \in Nat /\ Cardinality(loading) \in Nat
        /\ Cardinality(loading) <= Cardinality(me.loading) + 1
    BY <1>1, LoadsSizes
  <2> QED
    BY <2>1, <2>2
<1>5. pre \in Seq(Buckets) /\ loading \in SUBSET Load
  <2>1. me.cur \in Nat /\ me.ctr \in Nat /\ me.loading \in SUBSET Load
    BY <1>1, HandleFields
  <2>2. pre \in Seq(Buckets) /\ Head(me.pre) \in Buckets
    BY <1>1, <1>3
  <2>3. new \in Load
    BY <2>1, <2>2 DEF Load
  <2> QED
    BY <2>1, <2>2, <2>3
<1> HIDE DEF pre, loading
<1>6. /\ me1 \in Handle
      /\ me1.lru = me.lru /\ me1.pre = pre /\ me1.loading = loading /\ me1.id = me.id
  BY <1>1, <1>5 DEF Handle
<1> HIDE DEF me1
<1>7. NumAcquired(me1) \in Nat /\ NumAcquired(me1) <= Quota
  <2> DEFINE a == Len(me.lru)
             b == Len(me.pre)
             k == Cardinality(me.loading)
             b1 == Len(pre)
             k1 == Cardinality(loading)
  <2>1. /\ a \in Nat /\ b \in Nat /\ k \in Nat /\ b1 \in Nat /\ b1 = b - 1
        /\ k1 \in Nat /\ k1 <= k + 1
    BY <1>4
  <2>2. NumAcquired(me1) = a + b1 + k1 /\ NumAcquired(me) = a + b + k
    BY <1>6, Zenon DEF NumAcquired
  <2> HIDE DEF a, b, k, b1, k1
  <2> QED
    BY <1>1, <2>1, <2>2, QuotaAssumption
<1>8. Parked(me, Continue(me))
  BY <1>1, ParkedHandles
<1>9. Parked(me1, Continue(me1))
  BY <1>6, ParkedHandles
<1> QED
  BY <1>1, <1>2, <1>3, <1>6, <1>7, <1>8, <1>9, QuotaStops

\* activateBlock of a local block: a full handle first gives a block or a spare bucket up.
LEMMA QuotaActivateLocal == ASSUME IInv, QuotaInv, NEW c \in Clients, ActivateLocal(c) PROVE QuotaInv'
<1> DEFINE me == h[c]
           blk == me.cur + me.ctr
           full == NumAcquired(me) = Quota
           drop == full /\ me.lru # <<>>
           free == full /\ me.lru = <<>>
           lru == IF drop THEN LruKept(me.lru, 1) ELSE me.lru
           pre == IF free THEN SubSeq(me.pre, 1, Len(me.pre) - 1) ELSE me.pre
           put == LruPut(lru, blk)
           me1 == [me EXCEPT !.lru = lru, !.pre = pre]
           me2 == [me1 EXCEPT !.lru = LruPut(@, blk)]
<1>1. /\ GoodHandle(me) /\ WithinQuota(me) /\ me \in Handle /\ NumAcquired(me) \in Nat
      /\ NumAcquired(me) <= Quota /\ IsFiniteSet(me.loading)
      /\ me.lru \in Seq(Nat) /\ me.pre \in Seq(Buckets) /\ me.need \in Int
  BY QuotaOf
<1>2. me.pc = "activate" /\ \/ h' = [h EXCEPT ![c] = Failed(me)]
                            \/ h' = [h EXCEPT ![c] = Failed(me1)]
                            \/ h' = [h EXCEPT ![c] = Continue(me2)]
  BY Zenon DEF ActivateLocal, Commit
<1>3. me.pre # <<>> /\ me.id \in ActiveIds /\ blk \in Nat /\ Cardinality(me.loading) \in Nat
  <2>1. me.cur \in Nat /\ me.ctr \in Nat
    BY <1>1, HandleFields
  <2>2. Cardinality(me.loading) \in Nat
    BY <1>1, FS_CardinalityType
  <2>3. me.pre # <<>>
    BY <1>1, <1>2, Zenon DEF GoodHandle, Prepared
  <2>4. me.id \in ActiveIds
    BY <1>1, <1>2, Zenon DEF WithinQuota
  <2>5. blk \in Nat
    <3> HIDE DEF me
    <3> QED
      BY <2>1
  <2> QED
    BY <2>2, <2>3, <2>4, <2>5, Zenon
<1> HIDE DEF me, blk
<1> DEFINE a == Len(me.lru)
           b == Len(me.pre)
           k == Cardinality(me.loading)
<1>4. /\ a \in Nat /\ b \in Nat /\ b >= 1 /\ NumAcquired(me) = a + b + k
      /\ (me.lru # <<>>) = (a > 0)
  <2>1. NumAcquired(me) = a + b + k
    BY Zenon DEF NumAcquired
  <2>2. a \in Nat /\ b \in Nat /\ b >= 1 /\ (me.lru # <<>>) = (a > 0)
    BY <1>1, <1>3
  <2> QED
    BY <2>1, <2>2
<1>5. lru \in Seq(Nat) /\ pre \in Seq(Buckets) /\ Len(lru) \in Nat /\ Len(pre) \in Nat
  <2>1. lru \in Seq(Nat)
    BY <1>1, LruRemoveTyped
  <2>2. pre \in Seq(Buckets)
    BY <1>1, <1>3
  <2> QED
    BY <2>1, <2>2
<1>6. /\ drop => Len(lru) = a - 1 /\ Len(pre) = b
      /\ free => Len(lru) = a /\ Len(pre) = b - 1
      /\ ~full => Len(lru) = a /\ Len(pre) = b
  <2>1. me.lru # <<>> => Len(LruKept(me.lru, 1)) = a - 1
    BY <1>1, <1>4, LruKeptSize
  <2>2. Len(SubSeq(me.pre, 1, b - 1)) = b - 1
    BY <1>1, <1>4, SeqSizes
  <2> QED
    BY <2>1, <2>2
<1>7. put \in Seq(Nat) /\ Len(put) \in Nat /\ Len(put) <= Len(lru) + 1
  <2> HIDE DEF lru
  <2>1. put \in Seq(Nat) /\ Len(put) <= Len(lru) + 1
    BY <1>3, <1>5, LruPutSize, LruPutTyped
  <2> QED
    BY <2>1
<1>8. full => (drop \/ free)
  OBVIOUS
<1> HIDE DEF full, drop, free, lru, pre, put
<1>9. me1 \in Handle /\ me1.lru = lru /\ me1.pre = pre /\ me1.loading = me.loading /\ me1.id = me.id
  BY <1>1, <1>5 DEF Handle
<1> HIDE DEF me1
<1>10. me2 \in Handle /\ me2.lru = put /\ me2.pre = pre /\ me2.loading = me.loading /\ me2.id = me.id
  <2>1. me2 = [me1 EXCEPT !.lru = put]
    BY <1>9, Zenon DEF put
  <2> HIDE DEF me2
  <2> QED
    BY <1>7, <1>9, <2>1 DEF Handle
<1> HIDE DEF me2
<1> DEFINE a1 == Len(lru)
           b1 == Len(pre)
           a2 == Len(put)
<1>11. NumAcquired(me1) = a1 + b1 + k /\ NumAcquired(me2) = a2 + b1 + k
  BY <1>9, <1>10, Zenon DEF NumAcquired
<1>12. /\ a1 \in Nat /\ b1 \in Nat /\ a2 \in Nat /\ a2 <= a1 + 1 /\ k \in Nat
       /\ full => a1 + b1 = a + b - 1
       /\ ~full => a1 = a /\ b1 = b
  <2>1. a1 \in Nat /\ b1 \in Nat /\ a2 \in Nat /\ a2 <= a1 + 1 /\ k \in Nat
    BY <1>3, <1>5, <1>7
  <2>2. /\ drop => a1 = a - 1 /\ b1 = b
        /\ free => a1 = a /\ b1 = b - 1
        /\ ~full => a1 = a /\ b1 = b
    BY <1>6
  <2> HIDE DEF a, b, k, a1, b1, a2
  <2> QED
    BY <1>4, <1>8, <2>1, <2>2
<1> HIDE DEF a, b, k, a1, b1, a2
<1>13. NumAcquired(me1) \in Nat /\ NumAcquired(me1) <= Quota
  BY <1>1, <1>4, <1>11, <1>12, QuotaAssumption
<1>14. NumAcquired(me2) \in Nat /\ NumAcquired(me2) <= Quota
  <2>1. full => a + b + k = Quota
    BY <1>4, Zenon DEF full
  <2>2. ~full => a + b + k # Quota
    BY <1>4, Zenon DEF full
  <2>3. a + b + k <= Quota
    BY <1>1, <1>4, Zenon
  <2>4. a \in Nat /\ b \in Nat /\ Quota \in Nat
    BY <1>4, QuotaAssumption
  <2>5. a2 + b1 + k \in Nat /\ a2 + b1 + k <= Quota
    BY <1>12, <2>1, <2>2, <2>3, <2>4
  <2> QED
    BY <1>11, <2>5, Zenon
<1>15. Parked(me, Failed(me)) /\ Parked(me1, Failed(me1)) /\ Parked(me2, Continue(me2))
  BY <1>1, <1>9, <1>10, ParkedHandles
<1> QED
  BY <1>1, <1>2, <1>3, <1>9, <1>10, <1>13, <1>14, <1>15, QuotaStops

\* The handle after acquireNewBlocks has taken the free buckets got.
Taken(me, got, need) == [me EXCEPT !.pre = @ \o got, !.need = need]

\* acquireNewBlocks takes so many free buckets: the handle grows by as many.
LEMMA QuotaTaken ==
  ASSUME NEW me \in Handle, IsFiniteSet(me.loading), NEW S \in SUBSET Buckets, NEW got \in InOrder(S),
         NEW need \in Int, NEW x, x = Taken(me, got, need)
  PROVE  /\ x \in Handle /\ x.need = need /\ x.id = me.id
         /\ NumAcquired(me) \in Nat /\ NumAcquired(x) = NumAcquired(me) + Cardinality(S)
<1> DEFINE pre == me.pre \o got
<1>0. x = [me EXCEPT !.pre = pre, !.need = need]
  BY Zenon DEF Taken
<1>1. me.pre \in Seq(Buckets) /\ me.lru \in Seq(Nat)
  BY DEF Handle
<1>2. got \in Seq(Buckets) /\ Len(got) = Cardinality(S) /\ Cardinality(S) \in Nat
  <2>1. Cardinality(S) \in Nat
    BY BucketsFinite
  <2> QED
    BY <2>1, InOrderSize DEF InOrder
<1>3. pre \in Seq(Buckets) /\ Len(pre) = Len(me.pre) + Len(got)
  <2>1. pre \in Seq(Buckets)
    BY <1>1, <1>2
  <2>2. got \in Seq(Buckets)
    BY <1>2
  <2>3. Len(pre) = Len(me.pre) + Len(got)
    BY <1>1, <2>2
  <2> QED
    BY <2>1, <2>3
<1> HIDE DEF pre
<1>4. x \in Handle /\ x.need = need /\ x.id = me.id /\ x.lru = me.lru /\ x.pre = pre /\ x.loading = me.loading
  BY <1>0, <1>3 DEF Handle
<1> DEFINE a == Len(me.lru)
           b == Len(me.pre)
           k == Cardinality(me.loading)
           n == Cardinality(S)
           b1 == Len(pre)
<1>5. a \in Nat /\ b \in Nat /\ k \in Nat /\ n \in Nat /\ b1 = b + n
  <2>1. k \in Nat
    BY FS_CardinalityType
  <2>2. a \in Nat /\ b \in Nat
    BY <1>1
  <2> QED
    BY <1>2, <1>3, <2>1, <2>2
<1>6. NumAcquired(me) = a + b + k /\ NumAcquired(x) = a + b1 + k
  BY <1>4, Zenon DEF NumAcquired
<1> HIDE DEF a, b, k, n, b1
<1>7. NumAcquired(me) \in Nat /\ NumAcquired(x) = NumAcquired(me) + n
  BY <1>5, <1>6
<1> QED
  BY <1>4, <1>7 DEF n

\* The free counter is no negative number.
LEMMA FreeNatural == ASSUME NEW s \in Segment, FreeCounted(s) PROVE s.num["free"] \in Nat
<1>1. s.num["free"] \in Int
  BY SegmentFields DEF ShareMemHeader, Counters
<1>2. Cardinality(FreeBuckets(s)) \in Nat
  BY BucketsFinite DEF FreeBuckets
<1> QED
  BY <1>1, <1>2 DEF FreeCounted

\* The first critical section of acquireNewBlocks follows the policy.
LEMMA QuotaAcquireBegin == ASSUME IInv, QuotaInv, NEW c \in Clients, AcquireBegin(c) PROVE QuotaInv'
<1> DEFINE me == h[c]
           policy == AcquirePolicy(NumAcquired(me), Len(me.lru), shm.num["free"], shm.num["used"])
           list == Pairs(me, LruRemoved(me.lru, policy.drop))
           s1 == InactivateBuckets(shm, list, me.file, me.id)
           lru == LruKept(me.lru, policy.drop)
           me1 == [me EXCEPT !.lru = lru]
           logged == LogInactivate(shm, me, list)
           n == Least(policy.take, shm.num["free"])
           s2 == AcquireFreeBucket(s1, me.id, n, me.file)
           need == policy.take - n
           S == AcquiredBuckets(s1, n)
<1>1. /\ GoodHandle(me) /\ WithinQuota(me) /\ me \in Handle /\ NumAcquired(me) \in Nat
      /\ NumAcquired(me) <= Quota /\ IsFiniteSet(me.loading)
      /\ me.lru \in Seq(Nat) /\ me.pre \in Seq(Buckets) /\ me.need \in Int
  BY QuotaOf
<1>2. /\ me.pc = "acquire"
      /\ \/ h' = [h EXCEPT ![c] = Failed(me)]
         \/ policy.ok /\ h' = [h EXCEPT ![c] = Failed(me1)]
         \/ policy.ok /\ s2.ok /\ \E got \in InOrder(S) :
              AcquireNext(c, [me1 EXCEPT !.pre = @ \o got, !.need = need], s2, logged)
  BY Zenon DEF AcquireBegin, Commit
<1>3. me.id \in ActiveIds /\ Cardinality(me.loading) \in Nat
  BY <1>1, <1>2, FS_CardinalityType DEF WithinQuota
<1>4. /\ NumAcquired(me) - policy.drop + policy.take <= Quota /\ policy.take \in Int
      /\ policy.take >= 1 /\ shm.num["free"] \in Nat
      /\ policy.ok => policy.drop \in 0 .. Len(me.lru)
  <2>1. shm \in Segment /\ FreeCounted(shm)
    BY DEF IInv, TypeOK
  <2>2. shm.num["free"] \in Nat /\ shm.num["used"] \in Int
    BY <2>1, FreeNatural, SegmentFields DEF ShareMemHeader, Counters
  <2>3. Len(me.lru) \in Nat
    BY <1>1
  <2>4. shm.num["free"] \in Int
    BY <2>2
  <2> HIDE DEF me
  <2>5. policy.take \in Int
    BY <1>1, <2>3, <2>4, <2>2, PolicyTyped
  <2> QED
    BY <1>1, <2>2, <2>3, <2>4, <2>5, PolicyWithinQuota
<1>5. CASE h' = [h EXCEPT ![c] = Failed(me)]
  BY <1>1, <1>3, <1>5, ParkedHandles, QuotaStops
<1>6. ASSUME policy.ok PROVE /\ me1 \in Handle /\ me1.loading = me.loading /\ me1.id = me.id
                             /\ NumAcquired(me1) = NumAcquired(me) - policy.drop
                             /\ NumAcquired(me1) \in Nat /\ NumAcquired(me1) <= Quota
                             /\ policy.drop \in Nat
  <2> HIDE DEF me, policy
  <2>1. policy.drop \in Nat /\ policy.drop \in 0 .. Len(me.lru)
    <3>1. Len(me.lru) \in Nat
      BY <1>1
    <3> QED
      BY <1>4, <1>6, <3>1
  <2>2. lru \in Seq(Nat)
    BY <1>1, <2>1, LruRemoveTyped
  <2>3. Len(lru) = Len(me.lru) - policy.drop /\ Len(lru) \in Nat /\ Len(me.lru) \in Nat /\ Len(me.pre) \in Nat
    <3>1. Len(lru) = Len(me.lru) - policy.drop
      BY <1>1, <2>1, LruKeptSize
    <3>2. Len(lru) \in Nat /\ Len(me.lru) \in Nat /\ Len(me.pre) \in Nat
      BY <1>1, <2>2
    <3> QED
      BY <3>1, <3>2
  <2> HIDE DEF lru
  <2>4. me1 \in Handle /\ me1.lru = lru /\ me1.pre = me.pre /\ me1.loading = me.loading /\ me1.id = me.id
    BY <1>1, <2>2 DEF Handle
  <2> HIDE DEF me1
  <2> DEFINE a == Len(me.lru)
             b == Len(me.pre)
             k == Cardinality(me.loading)
             a1 == Len(lru)
  <2>5. NumAcquired(me) = a + b + k /\ NumAcquired(me1) = a1 + b + k
    BY <2>4, Zenon DEF NumAcquired
  <2>6. a \in Nat /\ b \in Nat /\ k \in Nat /\ a1 \in Nat /\ a1 = a - policy.drop
    BY <1>3, <2>3
  <2> HIDE DEF a, b, k, a1
  <2>7. /\ NumAcquired(me1) = NumAcquired(me) - policy.drop
        /\ NumAcquired(me1) \in Nat /\ NumAcquired(me1) <= Quota
    <3>1. policy.drop \in Nat /\ NumAcquired(me) \in Nat /\ NumAcquired(me) <= Quota
      BY <1>1, <2>1
    <3> QED
      BY <3>1, <2>5, <2>6, QuotaAssumption
  <2> QED
    BY <2>1, <2>4, <2>7
<1>7. CASE policy.ok /\ h' = [h EXCEPT ![c] = Failed(me1)]
  <2> HIDE DEF me1
  <2> QED
    BY <1>3, <1>6, <1>7, ParkedHandles, QuotaStops
<1>8. ASSUME policy.ok, s2.ok, NEW got \in InOrder(S),
             AcquireNext(c, [me1 EXCEPT !.pre = @ \o got, !.need = need], s2, logged)
      PROVE  QuotaInv'
  <2>1. n \in Nat /\ need \in Nat /\ need + n = policy.take
    <3> DEFINE f == shm.num["free"]
               k == policy.take
    <3>1. k \in Int /\ k >= 1 /\ f \in Nat
      BY <1>4, Zenon
    <3>2. n = Least(k, f) /\ need = k - n
      BY Zenon
    <3> HIDE DEF policy, f, k, n, need
    <3>3. n \in Nat /\ need \in Nat /\ need + n = k
      BY <3>1, <3>2 DEF Least
    <3> QED
      BY <3>3, Zenon DEF k
  <2>2. Cardinality(S) = n
    BY <1>8 DEF AcquireFreeBucket
  <2>3. S \in SUBSET Buckets
    BY AcquiredBucketsTyped
  <2> HIDE DEF me, policy, s1, me1, n, S, need, logged, s2
  <2> DEFINE x == [me1 EXCEPT !.pre = @ \o got, !.need = need]
  <2>4. /\ me1 \in Handle /\ IsFiniteSet(me1.loading) /\ me1.id \in ActiveIds
        /\ NumAcquired(me1) \in Nat /\ NumAcquired(me1) + policy.take <= Quota
    <3>1. NumAcquired(me) - policy.drop + policy.take <= Quota /\ NumAcquired(me) \in Nat
      BY <1>1, <1>4
    <3>2. NumAcquired(me1) = NumAcquired(me) - policy.drop
      BY <1>6, <1>8
    <3> QED
      BY <1>1, <1>3, <1>6, <1>8, <3>1, <3>2
  <2>5. /\ x \in Handle /\ x.need = need /\ x.id = me1.id
        /\ NumAcquired(x) = NumAcquired(me1) + n
    <3>1. need \in Int /\ got \in InOrder(S)
      BY <1>8, <2>1
    <3>2. me1 \in Handle /\ IsFiniteSet(me1.loading)
      BY <2>4
    <3>3. /\ x \in Handle /\ x.need = need /\ x.id = me1.id
          /\ NumAcquired(x) = NumAcquired(me1) + Cardinality(S)
      <4>1. x = Taken(me1, got, need)
        BY Zenon DEF Taken
      <4> HIDE DEF x
      <4> QED
        BY <2>3, <3>1, <3>2, <4>1, QuotaTaken
    <3> QED
      BY <2>2, <3>3
  <2>6. AcquireNext(c, x, s2, logged)
    BY <1>8
  <2> HIDE DEF x
  <2>7. NumAcquired(x) \in Nat /\ x.need \in Nat /\ NumAcquired(x) + x.need <= Quota
    <3>1. policy.take \in Int
      BY <1>4
    <3> QED
      BY <2>1, <2>4, <2>5, <3>1, QuotaAssumption
  <2>8. x.id \in ActiveIds
    BY <2>4, <2>5
  <2> QED
    BY <2>5, <2>6, <2>7, <2>8, QuotaNext
<1> QED
  BY <1>2, <1>5, <1>7, <1>8

\* A turn of the eviction loop: when nobody took the victim back, it covers one of the buckets
\* that were asked for, and free buckets cover no more than the rest.
LEMMA QuotaEvictLoop ==
  ASSUME IInv, QuotaInv, NothingStolen, NEW c \in Clients, EvictLoop(c) PROVE QuotaInv'
<1> DEFINE me == h[c]
           v == me.victim
           rc == EvictFinishRc(shm, v.bucket, me.id)
           s1 == EvictBucketFinishAndTryAcquire(shm, v.bucket, me.id, me.file)
           pre == Append(me.pre, v.bucket)
           need == me.need - 1
           me1 == IF rc = 2 THEN me
                  ELSE [me EXCEPT !.pre = Append(@, v.bucket), !.need = @ - 1]
           logged == IF rc = 0 THEN LogEvict(v) ELSE file
           n == IF me1.need < 0 THEN s1.num["free"] ELSE Least(me1.need, s1.num["free"])
           s2 == IF n > 0 THEN AcquireFreeBucket(s1, me.id, n, me.file) ELSE s1
           new == IF n > 0 THEN AcquiredBuckets(s1, n) ELSE {}
           rest == me1.need - n
<1>1. /\ GoodHandle(me) /\ WithinQuota(me) /\ me \in Handle /\ NumAcquired(me) \in Nat
      /\ NumAcquired(me) <= Quota /\ IsFiniteSet(me.loading)
      /\ me.lru \in Seq(Nat) /\ me.pre \in Seq(Buckets) /\ me.need \in Int
  BY QuotaOf
<1>2. me.pc = "loop"
  BY DEF EvictLoop
<1>3. /\ me.id \in ActiveIds /\ Cardinality(me.loading) \in Nat /\ need \in Nat
      /\ NumAcquired(me) + need + 1 <= Quota /\ v.bucket \in Buckets /\ me.file \in AnyFile /\ me.id \in AnyId
  <2>1. me.id \in ActiveIds /\ NumAcquired(me) + me.need <= Quota /\ me.need >= 1 /\ me.need \in Int
    BY <1>1, <1>2 DEF WithinQuota, Promised
  <2>2. Cardinality(me.loading) \in Nat
    BY <1>1, FS_CardinalityType
  <2>3. v.bucket \in Buckets /\ me.file \in AnyFile /\ me.id \in AnyId
    BY <1>1, <1>2, HandleFields DEF GoodHandle, Prepared
  <2> HIDE DEF me
  <2>4. need \in Nat /\ NumAcquired(me) + need + 1 <= Quota
    BY <1>1, <2>1, QuotaAssumption
  <2> QED
    BY <2>1, <2>2, <2>3, <2>4
<1>4. rc # 2
  <2>1. ~shm.act[me.id].stolen
    BY <1>3, Zenon DEF NothingStolen
  <2>2. rc = IF shm.bkt[v.bucket].deleted THEN 1 ELSE 0
    BY <2>1, Zenon DEF EvictFinishRc
  <2> HIDE DEF rc
  <2> QED
    BY <2>2
<1>5. \/ h' = [h EXCEPT ![c] = Failed(me1)]
      \/ s2.ok /\ \E got \in InOrder(new) : AcquireNext(c, Taken(me1, got, rest), s2, logged)
  BY <1>4, Zenon DEF EvictLoop, Commit, Taken
<1>6. s1 \in Segment /\ s1.num["free"] \in Nat
  <2>1. shm \in Segment /\ FreeCounted(shm)
    BY DEF IInv, TypeOK
  <2>2. Keeps(shm, s1)
    BY <1>3, <2>1, EvictBucketFinishAndTryAcquireKeeps
  <2> HIDE DEF s1
  <2>3. s1 \in Segment /\ FreeCounted(s1)
    BY <2>1, <2>2 DEF Keeps
  <2> QED
    BY <2>3, FreeNatural
<1> HIDE DEF me, v, s1, rc, logged
<1>7. /\ me1 \in Handle /\ me1.lru = me.lru /\ me1.pre = pre /\ me1.loading = me.loading /\ me1.id = me.id
      /\ me1.need = need
  <2>1. pre \in Seq(Buckets) /\ need \in Int
    BY <1>1, <1>3
  <2>2. me1 = [me EXCEPT !.pre = pre, !.need = need]
    BY <1>4, Zenon
  <2> HIDE DEF pre, need, me1
  <2> QED
    BY <1>1, <2>1, <2>2 DEF Handle
<1>8. Len(pre) = Len(me.pre) + 1 /\ Len(me.pre) \in Nat /\ Len(me.lru) \in Nat
  BY <1>1, <1>3, SeqSizes
<1> HIDE DEF pre, me1
<1>9. NumAcquired(me1) \in Nat /\ NumAcquired(me1) + need <= Quota /\ NumAcquired(me1) <= Quota
  <2> DEFINE a == Len(me.lru)
             b == Len(me.pre)
             k == Cardinality(me.loading)
             b1 == Len(pre)
  <2>1. NumAcquired(me) = a + b + k /\ NumAcquired(me1) = a + b1 + k
    BY <1>7, Zenon DEF NumAcquired
  <2>2. a \in Nat /\ b \in Nat /\ k \in Nat /\ b1 = b + 1
    BY <1>3, <1>8
  <2>3. NumAcquired(me) \in Nat /\ NumAcquired(me) + need + 1 <= Quota /\ need \in Nat
    BY <1>1, <1>3
  <2> HIDE DEF a, b, k, b1, need
  <2> QED
    BY <2>1, <2>2, <2>3, QuotaAssumption
<1>10. CASE h' = [h EXCEPT ![c] = Failed(me1)]
  BY <1>3, <1>7, <1>9, <1>10, ParkedHandles, QuotaStops
<1>11. ASSUME s2.ok, NEW got \in InOrder(new), AcquireNext(c, Taken(me1, got, rest), s2, logged)
       PROVE  QuotaInv'
  <2>1. n \in Nat /\ rest \in Nat /\ rest + n = need
    <3> DEFINE f == s1.num["free"]
    <3>1. n = IF need < 0 THEN f ELSE Least(need, f)
      BY <1>7, Zenon
    <3>2. rest = need - n
      BY <1>7, Zenon
    <3>3. need \in Nat /\ f \in Nat
      BY <1>3, <1>6
    <3> HIDE DEF n, rest, need, f
    <3> QED
      BY <3>1, <3>2, <3>3 DEF Least
  <2>2. Cardinality(new) = n /\ new \in SUBSET Buckets
    <3>1. CASE n > 0
      BY <1>11, <3>1, AcquiredBucketsTyped DEF AcquireFreeBucket
    <3>2. CASE ~ (n > 0)
      <4>1. n = 0 /\ new = {}
        <5>1. new = {}
          BY <3>2, Zenon
        <5> HIDE DEF n, new, rest
        <5> QED
          BY <2>1, <3>2, <5>1
      <4> QED
        BY <4>1, FS_EmptySet
    <3> QED
      BY <3>1, <3>2
  <2> HIDE DEF n, rest, new, s2
  <2> DEFINE x == Taken(me1, got, rest)
  <2>3. got \in InOrder(new) /\ IsFiniteSet(me1.loading) /\ rest \in Int /\ me1 \in Handle
    BY <1>1, <1>7, <1>11, <2>1
  <2>4. x = Taken(me1, got, rest) /\ AcquireNext(c, x, s2, logged)
    BY <1>11
  <2> HIDE DEF x
  <2>5. /\ x \in Handle /\ x.need = rest /\ x.id = me1.id
        /\ NumAcquired(x) = NumAcquired(me1) + n
    BY <2>2, <2>3, <2>4, QuotaTaken
  <2>6. NumAcquired(x) \in Nat /\ x.need \in Nat /\ NumAcquired(x) + x.need <= Quota
    <3>1. need \in Nat
      BY <1>3
    <3> HIDE DEF need
    <3> QED
      BY <1>9, <2>1, <2>5, <3>1, QuotaAssumption
  <2>7. x.id \in ActiveIds
    BY <1>3, <1>7, <2>5
  <2> QED
    BY <2>4, <2>5, <2>6, <2>7, QuotaNext
<1> QED
  BY <1>5, <1>10, <1>11

\* close gives everything up.
LEMMA QuotaClose ==
  ASSUME IInv, QuotaInv, NEW c \in Clients, NEW isCancel, Close(c, isCancel) PROVE QuotaInv'
<1>1. \/ h' = [h EXCEPT ![c] = ClosedHandle]
      \/ h' = [h EXCEPT ![c] = [ClosedHandle EXCEPT !.pc = "halfclosed"]]
      \/ \E remote, f : h' = [h EXCEPT ![c] =
           [ClosedHandle EXCEPT !.pc = IF remote = {} THEN "none" ELSE "purge",
                                !.file = IF remote = {} THEN NoFile ELSE f, !.purge = remote]]
  BY Zenon DEF Close, Commit
<1>2. ASSUME NEW p \in {"none", "purge", "halfclosed"}, NEW f, NEW purge
      PROVE  /\ WithinQuota([ClosedHandle EXCEPT !.pc = p])
             /\ WithinQuota([ClosedHandle EXCEPT !.pc = p, !.file = f, !.purge = purge])
  <2> DEFINE x == [ClosedHandle EXCEPT !.pc = p]
             y == [ClosedHandle EXCEPT !.pc = p, !.file = f, !.purge = purge]
  <2>1. x.lru = <<>> /\ x.pre = <<>> /\ x.loading = {} /\ x.pc = p
    BY DEF ClosedHandle
  <2>2. y.lru = <<>> /\ y.pre = <<>> /\ y.loading = {} /\ y.pc = p
    BY DEF ClosedHandle
  <2> HIDE DEF x, y
  <2>3. WithinQuota(x) /\ WithinQuota(y)
    BY <2>1, <2>2, QuotaClosed
  <2> QED
    BY <2>3, Zenon DEF x, y
<1>3. WithinQuota(ClosedHandle)
  <2>1. /\ ClosedHandle.lru = <<>> /\ ClosedHandle.pre = <<>> /\ ClosedHandle.loading = {}
        /\ ClosedHandle.pc = "none"
    BY DEF ClosedHandle
  <2> QED
    BY <2>1, QuotaClosed
<1>4. ASSUME NEW remote, NEW f
      PROVE  WithinQuota([ClosedHandle EXCEPT !.pc = IF remote = {} THEN "none" ELSE "purge",
                            !.file = IF remote = {} THEN NoFile ELSE f, !.purge = remote])
  <2> DEFINE p == IF remote = {} THEN "none" ELSE "purge"
  <2>1. p \in {"none", "purge", "halfclosed"}
    OBVIOUS
  <2> HIDE DEF p
  <2>2. WithinQuota([ClosedHandle EXCEPT !.pc = p, !.file = IF remote = {} THEN NoFile ELSE f,
                                         !.purge = remote])
    BY <1>2, <2>1, Zenon
  <2> QED
    BY <2>2, Zenon DEF p
<1>5. \A x : h' = [h EXCEPT ![c] = x] /\ WithinQuota(x) => QuotaInv'
  BY QuotaChanged
<1> QED
  BY <1>1, <1>2, <1>3, <1>4, <1>5, Zenon

-----------------------------------------------------------------------------
(* The theorem *)

\* At the start every handle is closed.
LEMMA QuotaInit == Init => QuotaInv
<1> SUFFICES ASSUME Init, NEW c \in Clients PROVE WithinQuota(h[c])
  BY DEF QuotaInv
<1>1. h[c] = ClosedHandle
  BY DEF Init
<1>2. /\ ClosedHandle.lru = <<>> /\ ClosedHandle.pre = <<>> /\ ClosedHandle.loading = {}
      /\ ClosedHandle.pc = "none"
  BY DEF ClosedHandle
<1> HIDE DEF ClosedHandle
<1> QED
  BY <1>1, <1>2, QuotaClosed

\* Every step keeps the quota as long as no bucket under eviction has been taken back.
LEMMA QuotaStep == IInv /\ QuotaInv /\ NothingStolen /\ [Next]_vars => QuotaInv'
<1> SUFFICES ASSUME IInv, QuotaInv, NothingStolen, [Next]_vars PROVE QuotaInv'
  OBVIOUS
<1>1. CASE UNCHANGED vars
  BY <1>1 DEF vars, QuotaInv, WithinQuota, NumAcquired, Promised
<1>2. ASSUME NEW c \in Clients,
             \/ \E f \in Files, kind \in Kinds : Open(c, f, kind)
             \/ \E isCancel \in Cancels : Close(c, isCancel)
      PROVE  QuotaInv'
  BY <1>2, QuotaOpen, QuotaClose
<1>3. ASSUME NEW c \in Clients,
             \/ AccessOld(c) \/ AccessNew(c) \/ Wait(c)
             \/ Read(c) \/ Write(c) \/ EvictWrite(c) \/ EvictWriteFails(c) \/ Purge(c)
      PROVE  QuotaInv'
  BY <1>3, QuotaAccess, QuotaTransfer
<1>4. ASSUME NEW c \in Clients, AcquireBegin(c) \/ EvictLoop(c) \/ Extend(c) PROVE QuotaInv'
  BY <1>4, QuotaAcquireBegin, QuotaEvictLoop, QuotaExtend
<1>5. ASSUME NEW c \in Clients, ActivateRemote(c) \/ ActivateLocal(c) \/ Loader(c) PROVE QuotaInv'
  BY <1>5, QuotaActivateRemote, QuotaActivateLocal, QuotaLoader DEF Loader
<1> QED
  BY <1>1, <1>2, <1>3, <1>4, <1>5 DEF Next, Progress

\* As long as no handle has taken back a bucket under eviction, no handle ever holds more buckets
\* than its quota, its spare and loading buckets included, whatever the pool has free, the policy
\* decides and the object store does.
THEOREM QuotaKept == Spec /\ []NothingStolen => []QuotaIsKept
<1>1. IInv /\ QuotaInv => QuotaIsKept
  BY QuotaOf DEF QuotaIsKept
<1> QED
  BY <1>1, InitGood, NextGood, QuotaInit, QuotaStep, PTL DEF Spec
=============================================================================
