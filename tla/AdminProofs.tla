----------------------------- MODULE AdminProofs -----------------------------
(***************************************************************************)
(* The clock sweep takes the least used bucket, and throws only when there *)
(* is none, for any number of buckets and any usage counts.  The           *)
(* administrators' evictions and the file's handle, together, change the   *)
(* buckets only as the sweep allows; so both hold of every administrator,  *)
(* for any number of administrators, buckets, slots and blocks.            *)
(***************************************************************************)
EXTENDS AdminSteps

-----------------------------------------------------------------------------
(* Steps of an administrator *)

Replaced(ad, a, x, g) == AdminTyped(g) /\ g[a] = x /\ \A c \in Admins : c # a => g[c] = ad[c]

\* One administrator's record changes.
LEMMA AdminEdit ==
  ASSUME NEW ad, AdminTyped(ad), NEW a \in Admins, NEW x \in AdminRecord,
         NEW g, g = [ad EXCEPT ![a] = x]
  PROVE  Replaced(ad, a, x, g)
BY DEF AdminTyped, Replaced

\* The fields of an administrator.
LEMMA AdminFields ==
  ASSUME NEW ad, AdminTyped(ad), NEW a \in Admins
  PROVE  /\ ad[a] \in AdminRecord /\ ad[a].id \in AnyId /\ ad[a].rounds \in Nat
         /\ ad[a].evicted \in Nat /\ ad[a].blk \in Int
         /\ ad[a].bucket \in Buckets \cup {InvalidBucketId}
BY DEF AdminTyped, AdminRecord

\* An administrator that moves on without a new victim.
LEMMA MovesOn ==
  ASSUME NEW s, NEW ad, NEW a \in Admins, NEW x, NEW g, Replaced(ad, a, x, g),
         ad[a].pc # "none", x.id = ad[a].id,
         Evicting(x) => Evicting(ad[a]) /\ x.bucket = ad[a].bucket /\ x.blk = ad[a].blk,
         Slots(s, ad), Victims(s, ad)
  PROVE  Slots(s, g) /\ Victims(s, g)
<1>1. Slots(s, g)
  BY DEF Replaced, Slots
<1>2. Victims(s, g)
  BY DEF Replaced, Victims
<1> QED
  BY <1>1, <1>2

\* A step that only moves one administrator on.
LEMMA MoveStep ==
  ASSUME AdminInv, NEW a \in Admins, NEW x \in AdminRecord, admin' = [admin EXCEPT ![a] = x],
         admin[a].pc # "none", x.id = admin[a].id,
         Evicting(x) => Evicting(admin[a]) /\ x.bucket = admin[a].bucket /\ x.blk = admin[a].blk,
         UNCHANGED <<shm, h, used>>
  PROVE  AdminInv'
<1>1. Replaced(admin, a, x, admin')
  BY AdminEdit, Zenon DEF AdminInv
<1>2. Slots(shm, admin') /\ Victims(shm, admin')
  BY <1>1, MovesOn, Zenon DEF AdminInv
<1>3. AdminTyped(admin')
  BY <1>1 DEF Replaced
<1> QED
  BY <1>2, <1>3, AdminInvAfter DEF AdminInv, UsedIsEvictable

\* A request to evict.
LEMMA EvictNumOfBlocksStep ==
  ASSUME AdminInv, NEW a \in Admins, EvictNumOfBlocks(a) PROVE AdminInv' /\ UNCHANGED cvars
<1> DEFINE x == [admin[a] EXCEPT !.pc = "mark"]
<1>1. /\ admin[a].pc = "idle" /\ UNCHANGED <<shm, h, cvars>> /\ admin' = [admin EXCEPT ![a] = x]
  BY DEF EvictNumOfBlocks
<1>2. x \in AdminRecord /\ x.id = admin[a].id /\ x.pc = "mark"
  BY AdminFields DEF AdminInv, AdminRecord, AdminStates
<1> HIDE DEF x
<1>3. ~Evicting(x)
  BY <1>2 DEF Evicting
<1> QED
  BY <1>1, <1>2, <1>3, MoveStep, Zenon DEF cvars

\* A turn of the loop begins with a sweep.
LEMMA StartTurnStep == ASSUME AdminInv, NEW a \in Admins, StartTurn(a) PROVE AdminInv' /\ Begin
<1> DEFINE with(y, w, n) == [y EXCEPT !.pc = w, !.rounds = n]
           x == with(admin[a], "sweep", admin[a].rounds + 1)
<1>1. admin[a].pc = "mark" /\ UNCHANGED <<shm, h>> /\ Begin
  BY DEF StartTurn
<1>2. admin' = [admin EXCEPT ![a] = x]
  BY Zenon DEF StartTurn
<1>3. ASSUME NEW y \in AdminRecord, NEW w \in AdminStates, NEW n \in Nat
      PROVE  with(y, w, n) \in AdminRecord /\ with(y, w, n).id = y.id /\ with(y, w, n).pc = w
  BY Zenon DEF AdminRecord
<1>4. admin[a] \in AdminRecord /\ admin[a].rounds + 1 \in Nat /\ "sweep" \in AdminStates
  BY AdminFields DEF AdminInv, AdminStates
<1> HIDE DEF with
<1>5. x \in AdminRecord /\ x.id = admin[a].id /\ x.pc = "sweep"
  BY <1>3, <1>4
<1> HIDE DEF x
<1>6. ~Evicting(x) /\ used' = used
  BY <1>1, <1>5 DEF Evicting, Begin
<1> QED
  BY <1>1, <1>2, <1>5, <1>6, MoveStep, Zenon

\* The upload.
LEMMA WriteBlockStep ==
  ASSUME AdminInv, NEW a \in Admins, WriteBlock(a) PROVE AdminInv' /\ UNCHANGED cvars
<1> DEFINE x == [admin[a] EXCEPT !.pc = "finish"]
<1>1. /\ admin[a].pc = "write" /\ UNCHANGED <<shm, h, cvars>> /\ admin' = [admin EXCEPT ![a] = x]
  BY DEF WriteBlock
<1>2. /\ x \in AdminRecord /\ x.id = admin[a].id /\ x.bucket = admin[a].bucket
      /\ x.blk = admin[a].blk
  BY AdminFields DEF AdminInv, AdminRecord, AdminStates
<1> HIDE DEF x
<1>3. Evicting(admin[a])
  BY <1>1 DEF Evicting
<1> QED
  BY <1>1, <1>2, <1>3, MoveStep, Zenon DEF cvars

\* A new administrator takes a slot that nobody has.
LEMMA MountStep == ASSUME AdminInv, NEW a \in Admins, Mount(a) PROVE AdminInv' /\ UNCHANGED cvars
<1> DEFINE m == FreeSlot(shm)
           with(y, w, i) == [y EXCEPT !.pc = w, !.id = i]
           x == with(admin[a], "idle", m)
<1>1. /\ admin[a].pc = "none" /\ m # InvalidActiveId /\ shm' = RegistAdmin(shm)
      /\ UNCHANGED <<h, cvars>> /\ shm \in Segment /\ AdminTyped(admin)
  BY DEF Mount, AdminInv
<1>2. admin' = [admin EXCEPT ![a] = x]
  BY Zenon DEF Mount
<1>3. m \in ActiveIds /\ ~shm.act[m].used
  BY <1>1, FreeSlotFree
<1>4. /\ shm' \in Segment /\ shm'.bkt = shm.bkt /\ shm'.act[m].used
      /\ \A i \in ActiveIds : i # m => shm'.act[i] = shm.act[i]
  BY <1>1, RegistAdminEffect
<1>5. ASSUME NEW y \in AdminRecord, NEW w \in AdminStates, NEW i \in AnyId
      PROVE  with(y, w, i) \in AdminRecord /\ with(y, w, i).id = i /\ with(y, w, i).pc = w
  BY Zenon DEF AdminRecord
<1>6. admin[a] \in AdminRecord /\ m \in AnyId /\ "idle" \in AdminStates
  BY <1>1, <1>3, AdminFields DEF AnyId, AdminStates
<1> HIDE DEF with, m
<1>7. x \in AdminRecord /\ x.id = m /\ x.pc = "idle"
  BY <1>5, <1>6
<1> HIDE DEF x
<1>8. Replaced(admin, a, x, admin')
  BY <1>1, <1>2, <1>7, AdminEdit, Zenon
<1>9. \A c \in Admins : admin[c].pc # "none" => admin[c].id # m
  BY <1>3 DEF AdminInv, Slots
<1>10. /\ BlocksHeld(shm', h) /\ SpareHeld(shm', h) /\ Settled(shm')
       /\ Slots(shm', admin) /\ Victims(shm', admin) /\ Evictable(shm') = Evictable(shm)
  <2>1. /\ BlocksHeld(shm, h) /\ SpareHeld(shm, h) /\ Settled(shm) /\ Slots(shm, admin)
        /\ Victims(shm, admin) /\ shm \in Segment
    BY DEF AdminInv
  <2>2. /\ shm' \in Segment /\ shm'.bkt = shm.bkt
        /\ \A i \in ActiveIds : i # m => shm'.act[i] = shm.act[i]
    BY <1>4
  <2> QED
    BY <1>9, <2>1, <2>2, OtherSlot
<1>11. Slots(shm', admin')
  <2>1. ASSUME NEW c \in Admins, admin'[c].pc # "none"
        PROVE  admin'[c].id \in ActiveIds /\ shm'.act[admin'[c].id].used
    <3>1. CASE c = a
      BY <1>3, <1>4, <1>7, <1>8, <3>1, Zenon DEF Replaced
    <3>2. CASE c # a
      BY <1>8, <1>10, <2>1, <3>2, Zenon DEF Slots, Replaced
    <3> QED
      BY <3>1, <3>2
  <2>2. ASSUME NEW c \in Admins, NEW d \in Admins, c # d,
               admin'[c].pc # "none", admin'[d].pc # "none"
        PROVE  admin'[c].id # admin'[d].id
    <3>1. \A j \in Admins : j # a => admin'[j] = admin[j]
      BY <1>8, Zenon DEF Replaced
    <3>2. admin'[a].id = m
      BY <1>7, <1>8, Zenon DEF Replaced
    <3>3. CASE c # a /\ d # a
      BY <1>10, <2>2, <3>1, <3>3, Zenon DEF Slots
    <3>4. CASE c = a \/ d = a
      BY <1>9, <2>2, <3>1, <3>2, <3>4, Zenon
    <3> QED
      BY <3>3, <3>4
  <2> QED
    BY <2>1, <2>2, Zenon DEF Slots
<1>12. Victims(shm', admin')
  BY <1>7, <1>8, <1>10 DEF Victims, Replaced, Evicting
<1>13. AdminTyped(admin') /\ used' = Evictable(shm') /\ h' = h
  BY <1>1, <1>8, <1>10 DEF Replaced, cvars, AdminInv, UsedIsEvictable
<1>14. AdminInv'
  BY <1>4, <1>10, <1>11, <1>12, <1>13, AdminInvAfter DEF AdminInv
<1> QED
  BY <1>1, <1>14

\* An administrator gives its slot back.
LEMMA UnmountStep ==
  ASSUME AdminInv, NEW a \in Admins, Unmount(a) PROVE AdminInv' /\ UNCHANGED cvars
<1> DEFINE m == admin[a].id
<1>1. /\ admin[a].pc = "idle" /\ shm' = UnregistFile(shm, m) /\ admin' = [admin EXCEPT ![a] = NewAdmin]
      /\ UNCHANGED <<h, cvars>> /\ shm \in Segment /\ AdminTyped(admin)
  BY DEF Unmount, AdminInv
<1>2. m \in ActiveIds
  BY <1>1 DEF AdminInv, Slots
<1>3. NewAdmin \in AdminRecord /\ NewAdmin.pc = "none"
  BY DEF NewAdmin, AdminRecord, AdminStates, AnyId, InvalidBlockId
<1>4. Replaced(admin, a, NewAdmin, admin')
  BY <1>1, <1>3, AdminEdit, Zenon
<1>5. shm' \in Segment
  BY <1>1, UnregistFileKeeps DEF Keeps
<1> HIDE DEF m
<1>6. shm'.bkt = shm.bkt /\ \A i \in ActiveIds : i # m => shm'.act[i] = shm.act[i]
  BY <1>1, <1>2, UnregistEffect
<1>7. \A c \in Admins : admin'[c].pc # "none" => admin'[c].id # m
  BY <1>1, <1>3, <1>4 DEF AdminInv, Slots, Replaced, m
<1>8. Slots(shm, admin')
  BY <1>3, <1>4, ZenonT(40) DEF AdminInv, Slots, Replaced
<1>9. Victims(shm, admin')
  BY <1>3, <1>4 DEF AdminInv, Victims, Replaced, Evicting
<1>10. /\ BlocksHeld(shm', h) /\ SpareHeld(shm', h) /\ Settled(shm')
       /\ Slots(shm', admin') /\ Victims(shm', admin') /\ Evictable(shm') = Evictable(shm)
  BY <1>1, <1>5, <1>6, <1>7, <1>8, <1>9, OtherSlot, ZenonT(40) DEF AdminInv
<1>11. AdminTyped(admin') /\ used' = Evictable(shm') /\ h' = h
  BY <1>1, <1>4, <1>10 DEF Replaced, cvars, AdminInv, UsedIsEvictable
<1>12. AdminInv'
  BY <1>5, <1>10, <1>11, AdminInvAfter DEF AdminInv
<1> QED
  BY <1>1, <1>12

\* An administrator that keeps its slot disturbs nobody's slot.
LEMMA SlotsKept ==
  ASSUME NEW s, NEW t, NEW ad, NEW a \in Admins, NEW x, NEW g, Replaced(ad, a, x, g),
         Slots(s, ad), ad[a].pc # "none", x.id = ad[a].id,
         \A i \in ActiveIds : s.act[i].used => t.act[i].used
  PROVE  Slots(t, g)
<1>1. \A c \in Admins : g[c].id = ad[c].id /\ (g[c].pc # "none" => ad[c].pc # "none")
  BY DEF Replaced
<1> QED
  BY <1>1 DEF Slots

\* A victim that was marked: the segment and the Admins keep their part of the invariant, and
\* no other used bucket stops being evictable.
LEMMA MarkedKeeps ==
  ASSUME NEW s, NEW t, NEW b \in Buckets, NEW ad, NEW a \in Admins, NEW x, NEW g, NEW hh,
         Marked(s, t, b, ad[a].id), s.bkt[b].type = "used", ~s.bkt[b].evicting, HandleTyped(hh),
         Replaced(ad, a, x, g), ad[a].pc = "sweep", x.id = ad[a].id, x.bucket = b,
         x.blk = s.bkt[b].blk,
         BlocksHeld(s, hh), SpareHeld(s, hh), Settled(s), Slots(s, ad), Victims(s, ad)
  PROVE  /\ BlocksHeld(t, hh) /\ SpareHeld(t, hh) /\ Settled(t) /\ Slots(t, g) /\ Victims(t, g)
         /\ Evictable(t) = Evictable(s) \ {b}
<1>1. \A c \in Buckets : c # b => t.bkt[c] = s.bkt[c]
  BY DEF Marked
<1>2. BlocksHeld(t, hh) /\ SpareHeld(t, hh)
  <2>1. /\ \A j \in DOMAIN hh.blocks : hh.blocks[j].bucket \in Buckets
        /\ hh.spare # InvalidBucketId => hh.spare \in Buckets
    BY BlocksTyped DEF HandleTyped
  <2>2. BlocksHeld(t, hh)
    BY <1>1, <2>1, ZenonT(40) DEF BlocksHeld
  <2>3. SpareHeld(t, hh)
    BY <1>1, <2>1 DEF SpareHeld
  <2> QED
    BY <2>2, <2>3
<1>3. Settled(t)
  <2>1. ASSUME NEW c \in Buckets
        PROVE  /\ t.bkt[c].type = "used" => NoActiveReadWrite(t.bkt[c].infos)
               /\ t.bkt[c].type = "free" => t.bkt[c].blk = InvalidBlockId
    <3>1. CASE c # b
      BY <1>1, <3>1, Zenon DEF Settled
    <3>2. CASE c = b
      <4>1. t.bkt[b].type = "used" /\ t.bkt[b].infos = s.bkt[b].infos
        BY Zenon DEF Marked, Evicts
      <4>2. NoActiveReadWrite(s.bkt[b].infos)
        BY Zenon DEF Settled
      <4> QED
        BY <3>2, <4>1, <4>2, Zenon
    <3> QED
      BY <3>1, <3>2
  <2> QED
    BY <2>1, Zenon DEF Settled
<1>4. Slots(t, g)
  <2>1. \A i \in ActiveIds : s.act[i].used => t.act[i].used
    BY DEF Marked
  <2> QED
    BY <2>1, SlotsKept
<1>5. ASSUME NEW c \in Admins, c # a, Evicting(ad[c])
      PROVE  /\ ad[c].bucket \in Buckets
             /\ t.act[ad[c].id].stolen \/ Evicts(t, ad[c].id, ad[c].bucket, ad[c].blk)
  <2>1. /\ ad[c].bucket \in Buckets
        /\ s.act[ad[c].id].stolen \/ Evicts(s, ad[c].id, ad[c].bucket, ad[c].blk)
    BY <1>5 DEF Victims
  <2>2. ad[c].id \in ActiveIds /\ ad[c].id # ad[a].id
    BY <1>5 DEF Slots, Evicting
  <2>3. t.act[ad[c].id] = s.act[ad[c].id]
    BY <2>2 DEF Marked
  <2>4. Evicts(s, ad[c].id, ad[c].bucket, ad[c].blk) => ad[c].bucket # b
    BY DEF Evicts
  <2> QED
    BY <1>1, <2>1, <2>3, <2>4, Zenon DEF Evicts
<1>6. Evicts(t, x.id, x.bucket, x.blk) /\ x.bucket \in Buckets
  BY DEF Marked
<1>7. Victims(t, g)
  BY <1>5, <1>6 DEF Victims, Replaced
<1>8. Evictable(t) = Evictable(s) \ {b}
  BY DEF Evictable, Marked, Evicts
<1> QED
  BY <1>2, <1>3, <1>4, <1>7, <1>8

\* The step of Sweep that finds a victim: the sweep ends there, and the Admin marks the bucket
\* and goes on to write it.
FindBy(a) ==
  /\ admin[a].pc = "sweep" /\ Find /\ shm' = MarkBucketEvicting(shm, hand, admin[a].id) /\ UNCHANGED h
  /\ admin' = [admin EXCEPT ![a] = [admin[a] EXCEPT !.pc = "write", !.bucket = hand,
                                                    !.blk = shm.bkt[hand].blk]]

\* The sweep finds a victim.
LEMMA FindStep == ASSUME AdminInv, NEW a \in Admins, FindBy(a) PROVE AdminInv'
<1> DEFINE b == hand
           k == shm.bkt[b].blk
           id == admin[a].id
           with(y, w, c, n) == [y EXCEPT !.pc = w, !.bucket = c, !.blk = n]
           x == with(admin[a], "write", b, k)
<1>1. /\ used = Evictable(shm) /\ used' = used \ {b} /\ b \in used /\ shm \in Segment
      /\ AdminTyped(admin)
  BY DEF FindBy, Find, AdminInv, UsedIsEvictable
<1>2. b \in Buckets /\ shm.bkt[b].type = "used" /\ ~shm.bkt[b].evicting
  BY <1>1 DEF Evictable
<1>3. k \in Int
  <2>1. shm.bkt[b] \in ShareMemBucket
    BY <1>1, <1>2, SegmentFields
  <2> QED
    BY <2>1 DEF ShareMemBucket
<1>4. id \in ActiveIds /\ id \in AnyId /\ admin[a].pc = "sweep" /\ h' = h
  BY DEF FindBy, AdminInv, Slots, AnyId
<1>5. admin' = [admin EXCEPT ![a] = x]
  BY Zenon DEF FindBy
<1>6. ASSUME NEW y \in AdminRecord, NEW w \in AdminStates, NEW c \in Buckets, NEW n \in Int
      PROVE  /\ with(y, w, c, n) \in AdminRecord /\ with(y, w, c, n).id = y.id
             /\ with(y, w, c, n).bucket = c /\ with(y, w, c, n).blk = n
  BY Zenon DEF AdminRecord
<1>7. admin[a] \in AdminRecord /\ "write" \in AdminStates
  BY <1>1, AdminFields DEF AdminStates
<1> HIDE DEF with, k, b, id
<1>8. x \in AdminRecord /\ x.id = admin[a].id /\ x.bucket = b /\ x.blk = k
  BY <1>2, <1>3, <1>6, <1>7
<1> HIDE DEF x
<1>9. Replaced(admin, a, x, admin')
  BY <1>1, <1>5, <1>8, AdminEdit, Zenon
<1>10. shm' = MarkBucketEvicting(shm, b, id) /\ k = shm.bkt[b].blk /\ id = admin[a].id
  BY DEF FindBy, b, k, id
<1>11. shm' \in Segment
  BY <1>1, <1>2, <1>4, <1>10, MarkBucketEvictingKeeps DEF Keeps
<1>12. Marked(shm, shm', b, id)
  BY <1>1, <1>2, <1>4, <1>10, MarkEvictingEffect
<1>13. /\ BlocksHeld(shm', h) /\ SpareHeld(shm', h) /\ Settled(shm') /\ Slots(shm', admin')
       /\ Victims(shm', admin') /\ Evictable(shm') = Evictable(shm) \ {b}
  <2>1. /\ Marked(shm, shm', b, admin[a].id) /\ x.blk = shm.bkt[b].blk
    BY <1>8, <1>10, <1>12, Zenon
  <2>2. /\ BlocksHeld(shm, h) /\ SpareHeld(shm, h) /\ Settled(shm) /\ Slots(shm, admin)
        /\ Victims(shm, admin) /\ HandleTyped(h)
    BY DEF AdminInv
  <2> QED
    BY <1>2, <1>4, <1>8, <1>9, <2>1, <2>2, MarkedKeeps, ZenonT(40)
<1>14. AdminTyped(admin') /\ HandleTyped(h')
  BY <1>4, <1>9 DEF Replaced, AdminInv
<1> QED
  BY <1>1, <1>4, <1>11, <1>13, <1>14, AdminInvAfter

\* A turn of the sweep.
LEMMA AdminSweepStep == ASSUME AdminInv, NEW a \in Admins, Sweep(a) PROVE AdminInv' /\ Turn
<1>1. CASE (Pass \/ Skip) /\ UNCHANGED avars
  <2>1. UNCHANGED <<shm, h, admin, used>>
    BY <1>1 DEF avars, Pass, Skip
  <2>2. AdminInv'
    BY <2>1, AdminInvAfter DEF AdminInv, UsedIsEvictable
  <2> QED
    BY <1>1, <2>2 DEF Turn
<1>2. CASE GiveUp /\ admin' = [admin EXCEPT ![a] = [admin[a] EXCEPT !.pc = "failed"]]
           /\ UNCHANGED <<shm, h, remote>>
  <2> DEFINE x == [admin[a] EXCEPT !.pc = "failed"]
  <2>1. x \in AdminRecord /\ x.id = admin[a].id /\ x.pc = "failed"
    BY AdminFields DEF AdminInv, AdminRecord, AdminStates
  <2>2. admin' = [admin EXCEPT ![a] = x] /\ used' = used /\ admin[a].pc = "sweep"
    BY <1>2 DEF GiveUp, Sweep
  <2> HIDE DEF x
  <2>3. ~Evicting(x)
    BY <2>1 DEF Evicting
  <2>4. AdminInv'
    BY <1>2, <2>1, <2>2, <2>3, MoveStep, Zenon
  <2> QED
    BY <1>2, <2>4 DEF Turn
<1>3. CASE /\ Find /\ shm' = MarkBucketEvicting(shm, hand, admin[a].id) /\ UNCHANGED <<h, remote>>
           /\ admin' = [admin EXCEPT ![a] = [admin[a] EXCEPT !.pc = "write", !.bucket = hand,
                                                             !.blk = shm.bkt[hand].blk]]
  <2>1. FindBy(a)
    BY <1>3, Zenon DEF Sweep, FindBy
  <2> QED
    BY <1>3, <2>1, FindStep, Zenon DEF Turn
<1> QED
  BY <1>1, <1>2, <1>3, Zenon DEF Sweep

\* A bucket whose eviction ended, or was stolen: the same, and the bucket is free unless stolen.
LEMMA FinishedKeeps ==
  ASSUME NEW s, NEW t, NEW b \in Buckets, NEW ad, NEW a \in Admins, NEW x, NEW g, NEW hh,
         Finished(s, t, b, ad[a].id), HandleTyped(hh), Replaced(ad, a, x, g),
         s.act[ad[a].id].stolen \/ Evicts(s, ad[a].id, b, ad[a].blk),
         ad[a].pc = "finish", x.id = ad[a].id, ~Evicting(x),
         BlocksHeld(s, hh), SpareHeld(s, hh), Settled(s), Slots(s, ad), Victims(s, ad)
  PROVE  /\ BlocksHeld(t, hh) /\ SpareHeld(t, hh) /\ Settled(t) /\ Slots(t, g) /\ Victims(t, g)
         /\ s.act[ad[a].id].stolen => Evictable(t) = Evictable(s)
         /\ ~s.act[ad[a].id].stolen => Evictable(t) = Evictable(s) \ {b}
<1> DEFINE id == ad[a].id
<1>0. ResetBucket.type = "free" /\ ResetBucket.blk = InvalidBlockId
  BY DEF ResetBucket
<1>1. \/ t.bkt = s.bkt /\ s.act[id].stolen
      \/ /\ ~s.act[id].stolen /\ t.bkt[b].type = "free" /\ t.bkt[b].blk = InvalidBlockId
         /\ s.bkt[b].type = "used" /\ s.bkt[b].evicting /\ s.bkt[b].by = id
         /\ \A c \in Buckets : c # b => t.bkt[c] = s.bkt[c]
  BY <1>0 DEF Finished, Evicts
<1>2. BlocksHeld(t, hh) /\ SpareHeld(t, hh)
  <2>1. /\ \A j \in DOMAIN hh.blocks : hh.blocks[j].bucket \in Buckets
        /\ hh.spare # InvalidBucketId => hh.spare \in Buckets
    BY BlocksTyped DEF HandleTyped
  <2>2. BlocksHeld(t, hh)
    <3>1. ASSUME NEW j \in DOMAIN hh.blocks, hh.blocks[j].active
          PROVE  t.bkt[hh.blocks[j].bucket].type = "active" /\ t.bkt[hh.blocks[j].bucket].blk = j
      <4>1. /\ hh.blocks[j].bucket \in Buckets
            /\ s.bkt[hh.blocks[j].bucket].type = "active" /\ s.bkt[hh.blocks[j].bucket].blk = j
        BY <2>1, <3>1, Zenon DEF BlocksHeld
      <4>2. t.bkt[hh.blocks[j].bucket] = s.bkt[hh.blocks[j].bucket]
        BY <1>1, <4>1, Zenon
      <4> QED
        BY <4>1, <4>2, Zenon
    <3> QED
      BY <3>1, Zenon DEF BlocksHeld
  <2>3. SpareHeld(t, hh)
    BY <1>1, <2>1 DEF SpareHeld
  <2> QED
    BY <2>2, <2>3
<1>3. Settled(t)
  BY <1>1 DEF Settled
<1>4. Slots(t, g)
  <2>1. \A i \in ActiveIds : s.act[i].used => t.act[i].used
    BY DEF Finished
  <2> QED
    BY <2>1, SlotsKept
<1>5. ASSUME NEW c \in Admins, c # a, Evicting(ad[c])
      PROVE  /\ ad[c].bucket \in Buckets
             /\ t.act[ad[c].id].stolen \/ Evicts(t, ad[c].id, ad[c].bucket, ad[c].blk)
  <2>1. /\ ad[c].bucket \in Buckets
        /\ s.act[ad[c].id].stolen \/ Evicts(s, ad[c].id, ad[c].bucket, ad[c].blk)
    BY <1>5 DEF Victims
  <2>2. ad[c].id \in ActiveIds /\ ad[c].id # id
    BY <1>5 DEF Slots, Evicting
  <2>3. t.act[ad[c].id] = s.act[ad[c].id]
    BY <2>2 DEF Finished
  <2>4. Evicts(s, ad[c].id, ad[c].bucket, ad[c].blk)
          => t.bkt[ad[c].bucket] = s.bkt[ad[c].bucket]
    BY <1>1, <2>1, <2>2, Zenon DEF Evicts
  <2> QED
    BY <2>1, <2>3, <2>4, Zenon DEF Evicts
<1>6. Victims(t, g)
  BY <1>5 DEF Victims, Replaced
<1>7. /\ s.act[id].stolen => Evictable(t) = Evictable(s)
      /\ ~s.act[id].stolen => Evictable(t) = Evictable(s) \ {b}
  BY <1>1 DEF Evictable
<1> QED
  BY <1>2, <1>3, <1>4, <1>6, <1>7

\* An eviction ends.
LEMMA FinishStep ==
  ASSUME AdminInv, NEW a \in Admins, Finish(a)
  PROVE  AdminInv' /\ (UNCHANGED cvars \/ \E b \in Buckets : Clear(b))
<1> DEFINE b == admin[a].bucket
           id == admin[a].id
           rc == EvictFinishRc(shm, b, id)
           n == IF rc = 0 THEN admin[a].evicted + 1 ELSE admin[a].evicted
           with(y, w, e) == [y EXCEPT !.pc = w, !.evicted = e]
           x == with(admin[a], "mark", n)
<1>1. /\ admin[a].pc = "finish" /\ used = Evictable(shm) /\ shm \in Segment /\ AdminTyped(admin)
      /\ shm' = EvictBucketFinishAndTryFree(shm, b, id) /\ used' = Evictable(shm') /\ h' = h
      /\ usage' = IF rc = 2 THEN usage ELSE [usage EXCEPT ![b] = 0]
      /\ pc = "idle" /\ UNCHANGED <<hand, tries, pc, start>>
  BY DEF Finish, AdminInv, UsedIsEvictable, Commit, Unlocked, NoSweep
<1>2. admin' = [admin EXCEPT ![a] = x]
  BY Zenon DEF Finish
<1>3. /\ b \in Buckets /\ id \in ActiveIds
      /\ shm.act[id].stolen \/ Evicts(shm, id, b, admin[a].blk)
  <2>1. Victims(shm, admin) /\ Slots(shm, admin)
    BY DEF AdminInv
  <2> QED
    BY <1>1, <2>1 DEF Victims, Evicting, Slots
<1>4. n \in Nat /\ admin[a] \in AdminRecord /\ "mark" \in AdminStates
  <2>1. AdminTyped(admin)
    BY <1>1
  <2>2. admin[a] \in AdminRecord /\ admin[a].evicted \in Nat
    BY <2>1, AdminFields, Zenon
  <2>3. "mark" \in AdminStates
    BY Zenon DEF AdminStates
  <2> HIDE DEF rc, with
  <2>4. n \in Nat
    BY <2>2
  <2> QED
    BY <2>2, <2>3, <2>4, Zenon
<1>5. rc = 2 <=> shm.act[id].stolen
  BY DEF EvictFinishRc
<1>6. ASSUME NEW y \in AdminRecord, NEW w \in AdminStates, NEW e \in Nat
      PROVE  with(y, w, e) \in AdminRecord /\ with(y, w, e).id = y.id /\ with(y, w, e).pc = w
  BY Zenon DEF AdminRecord
<1> HIDE DEF with, n, rc
<1>7. x \in AdminRecord /\ x.id = admin[a].id /\ x.pc = "mark"
  BY <1>4, <1>6
<1> HIDE DEF x
<1>8. Replaced(admin, a, x, admin') /\ ~Evicting(x)
  BY <1>1, <1>2, <1>7, AdminEdit, Zenon DEF Evicting
<1> HIDE DEF b, id
<1>9. Finished(shm, shm', b, id)
  BY <1>1, <1>3, FinishEffect
<1>10. /\ BlocksHeld(shm', h) /\ SpareHeld(shm', h) /\ Settled(shm') /\ Slots(shm', admin')
       /\ Victims(shm', admin')
       /\ shm.act[id].stolen => Evictable(shm') = Evictable(shm)
       /\ ~shm.act[id].stolen => Evictable(shm') = Evictable(shm) \ {b}
  <2>1. /\ admin[a].pc = "finish" /\ x.id = admin[a].id /\ b \in Buckets
        /\ Finished(shm, shm', b, admin[a].id)
        /\ shm.act[admin[a].id].stolen \/ Evicts(shm, admin[a].id, b, admin[a].blk)
    BY <1>1, <1>3, <1>7, <1>9, Zenon DEF id
  <2>2. /\ BlocksHeld(shm, h) /\ SpareHeld(shm, h) /\ Settled(shm) /\ Slots(shm, admin)
        /\ Victims(shm, admin) /\ HandleTyped(h)
    BY DEF AdminInv
  <2> QED
    BY <1>8, <2>1, <2>2, FinishedKeeps, Zenon DEF id
<1>11. AdminInv'
  <2>1. shm' \in Segment /\ AdminTyped(admin') /\ HandleTyped(h')
    BY <1>1, <1>8, <1>9 DEF Finished, Replaced, AdminInv
  <2> QED
    BY <1>1, <1>10, <2>1, AdminInvAfter
<1>12. CASE shm.act[id].stolen
  <2>1. used' = used /\ usage' = usage
    BY <1>1, <1>5, <1>10, <1>12 DEF id
  <2> QED
    BY <1>1, <1>11, <2>1 DEF cvars
<1>13. CASE ~shm.act[id].stolen
  <2>1. usage' = [usage EXCEPT ![b] = 0]
    BY <1>1, <1>5, <1>13 DEF id
  <2>2. used' = used \ {b}
    BY <1>1, <1>10, <1>13
  <2>3. Clear(b)
    BY <1>1, <2>1, <2>2, Zenon DEF Clear
  <2> QED
    BY <1>3, <1>11, <2>3
<1> QED
  BY <1>12, <1>13

-----------------------------------------------------------------------------
(* The clock sweep.  The inductive invariant relates the counts in the middle of a sweep
   to those at its start.  The hand has taken one count from every bucket it passed in each
   complete round, and one more from those it has passed in the current round (Decremented).
   The buckets passed since the counter of tries was last reset cannot be evicted (Tried). *)

Passed(b) == Distance(start.hand, b) < Distance(start.hand, hand)

Decremented ==
  \A b \in used :
    /\ Passed(b) => usage[b] = start.usage[b] - start.round - 1 /\ usage[b] >= 0
    /\ ~Passed(b) => usage[b] = start.usage[b] - start.round /\ (start.round > 0 => usage[b] >= 0)

\* How many moves ago the hand left b.
Behind(b) == IF b < hand THEN hand - b ELSE hand - b + NumBuckets

Tried == \A b \in used : Behind(b) > NumBuckets - tries

SweepTypes ==
  /\ used \subseteq Buckets /\ usage \in [Buckets -> Int] /\ hand \in Buckets
  /\ tries \in 1 .. NumBuckets /\ pc \in {"idle", "sweep"}
  /\ start \in [usage : [Buckets -> Int], hand : Buckets, round : Nat]

SweepInv == SweepTypes /\ (pc = "sweep" => Decremented /\ Tried)

\* The hand stays in the array of buckets.
LEMMA NextBucketType ==
  ASSUME NEW b \in Buckets
  PROVE  NextBucket(b) \in Buckets
  BY NumBucketsAssumption DEF NextBucket, Buckets

\* A move of the hand takes it one bucket further from where the sweep began, or back there
\* when it had come all the way round.
LEMMA DistanceStep ==
  ASSUME NEW s \in Buckets, NEW b \in Buckets
  PROVE  /\ NextBucket(b) # s => Distance(s, NextBucket(b)) = Distance(s, b) + 1
         /\ NextBucket(b) = s => Distance(s, NextBucket(b)) = 0 /\ Distance(s, b) = NumBuckets - 1
  BY NumBucketsAssumption DEF NextBucket, Distance, Buckets

\* Distances tell the buckets apart, and none reaches the number of buckets.
LEMMA DistanceBounds ==
  ASSUME NEW s \in Buckets, NEW b \in Buckets, NEW c \in Buckets
  PROVE  /\ Distance(s, b) \in 0 .. NumBuckets - 1
         /\ Distance(s, b) = Distance(s, c) => b = c
  BY NumBucketsAssumption DEF Distance, Buckets

\* A count stays an integer when it wraps around.
LEMMA WrapType ==
  ASSUME NEW x \in Int
  PROVE  Wrap(x) \in Int
  BY CountLimitAssumption DEF Wrap

\* Nothing of a sweep is claimed before one begins.
LEMMA SweepInit == CSInit => SweepInv
  BY NumBucketsAssumption DEF CSInit, SweepInv, SweepTypes, NoStart, Buckets

\* What Advance does to the hand and to the history.
LEMMA AdvanceStart ==
  ASSUME SweepTypes, Advance
  PROVE  /\ hand' = NextBucket(hand) /\ hand' \in Buckets /\ pc' = pc
         /\ start' \in [usage : [Buckets -> Int], hand : Buckets, round : Nat]
         /\ start'.usage = start.usage /\ start'.hand = start.hand
         /\ NextBucket(hand) = start.hand => start'.round = start.round + 1
         /\ NextBucket(hand) # start.hand => start'.round = start.round
  BY NextBucketType DEF SweepTypes, Advance

\* Advancing past a bucket leaves the relation between old and new counts intact when the
\* bucket lost one count (Pass) or does not matter (Skip).
LEMMA AdvanceDecremented ==
  ASSUME SweepTypes, Decremented, Advance, used' = used, usage' \in [Buckets -> Int],
         \A b \in used : b # hand => usage'[b] = usage[b],
         hand \in used => usage'[hand] = usage[hand] - 1 /\ usage[hand] > 0
  PROVE  Decremented'
<1> SUFFICES ASSUME NEW b \in used
             PROVE  /\ Passed(b)' => usage'[b] = start'.usage[b] - start'.round - 1 /\ usage'[b] >= 0
                    /\ ~Passed(b)' => /\ usage'[b] = start'.usage[b] - start'.round
                                      /\ start'.round > 0 => usage'[b] >= 0
  BY DEF Decremented
<1>1. /\ b \in Buckets /\ hand \in Buckets /\ start.hand \in Buckets
      /\ usage[b] \in Int /\ usage'[b] \in Int /\ start.usage[b] \in Int /\ start.round \in Nat
      /\ usage[hand] \in Int
  BY DEF SweepTypes
<1>2. /\ hand' = NextBucket(hand) /\ start'.usage = start.usage /\ start'.hand = start.hand
      /\ NextBucket(hand) = start.hand => start'.round = start.round + 1
      /\ NextBucket(hand) # start.hand => start'.round = start.round
  BY AdvanceStart
<1>3. Passed(b)' <=> Distance(start.hand, b) < Distance(start.hand, NextBucket(hand))
  BY <1>2 DEF Passed
<1>4. /\ Distance(start.hand, b) \in 0 .. NumBuckets - 1
      /\ Distance(start.hand, hand) \in 0 .. NumBuckets - 1
      /\ Distance(start.hand, b) = Distance(start.hand, hand) => b = hand
      /\ b = hand => Distance(start.hand, b) = Distance(start.hand, hand)
  BY <1>1, DistanceBounds
<1>5. /\ Passed(b) => usage[b] = start.usage[b] - start.round - 1 /\ usage[b] >= 0
      /\ ~Passed(b) => usage[b] = start.usage[b] - start.round /\ (start.round > 0 => usage[b] >= 0)
      /\ Passed(b) <=> Distance(start.hand, b) < Distance(start.hand, hand)
  BY DEF Decremented, Passed
<1>6. b # hand => usage'[b] = usage[b]
  OBVIOUS
<1>7. b = hand => usage'[b] = usage[b] - 1 /\ usage[b] > 0
  OBVIOUS
<1> DEFINE d == Distance(start.hand, b)
           e == Distance(start.hand, hand)
           f == Distance(start.hand, NextBucket(hand))
<1>d. /\ d \in 0 .. NumBuckets - 1 /\ e \in 0 .. NumBuckets - 1 /\ (d = e <=> b = hand)
      /\ Passed(b)' <=> d < f
      /\ Passed(b) <=> d < e
  BY <1>3, <1>4, <1>5, Zenon
<1> HIDE DEF d, e, f
<1>8. CASE NextBucket(hand) = start.hand
  <2>1. f = 0 /\ e = NumBuckets - 1
    BY <1>1, <1>8, DistanceStep DEF e, f
  <2>2. ~Passed(b)' /\ start'.round = start.round + 1
    <3>1. ~ (d < f)
      BY <1>d, <2>1
    <3> QED
      BY <1>2, <1>8, <1>d, <3>1, Zenon
  <2>3. b # hand => Passed(b)
    <3>1. d # e => d < e
      BY <1>d, <2>1, NumBucketsAssumption
    <3> QED
      BY <1>d, <3>1, Zenon
  <2>4. b = hand => ~Passed(b)
    <3>1. d = e => ~ (d < e)
      BY <1>d
    <3> QED
      BY <1>d, <3>1, Zenon
  <2>5. usage'[b] = start.usage[b] - (start.round + 1) /\ usage'[b] >= 0
    <3> DEFINE u == usage[b]
               v == usage'[b]
               w == start.usage[b]
               r == start.round
    <3>1. u \in Int /\ v \in Int /\ w \in Int /\ r \in Nat
      BY <1>1, Zenon
    <3>2. \/ u = w - r - 1 /\ u >= 0 /\ v = u
          \/ u = w - r /\ u > 0 /\ v = u - 1
      BY <2>3, <2>4, <1>5, <1>6, <1>7, Zenon
    <3> HIDE DEF u, v, w, r
    <3>3. v = w - (r + 1) /\ v >= 0
      BY <3>1, <3>2
    <3> QED
      BY <3>3, Zenon DEF v, w, r
  <2> QED
    BY <2>2, <2>5, <1>2, Zenon
<1>9. CASE NextBucket(hand) # start.hand
  <2>1. f = e + 1
    BY <1>1, <1>9, DistanceStep DEF e, f
  <2>2. start'.round = start.round
    BY <1>2, <1>9, Zenon
  <2>3. b # hand => (Passed(b)' <=> Passed(b))
    <3>1. d # e => (d < f <=> d < e)
      BY <1>d, <2>1
    <3> QED
      BY <1>d, <3>1, Zenon
  <2>4. b = hand => Passed(b)' /\ ~Passed(b)
    <3>1. d = e => d < f /\ ~ (d < e)
      BY <1>d, <2>1
    <3> QED
      BY <1>d, <3>1, Zenon
  <2>5. CASE b # hand
    BY <2>2, <2>3, <2>5, <1>2, <1>5, <1>6, Zenon
  <2>6. CASE b = hand
    <3> DEFINE u == usage[b]
               v == usage'[b]
               w == start.usage[b]
               r == start.round
    <3>1. u \in Int /\ v \in Int /\ w \in Int /\ r \in Nat
      BY <1>1, Zenon
    <3>2. u = w - r /\ u > 0 /\ v = u - 1
      BY <2>4, <2>6, <1>5, <1>7, Zenon
    <3> HIDE DEF u, v, w, r
    <3>3. v = w - r - 1 /\ v >= 0
      BY <3>1, <3>2
    <3>4. usage'[b] = start.usage[b] - start.round - 1 /\ usage'[b] >= 0
      BY <3>3, Zenon DEF v, w, r
    <3> QED
      BY <2>2, <2>4, <2>6, <3>4, <1>2, Zenon
  <2> QED
    BY <2>5, <2>6
<1>. QED BY <1>8, <1>9

\* A step of the specification keeps the invariant.
LEMMA SweepStep == SweepInv /\ [CSNext]_cvars => SweepInv'
<1> SUFFICES ASSUME SweepInv, [CSNext]_cvars
             PROVE  SweepInv'
  OBVIOUS
<1>t. SweepTypes
  BY DEF SweepInv
<1>n. NumBuckets \in Nat \ {0}
  BY NumBucketsAssumption
<1>1. CASE Begin
  <2>1. SweepTypes'
    BY <1>1, <1>t, <1>n DEF Begin, SweepTypes
  <2>2. /\ used' = used /\ usage' = usage /\ hand' = hand /\ tries' = NumBuckets
        /\ start'.usage = usage /\ start'.hand = hand /\ start'.round = 0
    BY <1>1 DEF Begin
  <2>3. Decremented'
    <3> SUFFICES ASSUME NEW b \in used
                 PROVE  ~Passed(b)' /\ usage'[b] = start'.usage[b] - start'.round /\ ~(start'.round > 0)
      BY <2>2 DEF Decremented
    <3>1. b \in Buckets /\ hand \in Buckets /\ usage[b] \in Int
      BY <1>t DEF SweepTypes
    <3>2. Distance(hand, b) >= 0 /\ Distance(hand, hand) = 0 /\ Distance(hand, b) \in Int
      BY <3>1, <1>n DEF Distance, Buckets
    <3>3. Passed(b)' <=> Distance(hand, b) < Distance(hand, hand)
      BY <2>2 DEF Passed
    <3>. QED BY <2>2, <3>1, <3>2, <3>3
  <2>4. Tried'
    <3>1. SUFFICES ASSUME NEW b \in used PROVE Behind(b)' > 0
      BY <2>2, <1>n DEF Tried
    <3>2. b \in 0 .. NumBuckets - 1 /\ hand \in 0 .. NumBuckets - 1
      BY <1>t DEF SweepTypes, Buckets
    <3>3. Behind(b)' = IF b < hand THEN hand - b ELSE hand - b + NumBuckets
      BY <2>2 DEF Behind
    <3>. QED BY <1>n, <3>2, <3>3
  <2>. QED BY <2>1, <2>3, <2>4 DEF SweepInv
<1>2. CASE Pass
  <2>1. /\ Advance /\ pc = "sweep" /\ hand \in used /\ usage[hand] > 0 /\ used' = used
        /\ usage' = [usage EXCEPT ![hand] = @ - 1] /\ tries' = NumBuckets
    BY <1>2 DEF Pass
  <2>2. hand \in Buckets /\ usage \in [Buckets -> Int] /\ used \subseteq Buckets
    BY <1>t DEF SweepTypes
  <2>3. usage' \in [Buckets -> Int] /\ usage'[hand] = usage[hand] - 1
    BY <2>1, <2>2
  <2>4. \A b \in used : b # hand => usage'[b] = usage[b]
    BY <2>1, <2>2
  <2>5. SweepTypes'
    BY <2>1, <2>2, <2>3, <1>t, <1>n, AdvanceStart DEF SweepTypes
  <2>6. Decremented'
    BY <2>1, <2>3, <2>4, <1>t, AdvanceDecremented DEF SweepInv
  <2>7. Tried'
    <3>1. hand' \in Buckets
      BY <2>5 DEF SweepTypes
    <3> SUFFICES ASSUME NEW b \in used
                 PROVE  Behind(b)' > NumBuckets - tries'
      BY <2>1 DEF Tried
    <3>2. b \in Buckets
      BY <2>2
    <3>3. NumBuckets - tries' = 0
      BY <2>1, <1>n
    <3>4. Behind(b)' = IF b < hand' THEN hand' - b ELSE hand' - b + NumBuckets
      BY DEF Behind
    <3>5. \A x \in Buckets : (IF b < x THEN x - b ELSE x - b + NumBuckets) > 0
      BY <3>2, <1>n DEF Buckets
    <3>. QED BY <3>1, <3>3, <3>4, <3>5
  <2>. QED BY <2>5, <2>6, <2>7 DEF SweepInv
<1>3. CASE Skip
  <2>1. /\ Advance /\ pc = "sweep" /\ hand \notin used /\ used' = used /\ usage' = usage
        /\ tries - 1 # 0 /\ tries' = tries - 1
    BY <1>3 DEF Skip
  <2>2. /\ hand \in Buckets /\ usage \in [Buckets -> Int] /\ used \subseteq Buckets
        /\ tries \in 1 .. NumBuckets
    BY <1>t DEF SweepTypes
  <2>3. tries' \in 1 .. NumBuckets
    BY <2>1, <2>2, <1>n
  <2>4. SweepTypes'
    BY <2>1, <2>2, <2>3, <1>t, AdvanceStart DEF SweepTypes
  <2>5. Decremented'
    BY <2>1, <2>2, <1>t, AdvanceDecremented DEF SweepInv
  <2>6. Tried'
    <3> SUFFICES ASSUME NEW b \in used
                 PROVE  Behind(b)' > NumBuckets - tries'
      BY <2>1 DEF Tried
    <3>1. Behind(b) > NumBuckets - tries
      BY <2>1 DEF SweepInv, Tried
    <3>2. hand' = NextBucket(hand)
      BY <2>1 DEF Advance
    <3>3. b \in Buckets /\ b # hand
      BY <2>1, <2>2
    <3>4. Behind(b)' = Behind(b) + 1
      BY <3>2, <3>3, <2>2, <1>n DEF Behind, NextBucket, Buckets
    <3>5. Behind(b) \in Int
      BY <3>3, <2>2, <1>n DEF Behind, Buckets
    <3>. QED BY <3>1, <3>4, <3>5, <2>1, <2>2, <1>n
  <2>. QED BY <2>4, <2>5, <2>6 DEF SweepInv
<1>4. CASE Find \/ GiveUp
  <2>1. /\ Return /\ hand' = NextBucket(hand) /\ usage' = usage /\ used' \subseteq used
    BY <1>4 DEF Find, GiveUp
  <2>2. pc' = "idle" /\ tries' \in 1 .. NumBuckets
    BY <2>1, <1>n DEF Return
  <2>3. start' \in [usage : [Buckets -> Int], hand : Buckets, round : Nat]
    BY <2>1, <1>n DEF Return, NoStart, Buckets
  <2>4. hand' \in Buckets
    BY <2>1, <1>t, NextBucketType DEF SweepTypes
  <2>. QED BY <2>1, <2>2, <2>3, <2>4, <1>t DEF SweepInv, SweepTypes
<1>5. CASE \E b \in Buckets : Leave(b) \/ Clear(b) \/ \E n \in Counts : AddUsage(b, n)
  <2>1. PICK b \in Buckets : Leave(b) \/ Clear(b) \/ \E n \in Counts : AddUsage(b, n)
    BY <1>5
  <2>2. pc = "idle" /\ UNCHANGED <<hand, tries, pc, start>>
    BY <2>1 DEF Leave, Clear, AddUsage
  <2>3. used' \subseteq Buckets
    BY <2>1, <1>t DEF Leave, Clear, AddUsage, SweepTypes
  <2>4. usage' \in [Buckets -> Int]
    <3>1. CASE Leave(b)
      BY <3>1, <1>t DEF Leave, SweepTypes
    <3>2. CASE Clear(b)
      BY <3>2, <1>t DEF Clear, SweepTypes
    <3>3. ASSUME NEW n \in Counts, AddUsage(b, n) PROVE usage' \in [Buckets -> Int]
      <4>1. usage \in [Buckets -> Int] /\ n \in Int
        BY <1>t, CountLimitAssumption DEF SweepTypes, Counts
      <4>2. Wrap(usage[b] + n) \in Int
        BY <4>1, WrapType
      <4>. QED BY <3>3, <4>1, <4>2 DEF AddUsage
    <3>. QED BY <2>1, <3>1, <3>2, <3>3
  <2>. QED BY <2>2, <2>3, <2>4, <1>t DEF SweepInv, SweepTypes
<1>6. CASE UNCHANGED cvars
  BY <1>6 DEF cvars, SweepInv, SweepTypes, Decremented, Tried, Passed, Behind
<1>. QED BY <1>1, <1>2, <1>3, <1>4, <1>5, <1>6 DEF CSNext, Turn

\* int16_t arithmetic stays within its range.
LEMMA WrapCounts == ASSUME NEW x \in Int PROVE Wrap(x) \in Counts
<1>1. CountLimit \in Nat \ {0}
  BY CountLimitAssumption
<1> DEFINE w == 2 * CountLimit
           y == x + CountLimit
<1>2. w \in Nat \ {0} /\ w = CountLimit + CountLimit /\ y \in Int
  BY <1>1
<1> HIDE DEF w, y
<1>3. y % w \in 0 .. w - 1
  BY <1>2
<1> QED
  BY <1>1, <1>2, <1>3 DEF Wrap, Counts, w, y

\* A step of the sweep, or of what changes the buckets around it, keeps the counts in range: a
\* count that the hand lowers is above zero.
LEMMA CountsKept ==
  ASSUME SweepTypes, usage \in [Buckets -> Counts], [CSNext]_cvars
  PROVE  usage' \in [Buckets -> Counts]
<1>1. CASE UNCHANGED usage
  BY <1>1
<1>2. CASE Pass
  <2>1. hand \in Buckets /\ usage[hand] \in Counts /\ usage[hand] > 0
    BY <1>2 DEF Pass, SweepTypes
  <2>2. usage[hand] - 1 \in Counts
    BY <2>1, CountLimitAssumption DEF Counts
  <2> QED
    BY <1>2, <2>1, <2>2 DEF Pass
<1>3. ASSUME NEW b \in Buckets, NEW n \in Counts, AddUsage(b, n)
      PROVE  usage' \in [Buckets -> Counts]
  <2>1. usage[b] + n \in Int
    BY CountLimitAssumption DEF Counts
  <2>2. Wrap(usage[b] + n) \in Counts
    BY <2>1, WrapCounts
  <2> QED
    BY <1>3, <2>2 DEF AddUsage
<1>4. ASSUME NEW b \in Buckets, Clear(b) PROVE usage' \in [Buckets -> Counts]
  <2>1. 0 \in Counts
    BY CountLimitAssumption DEF Counts
  <2> QED
    BY <1>4, <2>1 DEF Clear
<1> QED
  BY <1>1, <1>2, <1>3, <1>4 DEF CSNext, Turn, Begin, Skip, Find, GiveUp, Leave, cvars

\* The bucket at which the sweep stops is the least used one.
LEMMA FindIsCoolest ==
  ASSUME SweepInv, pc = "sweep", hand \in used, usage[hand] <= 0
  PROVE  Coolest(hand)
<1> SUFFICES ASSUME NEW b \in used
             PROVE  \/ Heat(start.usage[hand]) < Heat(start.usage[b])
                    \/ /\ Heat(start.usage[hand]) = Heat(start.usage[b])
                       /\ Distance(start.hand, hand) <= Distance(start.hand, b)
  BY DEF Coolest
<1>1. /\ b \in Buckets /\ hand \in Buckets /\ start.hand \in Buckets
      /\ usage[b] \in Int /\ start.usage[b] \in Int /\ start.round \in Nat
      /\ usage[hand] \in Int /\ start.usage[hand] \in Int
  BY DEF SweepInv, SweepTypes
<1>2. /\ Distance(start.hand, b) \in Int /\ Distance(start.hand, hand) \in Int
  BY <1>1, DistanceBounds
<1>3. ~Passed(hand)
  BY <1>2 DEF Passed
<1>4. usage[hand] = start.usage[hand] - start.round /\ (start.round > 0 => usage[hand] >= 0)
  BY <1>3 DEF SweepInv, Decremented
<1>5. Heat(start.usage[hand]) = start.round
  BY <1>1, <1>4 DEF Heat
<1>6. CASE Passed(b)
  <2>1. usage[b] = start.usage[b] - start.round - 1 /\ usage[b] >= 0
    BY <1>6 DEF SweepInv, Decremented
  <2>2. start.round < Heat(start.usage[b])
    <3> DEFINE u == usage[b]
               w == start.usage[b]
               r == start.round
    <3>1. u \in Int /\ w \in Int /\ r \in Nat
      BY <1>1, Zenon
    <3>2. u = w - r - 1 /\ u >= 0
      BY <2>1, Zenon
    <3> HIDE DEF u, w, r
    <3>3. r < Heat(w)
      BY <3>1, <3>2 DEF Heat
    <3> QED
      BY <3>3, Zenon DEF w, r
  <2> QED
    BY <1>5, <2>2, Zenon
<1>7. CASE ~Passed(b)
  <2>1. usage[b] = start.usage[b] - start.round /\ (start.round > 0 => usage[b] >= 0)
    BY <1>7 DEF SweepInv, Decremented
  <2>2. Distance(start.hand, hand) <= Distance(start.hand, b)
    BY <1>2, <1>7 DEF Passed
  <2>3. start.round < Heat(start.usage[b]) \/ start.round = Heat(start.usage[b])
    <3> DEFINE u == usage[b]
               w == start.usage[b]
               r == start.round
    <3>1. u \in Int /\ w \in Int /\ r \in Nat
      BY <1>1, Zenon
    <3>2. u = w - r /\ (r > 0 => u >= 0)
      BY <2>1, Zenon
    <3> HIDE DEF u, w, r
    <3>3. r < Heat(w) \/ r = Heat(w)
      BY <3>1, <3>2 DEF Heat
    <3> QED
      BY <3>3, Zenon DEF w, r
  <2> QED
    BY <1>5, <2>2, <2>3, Zenon
<1>. QED BY <1>6, <1>7

\* A sweep takes the least used bucket, whatever the number of buckets and the counts.
THEOREM SweepTakesCoolest == CSSpec => CoolestFirst
<1>1. SweepInv /\ [CSNext]_cvars => [pc = "sweep" => \A v \in used \ used' : Coolest(v)]_cvars
  <2> SUFFICES ASSUME SweepInv, CSNext, pc = "sweep", NEW v \in used \ used'
               PROVE  Coolest(v)
    OBVIOUS
  <2>1. Find
    BY DEF CSNext, Turn, Begin, Pass, Skip, GiveUp, Leave, Clear, AddUsage
  <2>2. v = hand /\ hand \in used /\ usage[hand] <= 0
    BY <2>1 DEF Find
  <2>. QED BY <2>2, FindIsCoolest
<1>. QED BY <1>1, SweepInit, SweepStep, PTL DEF CSSpec, CoolestFirst

\* A sweep throws only when there is nothing to evict, so the counter of tries is large enough
\* for any number of buckets.
THEOREM SweepThrowsOnlyWhenNone == CSSpec => ThrowsOnlyWhenNone
<1>1. SweepInv /\ [CSNext]_cvars
        => [pc = "sweep" /\ pc' = "idle" /\ used' = used => used = {}]_cvars
  <2> SUFFICES ASSUME SweepInv, CSNext, pc = "sweep", pc' = "idle", used' = used
               PROVE  used = {}
    OBVIOUS
  <2>1. GiveUp
    <3>1. Find => used' # used
      BY DEF Find
    <3>. QED BY <3>1 DEF CSNext, Turn, Begin, Pass, Skip, Advance, Leave, Clear, AddUsage
  <2>2. tries = 1 /\ hand \notin used
    BY <2>1 DEF GiveUp, SweepInv, SweepTypes
  <2> SUFFICES ASSUME NEW b \in used PROVE FALSE
    OBVIOUS
  <2>3. b \in Buckets /\ hand \in Buckets /\ b # hand
    BY <2>2 DEF SweepInv, SweepTypes
  <2>4. Behind(b) > NumBuckets - 1
    BY <2>2 DEF SweepInv, Tried
  <2>. QED BY <2>3, <2>4, NumBucketsAssumption DEF Behind, Buckets
<1>. QED BY <1>1, SweepInit, SweepStep, PTL DEF CSSpec, ThrowsOnlyWhenNone

-----------------------------------------------------------------------------
(* Theorems *)

\* Every step of Next keeps the invariant and is a step of the clock sweep, or none.
LEMMA AdminStep == AdminInv /\ [Next]_vars => AdminInv' /\ [CSNext]_cvars
<1> SUFFICES ASSUME AdminInv, [Next]_vars PROVE AdminInv' /\ [CSNext]_cvars
  OBVIOUS
<1>1. CASE UNCHANGED vars
  <2>1. UNCHANGED <<shm, h, admin, used>> /\ UNCHANGED cvars
    BY <1>1 DEF vars, cvars
  <2> QED
    BY <2>1, AdminInvAfter DEF AdminInv, UsedIsEvictable
<1>2. CASE Regist
  BY <1>2, RegistStep
<1>3. CASE AcquireNewBlock
  BY <1>3, AcquireStep
<1>4. CASE ExtendOneBlock
  BY <1>4, ExtendStep
<1>5. ASSUME NEW i \in 1 .. MaxBlocks, Touch(i) PROVE AdminInv' /\ [CSNext]_cvars
  BY <1>5, TouchStep
<1>6. ASSUME NEW i \in 1 .. MaxBlocks, Inactivate(i) PROVE AdminInv' /\ [CSNext]_cvars
  BY <1>6, InactivateStep DEF CSNext
<1>7. ASSUME NEW i \in 1 .. MaxBlocks, Activate(i) PROVE AdminInv' /\ [CSNext]_cvars
  BY <1>7, ActivateStep DEF CSNext
<1>8. ASSUME NEW a \in Admins, Mount(a) PROVE AdminInv' /\ [CSNext]_cvars
  BY <1>8, MountStep
<1>9. ASSUME NEW a \in Admins, Unmount(a) PROVE AdminInv' /\ [CSNext]_cvars
  BY <1>9, UnmountStep
<1>10. ASSUME NEW a \in Admins, EvictNumOfBlocks(a) PROVE AdminInv' /\ [CSNext]_cvars
  BY <1>10, EvictNumOfBlocksStep
<1>11. ASSUME NEW a \in Admins, StartTurn(a) PROVE AdminInv' /\ [CSNext]_cvars
  BY <1>11, StartTurnStep DEF CSNext
<1>12. ASSUME NEW a \in Admins, Sweep(a) PROVE AdminInv' /\ [CSNext]_cvars
  BY <1>12, AdminSweepStep DEF CSNext
<1>13. ASSUME NEW a \in Admins, WriteBlock(a) PROVE AdminInv' /\ [CSNext]_cvars
  BY <1>13, WriteBlockStep
<1>14. ASSUME NEW a \in Admins, Finish(a) PROVE AdminInv' /\ [CSNext]_cvars
  BY <1>14, FinishStep DEF CSNext
<1> QED
  BY <1>1, <1>2, <1>3, <1>4, <1>5, <1>6, <1>7, <1>8, <1>9, <1>10, <1>11, <1>12, <1>13, <1>14
  DEF Next

\* Whatever handle and administrators do, the segment and the sweep agree on the buckets that
\* can be evicted: no operation of SharedMemoryContext leaves out what the sweep relies on.
THEOREM SweepSeesSegment == Spec => []UsedIsEvictable
<1>1. AdminInv => UsedIsEvictable
  BY DEF AdminInv
<1> QED
  BY <1>1, AdminInit, AdminStep, PTL DEF Spec

\* evictNumOfBlocks uploads without the lock, and yet its victim is the bucket it chose until
\* the eviction ends, unless the owner took it back and said so.
THEOREM AdminKeepsVictim == Spec => []VictimStays
<1>1. AdminInv => VictimStays
  BY DEF AdminInv, VictimStays, Victims, Evicts, Evicting
<1> QED
  BY <1>1, AdminInit, AdminStep, PTL DEF Spec

\* The administrators' evictions and the handle's operations implement the clock sweep.
THEOREM AdminImplementsSweep == Spec => ImplementsClockSweep
<1>1. Init => CSInit
  BY DEF Init
<1> QED
  BY <1>1, AdminInit, AdminStep, PTL DEF Spec, CSSpec, ImplementsClockSweep

\* So every administrator evicts the least used bucket first, and throws only without one.
THEOREM AdminEvictsCoolest == Spec => CoolestFirst /\ ThrowsOnlyWhenNone
BY AdminImplementsSweep, SweepTakesCoolest, SweepThrowsOnlyWhenNone, PTL DEF ImplementsClockSweep

\* The turns that an administrator has taken are within their bound.
Rounds == \A a \in Admins : admin[a].rounds \in 0 .. MaxRounds

\* Only StartTurn counts a turn, and only below the bound.
LEMMA RoundsKept == ASSUME AdminTyped(admin), Rounds, [Next]_vars PROVE Rounds'
<1>1. ASSUME NEW a \in Admins, NEW x, admin' = [admin EXCEPT ![a] = x], x.rounds \in 0 .. MaxRounds
      PROVE  Rounds'
  BY <1>1 DEF Rounds, AdminTyped
<1>2. CASE UNCHANGED admin
  BY <1>2 DEF Rounds
<1>3. ASSUME NEW a \in Admins, NEW p
      PROVE  /\ [admin[a] EXCEPT !.pc = p].rounds = admin[a].rounds
             /\ admin[a].rounds \in 0 .. MaxRounds
  BY DEF Rounds, AdminTyped, AdminRecord
<1>4. ASSUME NEW a \in Admins, Mount(a) PROVE Rounds'
  <2>a. ASSUME NEW p, NEW i PROVE [admin[a] EXCEPT !.pc = p, !.id = i].rounds = admin[a].rounds
    BY DEF AdminTyped, AdminRecord
  <2> DEFINE x == [admin[a] EXCEPT !.pc = "idle", !.id = FreeSlot(shm)]
  <2>1. admin' = [admin EXCEPT ![a] = x]
    BY <1>4, Zenon DEF Mount
  <2>2. x.rounds = admin[a].rounds /\ admin[a].rounds \in 0 .. MaxRounds
    BY <1>3, <2>a, Zenon
  <2> HIDE DEF x
  <2>3. x.rounds \in 0 .. MaxRounds
    BY <2>2
  <2> QED
    BY <1>1, <2>1, <2>3
<1>5. ASSUME NEW a \in Admins, Unmount(a) PROVE Rounds'
  <2>1. NewAdmin.rounds \in 0 .. MaxRounds
    BY AdminAssumption DEF NewAdmin
  <2> QED
    BY <1>1, <1>5, <2>1 DEF Unmount
<1>6. ASSUME NEW a \in Admins, EvictNumOfBlocks(a) PROVE Rounds'
  <2> DEFINE x == [admin[a] EXCEPT !.pc = "mark"]
  <2>1. admin' = [admin EXCEPT ![a] = x]
    BY <1>6, Zenon DEF EvictNumOfBlocks
  <2>2. x.rounds = admin[a].rounds /\ admin[a].rounds \in 0 .. MaxRounds
    BY <1>3, Zenon
  <2> HIDE DEF x
  <2>3. x.rounds \in 0 .. MaxRounds
    BY <2>2
  <2> QED
    BY <1>1, <2>1, <2>3
<1>7. ASSUME NEW a \in Admins, StartTurn(a) PROVE Rounds'
  <2>a. ASSUME NEW p, NEW k PROVE [admin[a] EXCEPT !.pc = p, !.rounds = k].rounds = k
    BY DEF AdminTyped, AdminRecord
  <2> DEFINE n == admin[a].rounds + 1
             x == [admin[a] EXCEPT !.pc = "sweep", !.rounds = n]
  <2>1. admin[a].rounds \in 0 .. MaxRounds /\ admin[a].rounds < MaxRounds
    BY <1>3, <1>7 DEF StartTurn
  <2>2. n \in 0 .. MaxRounds
    BY <2>1, AdminAssumption
  <2>3. admin' = [admin EXCEPT ![a] = x]
    BY <1>7, Zenon DEF StartTurn
  <2> HIDE DEF n
  <2>4. x.rounds = n
    BY <2>a, Zenon
  <2> HIDE DEF x
  <2>5. x.rounds \in 0 .. MaxRounds
    BY <2>2, <2>4
  <2> QED
    BY <1>1, <2>3, <2>5
<1>8. ASSUME NEW a \in Admins, Sweep(a) PROVE Rounds'
  <2> DEFINE x == [admin[a] EXCEPT !.pc = "failed"]
             y(p, b, k) == [admin[a] EXCEPT !.pc = p, !.bucket = b, !.blk = k]
  <2>1. \/ UNCHANGED admin
        \/ admin' = [admin EXCEPT ![a] = x]
        \/ \E p, b, k : admin' = [admin EXCEPT ![a] = y(p, b, k)]
    BY <1>8, Zenon DEF Sweep, avars
  <2>2. x.rounds = admin[a].rounds /\ admin[a].rounds \in 0 .. MaxRounds
    BY <1>3, Zenon
  <2>3. \A p, b, k : y(p, b, k).rounds = admin[a].rounds
    BY DEF AdminTyped, AdminRecord
  <2> HIDE DEF x, y
  <2>4. CASE UNCHANGED admin
    BY <1>2, <2>4
  <2>5. CASE admin' = [admin EXCEPT ![a] = x]
    BY <1>1, <2>2, <2>5
  <2>6. CASE \E p, b, k : admin' = [admin EXCEPT ![a] = y(p, b, k)]
    <3>1. PICK p, b, k : admin' = [admin EXCEPT ![a] = y(p, b, k)]
      BY <2>6
    <3>2. y(p, b, k).rounds \in 0 .. MaxRounds
      BY <2>2, <2>3
    <3> QED
      BY <1>1, <3>1, <3>2
  <2> QED
    BY <2>1, <2>4, <2>5, <2>6
<1>9. ASSUME NEW a \in Admins, WriteBlock(a) PROVE Rounds'
  <2> DEFINE x == [admin[a] EXCEPT !.pc = "finish"]
  <2>1. admin' = [admin EXCEPT ![a] = x]
    BY <1>9, Zenon DEF WriteBlock
  <2>2. x.rounds = admin[a].rounds /\ admin[a].rounds \in 0 .. MaxRounds
    BY <1>3, Zenon
  <2> HIDE DEF x
  <2>3. x.rounds \in 0 .. MaxRounds
    BY <2>2
  <2> QED
    BY <1>1, <2>1, <2>3
<1>10. ASSUME NEW a \in Admins, Finish(a) PROVE Rounds'
  <2>a. ASSUME NEW p, NEW e PROVE [admin[a] EXCEPT !.pc = p, !.evicted = e].rounds = admin[a].rounds
    BY DEF AdminTyped, AdminRecord
  <2>1. PICK e : admin' = [admin EXCEPT ![a] = [@ EXCEPT !.pc = "mark", !.evicted = e]]
    BY <1>10, Zenon DEF Finish
  <2> DEFINE x == [admin[a] EXCEPT !.pc = "mark", !.evicted = e]
  <2>2. admin' = [admin EXCEPT ![a] = x]
    BY <2>1
  <2>3. x.rounds = admin[a].rounds /\ admin[a].rounds \in 0 .. MaxRounds
    BY <1>3, <2>a, Zenon
  <2> HIDE DEF x
  <2>4. x.rounds \in 0 .. MaxRounds
    BY <2>3
  <2> QED
    BY <1>1, <2>2, <2>4
<1>11. CASE UNCHANGED vars
  BY <1>2, <1>11 DEF vars
<1>12. CASE Regist \/ AcquireNewBlock \/ ExtendOneBlock
  BY <1>2, <1>12 DEF Regist, AcquireNewBlock, ExtendOneBlock
<1>13. ASSUME NEW i \in 1 .. MaxBlocks, Touch(i) \/ Inactivate(i) \/ Activate(i) PROVE Rounds'
  BY <1>2, <1>13 DEF Touch, Inactivate, Activate
<1> QED
  BY <1>4, <1>5, <1>6, <1>7, <1>8, <1>9, <1>10, <1>11, <1>12, <1>13 DEF Next

\* The invariant that type correctness rests on: the handle's and the administrators' records
\* (AdminInv), the sweep's own variables (SweepInv), the range of the counts and of the turns.
AdminTypes == AdminInv /\ SweepInv /\ usage \in [Buckets -> Counts] /\ Rounds

\* Every variable keeps its type, for any number of buckets, administrators, turns and blocks:
\* the hand stays in the array, the counter of tries never runs below zero, and usage counts
\* stay in the range of int16_t although inactivateBuckets adds to them without a check.
THEOREM AdminTypesHold == Spec => []TypeOK
<1>1. Init => AdminTypes
  <2> SUFFICES ASSUME Init PROVE AdminTypes
    OBVIOUS
  <2>1. AdminInv /\ SweepInv
    BY AdminInit, SweepInit DEF Init
  <2>2. usage \in [Buckets -> Counts]
    BY CountLimitAssumption DEF Init, CSInit, Counts
  <2>3. Rounds
    <3>1. admin = [a \in Admins |-> NewAdmin]
      BY Zenon DEF Init
    <3>2. NewAdmin.rounds = 0
      BY DEF NewAdmin
    <3>3. \A a \in Admins : admin[a].rounds = 0
      BY <3>1, <3>2, Zenon
    <3>4. 0 \in 0 .. MaxRounds
      BY AdminAssumption
    <3> QED
      BY <3>3, <3>4, Zenon DEF Rounds
  <2> QED
    BY <2>1, <2>2, <2>3 DEF AdminTypes
<1>2. AdminTypes /\ [Next]_vars => AdminTypes'
  <2> SUFFICES ASSUME AdminTypes, [Next]_vars PROVE AdminTypes'
    OBVIOUS
  <2>1. AdminInv' /\ [CSNext]_cvars
    BY AdminStep DEF AdminTypes
  <2>2. SweepInv'
    BY <2>1, SweepStep DEF AdminTypes
  <2>3. usage' \in [Buckets -> Counts]
    BY <2>1, CountsKept DEF AdminTypes, SweepInv
  <2>4. Rounds'
    BY RoundsKept DEF AdminTypes, AdminInv
  <2> QED
    BY <2>1, <2>2, <2>3, <2>4 DEF AdminTypes
<1>3. AdminTypes => TypeOK
  <2> SUFFICES ASSUME AdminTypes PROVE TypeOK
    OBVIOUS
  <2>1. /\ used \subseteq Buckets /\ hand \in Buckets /\ tries \in 0 .. NumBuckets
    BY DEF AdminTypes, SweepInv, SweepTypes
  <2>2. /\ h.id \in ActiveIds \cup {InvalidActiveId} /\ h.spare \in Buckets \cup {InvalidBucketId}
        /\ \A i \in DOMAIN h.blocks : h.blocks[i] \in BlockInfo
    BY DEF AdminTypes, AdminInv, HandleTyped, AnyId
  <2>3. \A a \in Admins : admin[a].pc \in AdminStates /\ admin[a].rounds \in 0 .. MaxRounds
    BY DEF AdminTypes, AdminInv, AdminTyped, AdminRecord, Rounds
  <2> QED
    BY <2>1, <2>2, <2>3 DEF TypeOK, AdminTypes, AdminInv, BlockInfo
<1> QED
  BY <1>1, <1>2, <1>3, PTL DEF Spec
=============================================================================
