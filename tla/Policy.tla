-------------------------------- MODULE Policy --------------------------------
(***************************************************************************)
(* What a handle decides by itself: which blocks its LRU cache lets go, and *)
(* how many buckets acquireNewBlocks gives up and asks for.                 *)
(***************************************************************************)
EXTENDS Integers, Sequences, Functions

CONSTANTS Quota,         \* Configuration::getCurQuotaSize()
          PreAllocate,   \* Configuration::PRE_ALLOCATE_BUCKET_NUM
          PreActivate    \* Configuration::PRE_ACTIVATE_BLOCK_NUM

ASSUME QuotaAssumption == Quota \in Nat \ {0}
ASSUME PreAssumption == PreAllocate \in Nat \ {0} /\ PreActivate \in Nat \ {0}

Least(x, y) == IF x <= y THEN x ELSE y

\* The LRU list has the newest key in front: put and removeNumOfKeys of LRUCache.
Without(lru, i) == SubSeq(lru, 1, i - 1) \o SubSeq(lru, i + 1, Len(lru))
LruPut(lru, blk) ==
  LET rest == IF blk \in Range(lru) THEN Without(lru, CHOOSE i \in DOMAIN lru : lru[i] = blk)
              ELSE lru
  IN SubSeq(<<blk>> \o rest, 1, Least(Len(rest) + 1, Quota))
LruKept(lru, n) == SubSeq(lru, 1, Len(lru) - Least(n, Len(lru)))
LruRemoved(lru, n) == [i \in 1 .. Least(n, Len(lru)) |-> lru[Len(lru) + 1 - i]]

\* Mutants of AcquirePolicy: pre-allocate without inactivating; evict without inactivating.
PolicyWithoutDrop(acq, lru, free, used) ==
  [ok |-> TRUE, drop |-> 0, take |-> Least(free + used, PreAllocate)]
PolicyEvictsOthers(acq, lru, free, used) ==
  [ok |-> TRUE, drop |-> 0, take |-> 1]

\* Step 1: how many blocks to inactivate (drop) and how many buckets to acquire (take),
\* for `acq' buckets held, `lru' of them active blocks.  ok = FALSE: it throws because
\* every bucket held is loading.
AcquirePolicy(acq, lru, free, used) ==
  LET case2a == Least(free + used, Least(Quota - acq, PreAllocate))
      case3a == Least(Least(free, Least(Quota, PreAllocate)), lru)
      answer(drop, take) == [ok |-> drop <= lru, drop |-> drop, take |-> take]
  IN IF acq < Quota /\ free + used > 0
     THEN answer(IF acq + case2a > Quota THEN acq + case2a - Quota ELSE 0, case2a)
     ELSE IF acq = Quota /\ free > 0 /\ lru > 0 THEN answer(case3a, case3a)
     ELSE IF acq <= Quota THEN answer(1, 1)
     ELSE answer(acq - Quota + 1, 1)
=============================================================================
