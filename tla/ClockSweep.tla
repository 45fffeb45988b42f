----------------------------- MODULE ClockSweep -----------------------------
(***************************************************************************)
(* The choice of the bucket to evict: the clock sweep of                    *)
(* SharedMemoryContext::markBucketEvicting over the usage counts that       *)
(* inactivateBuckets collects.  A step is one turn of the sweep's loop; the *)
(* sweep holds the shared-memory lock, so nothing else changes the buckets  *)
(* meanwhile.  Between sweeps, other operations change which buckets can be *)
(* evicted and how often they were used.                                    *)
(***************************************************************************)
EXTENDS SharedMemory

CONSTANT CountLimit  \* usageCount is an integer of -CountLimit .. CountLimit - 1

ASSUME CountLimitAssumption == CountLimit \in Nat \ {0}

VARIABLES used,   \* the buckets in state 2 that nobody is evicting
          usage,  \* bucket -> usageCount
          hand,   \* header->nextVictimBucket
          tries,  \* trycounter
          pc,     \* "idle" or "sweep"
          start   \* usage and hand when the sweep began, and how often the hand has come
                  \*   back since (history)

cvars == <<used, usage, hand, tries, pc, start>>

Counts == -CountLimit .. CountLimit - 1

\* int16_t arithmetic wraps around.
Wrap(x) == ((x + CountLimit) % (2 * CountLimit)) - CountLimit

\* Mutant of NextBucket: the hand runs past the last bucket.
NextBucketNoWrap(b) == IF b + 1 > NumBuckets THEN 0 ELSE b + 1

NextBucket(b) == IF b + 1 >= NumBuckets THEN 0 ELSE b + 1

NoStart == [usage |-> [b \in Buckets |-> 0], hand |-> 0, round |-> 0]

\* The sweep is over; its local variables are forgotten.
Return == pc' = "idle" /\ tries' = NumBuckets /\ start' = NoStart

CSInit ==
  /\ used = {} /\ usage = [b \in Buckets |-> 0]
  /\ hand = 0 /\ tries = NumBuckets /\ pc = "idle" /\ start = NoStart

-----------------------------------------------------------------------------
(* The sweep *)

Begin ==
  /\ pc = "idle"
  /\ pc' = "sweep" /\ tries' = NumBuckets
  /\ start' = [usage |-> usage, hand |-> hand, round |-> 0]
  /\ UNCHANGED <<used, usage, hand>>

\* The hand moves on and the sweep continues; the history notes when the hand is back where
\* the sweep began.
Advance ==
  /\ hand' = NextBucket(hand)
  /\ start' = [start EXCEPT !.round = IF NextBucket(hand) = start.hand THEN @ + 1 ELSE @]
  /\ UNCHANGED pc

\* Mutant of Pass: a bucket in use loses a count but the hand's turn still counts as a try.
PassKeepsTries ==
  /\ pc = "sweep" /\ hand \in used /\ usage[hand] > 0
  /\ Advance
  /\ usage' = [usage EXCEPT ![hand] = @ - 1]
  /\ tries' = tries - 1
  /\ UNCHANGED used

\* The bucket was used since the hand came by: it gets another round.
Pass ==
  /\ pc = "sweep" /\ hand \in used /\ usage[hand] > 0
  /\ Advance
  /\ usage' = [usage EXCEPT ![hand] = @ - 1]
  /\ tries' = NumBuckets
  /\ UNCHANGED used

\* A bucket that cannot be evicted.
Skip ==
  /\ pc = "sweep" /\ hand \notin used /\ tries - 1 # 0
  /\ Advance
  /\ tries' = tries - 1
  /\ UNCHANGED <<used, usage>>

\* Mutant of Find: the sweep stops at any used bucket, whatever its count.
FindAny ==
  /\ pc = "sweep" /\ hand \in used
  /\ Return
  /\ hand' = NextBucket(hand) /\ used' = used \ {hand}
  /\ UNCHANGED usage

\* "Found a usable buffer"
Find ==
  /\ pc = "sweep" /\ hand \in used /\ usage[hand] <= 0
  /\ Return
  /\ hand' = NextBucket(hand) /\ used' = used \ {hand}
  /\ UNCHANGED usage

\* Mutant of GiveUp: the sweep goes on with a new round.
GiveUpNever ==
  /\ pc = "sweep" /\ hand \notin used /\ tries - 1 = 0
  /\ Advance
  /\ tries' = NumBuckets
  /\ UNCHANGED <<used, usage>>

\* A whole round of buckets that cannot be evicted throws.
GiveUp ==
  /\ pc = "sweep" /\ hand \notin used /\ tries - 1 = 0
  /\ Return
  /\ hand' = NextBucket(hand)
  /\ UNCHANGED <<used, usage>>

Turn == Pass \/ Skip \/ Find \/ GiveUp

-----------------------------------------------------------------------------
(* What the other operations do to the buckets *)

\* inactivateBuckets adds the handle's count, whether or not the bucket becomes used.
AddUsage(b, n) ==
  /\ pc = "idle" /\ b \notin used
  /\ usage' = [usage EXCEPT ![b] = Wrap(@ + n)]
  /\ used' \in {used, used \cup {b}}
  /\ UNCHANGED <<hand, tries, pc, start>>

\* activateBucket by a handle of the owning file.
Leave(b) ==
  /\ pc = "idle" /\ b \in used
  /\ used' = used \ {b}
  /\ UNCHANGED <<usage, hand, tries, pc, start>>

\* ShareMemBucket::reset, when a block is evicted or deleted.
Clear(b) ==
  /\ pc = "idle"
  /\ usage' = [usage EXCEPT ![b] = 0]
  /\ used' = used \ {b}
  /\ UNCHANGED <<hand, tries, pc, start>>

CSNext ==
  \/ Begin \/ Turn
  \/ \E b \in Buckets : Leave(b) \/ Clear(b) \/ \E n \in Counts : AddUsage(b, n)

CSSpec == CSInit /\ [][CSNext]_cvars

-----------------------------------------------------------------------------
(* Properties *)

\* How far the hand has to move from h to reach b.
Distance(h, b) == IF b >= h THEN b - h ELSE b - h + NumBuckets

\* A count below 0 (after an overflow) is as cold as 0.
Heat(n) == IF n > 0 THEN n ELSE 0

Coolest(v) ==
  \A b \in used :
    \/ Heat(start.usage[v]) < Heat(start.usage[b])
    \/ /\ Heat(start.usage[v]) = Heat(start.usage[b])
       /\ Distance(start.hand, v) <= Distance(start.hand, b)

\* The sweep of markBucketEvicting takes the least used of the buckets it may evict, and of
\* several the first one the hand reaches, however many rounds of decrements that takes.
CoolestFirst == [][pc = "sweep" => \A v \in used \ used' : Coolest(v)]_cvars

\* The sweep throws ("statistic incorrect, there should be %d used buckets") only when no
\* bucket can be evicted, however many buckets it passes and however high their counts are.
ThrowsOnlyWhenNone == [][pc = "sweep" /\ pc' = "idle" /\ used' = used => used = {}]_cvars
=============================================================================
