-------------------------- MODULE MCFileActiveStatus --------------------------
(* Instances of FileActiveStatus for TLC. *)
EXTENDS FileActiveStatus, TLC

\* Clients are interchangeable; files are too.
Symmetry == Permutations(Clients) \cup Permutations(Files)

\* States that differ only in bytes nobody can ask for are the same: bytes of a bucket that
\* no written block, no load that has read its object and no eviction refers to.
Live(b) ==
  \/ \E f \in Files : \E i \in DOMAIN file[f].blocks :
       file[f].blocks[i].bucket = b /\ truth[f, i] # NoData
  \/ \E c \in Clients : \/ h[c].victim.bucket = b
                        \/ \E l \in h[c].loading : l.bucket = b /\ l.st \in {"read", "done"}
LiveView == <<shm, file, h, [b \in Buckets |-> IF Live(b) THEN space[b] ELSE NoData], oss, truth>>
=============================================================================
