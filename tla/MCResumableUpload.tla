-------------------------- MODULE MCResumableUpload --------------------------
(* ResumableUpload on small sets of requests, chunks and inodes; the        *)
(* invariants of its proofs come along so that TLC evaluates them too.      *)
EXTENDS ResumableUploadInv, TLC

CONSTANTS p1, p2, p3, c1, c2, c3, o1, o2, m1, m2, f1, f2

TwoPuts   == {p1, p2}
ThreePuts == {p1, p2, p3}
TwoChunks == {c1, c2}
ThreeChunks == {c1, c2, c3}
OnePost   == {o1}
TwoPosts  == {o1, o2}
OneMeta   == {m1}
TwoMetas  == {m1, m2}
TwoFiles  == {f1, f2}

\* Requests, chunks and inodes are interchangeable (safety runs only).
Symmetry == Permutations(Puts) \cup Permutations(Posts) \cup Permutations(Chunks)
              \cup Permutations(MetaIds) \cup Permutations(FileIds)

=============================================================================
