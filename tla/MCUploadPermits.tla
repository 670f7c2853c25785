--------------------------- MODULE MCUploadPermits ---------------------------
(* UploadPermits on small sets; lengths and the unit are in bytes, with a  *)
(* unit of 4 in place of 1 MiB.                                            *)
EXTENDS UploadPermits, TLC

CONSTANTS r1, r2, r3, a, b, d, e, s1, s2, s3, s4

ThreeReqs == {r1, r2, r3}
FourPaths == {a, b, d, e}
FourSems  == {s1, s2, s3, s4}

Symmetry == Permutations(Reqs) \cup Permutations(Paths) \cup Permutations(Sems)
=============================================================================
