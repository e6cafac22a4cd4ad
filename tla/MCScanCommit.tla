---------------------------- MODULE MCScanCommit -----------------------------
(* Bounded instances of ScanCommit. *)
EXTENDS ScanCommit, TLC

CONSTANTS p1, p2, p3, p4, c1, c2, w1, w2

PathSymmetry == Permutations(Paths) \cup Permutations(Contents) \cup Permutations(Workers)
=============================================================================
