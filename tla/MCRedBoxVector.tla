---------------------------- MODULE MCRedBoxVector ----------------------------
(* Instances of RedBoxVector for TLC.                                      *)
EXTENDS RedBoxVector, TLC

(* Vectors are only compared with each other, and threads are alike.       *)
Symmetry == Permutations(Vecs) \cup Permutations(Threads)
=============================================================================
