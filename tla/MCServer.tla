------------------------------- MODULE MCServer -------------------------------
(* Instances of Server for TLC.                                            *)
EXTENDS Server, TLC

(* Connections are alike, so are addresses.                                *)
Symmetry == Permutations(Clients) \cup Permutations(Addresses)
=============================================================================
