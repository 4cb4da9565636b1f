--------------------------- MODULE MCProjectUploads ---------------------------
(* Three keys compete for two sessions; a file has one or two positions, so *)
(* that a chunk can be a whole file, half of it, or too long.               *)
EXTENDS ProjectUploads, TLC

CONSTANTS x, y

MCOffer == {[size |-> 2, print |-> <<x, y>>], [size |-> 1, print |-> <<x>>]}

Symmetry == Permutations(Key) \cup Permutations(Owner) \cup Permutations(Inode)
=============================================================================
