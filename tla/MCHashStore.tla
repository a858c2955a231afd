---------------------------- MODULE MCHashStore ----------------------------
(* Small instances of HashStore for TLC. *)
EXTENDS HashStore, TLC

\* Maps other than the empty one are interchangeable.
Symmetry == Permutations(Index \ {Empty})
=============================================================================
