--------------------------- MODULE MCEmbeddedStore ---------------------------
(* Instances of EmbeddedStore for TLC. *)
EXTENDS EmbeddedStore, TLC

\* A long series of calls one after the other, or three calls of two callers.
AloneOrTogether ==
  {[callers |-> {c}, calls |-> 5, trouble |-> 3] : c \in Callers}
  \cup {[callers |-> Callers, calls |-> 3, trouble |-> 2]}

\* Documents, texts and callers are alike.
Alike == Permutations(Docs) \cup Permutations(Texts) \cup Permutations(Callers)
=============================================================================
