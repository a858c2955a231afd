----------------------------- MODULE MCDocuments -----------------------------
(* Instances of Documents for TLC. *)
EXTENDS Documents, TLC

CONSTANTS e1, t1, t2

\* One text mentions the entity, the other does not.
OneOfTwo == t1 :> {e1} @@ t2 :> {}

\* A long series of calls one after the other, or three calls of two callers.
Alone == {[callers |-> {c}, calls |-> 5, trouble |-> 2] : c \in Callers}
AloneOrTogether == Alone \cup {[callers |-> Callers, calls |-> 3, trouble |-> 2]}

\* Documents are alike, and so are callers.
Alike == Permutations(Docs) \cup Permutations(Callers)
=============================================================================
