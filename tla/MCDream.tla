------------------------------ MODULE MCDream ------------------------------
(* A small instance of Dream for TLC. *)
EXTENDS Dream, TLC

CONSTANTS m1, e1

\* What an operation comes after decides what its checkpoint stands for.
ThreeOrders == {<<m1, Audit, e1>>, <<Audit, e1, m1>>, <<e1, m1>>}

\* Run ids are interchangeable.
Alike == Permutations(Runs)
=============================================================================
