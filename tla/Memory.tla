------------------------------- MODULE Memory -------------------------------
(***************************************************************************)
(* What a caller of remember and forget counts on, document by document:   *)
(* a call that returns leaves exactly its text to be found, or nothing; a  *)
(* call under way, failed or disturbed leaves the document torn until the  *)
(* next one; and nothing else ever changes a document.                     *)
(***************************************************************************)
CONSTANTS Docs, Texts, None, Torn

VARIABLES
  held,   \* the text each document settled on, None, or Torn
  found   \* the texts of each settled document that a search can find

vars == <<held, found>>

Init == held = [d \in Docs |-> None] /\ found = [d \in Docs |-> {}]

\* A call begins.
Touch(d) ==
  /\ held' = [held EXCEPT ![d] = Torn]
  /\ found' = [found EXCEPT ![d] = {}]

\* A call returns.
Settle(d, t) ==
  /\ held[d] = Torn
  /\ held' = [held EXCEPT ![d] = t]
  /\ found' = [found EXCEPT ![d] = IF t = None THEN {} ELSE {t}]

Next == \E d \in Docs : Touch(d) \/ \E t \in Texts \cup {None} : Settle(d, t)

Spec == Init /\ [][Next]_vars
=============================================================================
