------------------------- MODULE MCPendingProcessor -------------------------
(* Instances of PendingProcessor for TLC. *)
EXTENDS PendingProcessor

CONSTANTS d1, d2, b1, b2

\* One batch of two documents, which its own cap keeps apart, one of them named
\* twice; or two batches that submit the same document.
PairOrAgain ==
  {[submit |-> b1 :> <<d1, d2, d1>> @@ b2 :> <<>>, trouble |-> 1],
   [submit |-> b1 :> <<d1>> @@ b2 :> <<d1>>, trouble |-> 2]}
=============================================================================
