-------------------------- MODULE MCVaultRegistry --------------------------
(* Small instances of VaultRegistry for TLC. *)
EXTENDS VaultRegistry, FiniteSets, TLC

\* Two windows at once with every fault, or three that take turns.
PairOrTurns ==
  {[vaults |-> s, exclusive |-> FALSE, faults |-> TRUE] :
      s \in {u \in SUBSET Vaults : Cardinality(u) = 2}}
  \cup {[vaults |-> Vaults, exclusive |-> TRUE, faults |-> FALSE]}

\* Vaults, and keys, are interchangeable.
Symmetry == Permutations(Vaults) \cup Permutations(Keys)
=============================================================================
