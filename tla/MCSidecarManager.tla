-------------------------- MODULE MCSidecarManager --------------------------
(* Small instances of SidecarManager for TLC. *)
EXTENDS SidecarManager, TLC

Symmetry == Permutations(Procs) \cup Permutations(Managers)
            \cup Permutations(Chains) \cup Permutations(Stops)
=============================================================================
