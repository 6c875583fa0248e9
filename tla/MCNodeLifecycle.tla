-------------------------- MODULE MCNodeLifecycle --------------------------
(* Instances of NodeLifecycle: a node and the machines that serve it in turn. *)
EXTENDS NodeLifecycle, TLC

Symmetry == Permutations(Machine) \cup Permutations(Key) \cup Permutations(Port)
=============================================================================
