-------------------------- MODULE MCScanLifecycle --------------------------
(* Instances of ScanLifecycle for TLC. *)
EXTENDS ScanLifecycle, TLC

Symmetry == Permutations(Scans) \cup Permutations(Requests)
=============================================================================
