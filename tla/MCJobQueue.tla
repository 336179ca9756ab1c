----------------------------- MODULE MCJobQueue -----------------------------
(* Instances of JobQueue for TLC. *)
EXTENDS JobQueue, TLC

CONSTANT scan

\* One job type: registration is per type, and types do not interact.
MCTypeOf == [j \in Jobs |-> scan]

Symmetry == Permutations(Jobs) \cup Permutations(Workers)
=============================================================================
