--------------------------- MODULE MCDiscoveryRun ---------------------------
(* Instances of DiscoveryRun for TLC. *)
EXTENDS DiscoveryRun, TLC

CONSTANTS Apex, SeedA, SeedB

\* The root and two names below it as seeds: one more than the semaphore has slots.
MCSeeds == <<Apex, SeedA, SeedB>>

\* The root as the only seed.
MCRootOnly == <<Apex>>
=============================================================================
