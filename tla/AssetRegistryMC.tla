-------------------------- MODULE AssetRegistryMC --------------------------
(* Instances of AssetRegistry for TLC.                                     *)
EXTENDS AssetRegistry, TLC

\* Assets, hosts, fingerprints and coroutines are interchangeable.
Symmetric == Permutations(Assets) \cup Permutations(Hosts)
             \cup Permutations(Prints) \cup Permutations(Requests)

\* A score on each side of the pass mark.
BothSides == {20, 80}

\* One transition out of each state that enrolment and reports lead to.
SampleTargets == {"PendingAudit", "Decommissioned"}

\* Targets a PATCH may carry: the states, and a literal that is none.
AllTargets == AssetState \cup {"NonExistentStateLiteral"}

=============================================================================
