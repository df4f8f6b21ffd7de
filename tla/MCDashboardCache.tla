-------------------------- MODULE MCDashboardCache --------------------------
(* Instances of DashboardCache for TLC.                                    *)
EXTENDS DashboardCache, TLC

Symmetry == Permutations(Writes) \cup Permutations(Readers)
=============================================================================
