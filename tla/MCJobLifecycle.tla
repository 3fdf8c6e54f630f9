--------------------------- MODULE MCJobLifecycle ---------------------------
(* Instances of JobLifecycle for TLC: every job trains on one dataset.      *)
EXTENDS JobLifecycle, TLC

CONSTANT d1

OneRef == [d \in Datasets |-> "owner/data"]
OneDataset == {d1}
SameDataset == [j \in Jobs |-> d1]
JobSymmetry == Permutations(Jobs)

=============================================================================
