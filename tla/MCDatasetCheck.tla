--------------------------- MODULE MCDatasetCheck ---------------------------
(* One candidate and two children, one of which a crash may have orphaned: *)
(* the orphan is at the same time a second child of the account.           *)
EXTENDS DatasetCheck

CONSTANTS j1, p1, p2, f1, f2
=============================================================================
