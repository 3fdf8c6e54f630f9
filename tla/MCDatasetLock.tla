--------------------------- MODULE MCDatasetLock ----------------------------
(* Three threads, two dataset_refs and as many entries as threads: an      *)
(* entry is then always free when a thread needs to make one.              *)
EXTENDS DatasetLock

=============================================================================
