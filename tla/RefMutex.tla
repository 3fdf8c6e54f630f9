------------------------------ MODULE RefMutex ------------------------------
(* What worker.dataset_submission_lock promises to process_job: at any     *)
(* time at most one thread submits to a dataset_ref.                       *)
CONSTANTS Threads, Refs
VARIABLE owner      \* the threads inside the lock of each dataset_ref

Init == owner = [r \in Refs |-> {}]

Enter(t, r) ==
    /\ owner[r] = {}
    /\ \A s \in Refs : t \notin owner[s]
    /\ owner' = [owner EXCEPT ![r] = {t}]

Leave(t, r) ==
    /\ owner[r] = {t}
    /\ owner' = [owner EXCEPT ![r] = {}]

Next == \E t \in Threads, r \in Refs : Enter(t, r) \/ Leave(t, r)

Spec == Init /\ [][Next]_owner

=============================================================================
