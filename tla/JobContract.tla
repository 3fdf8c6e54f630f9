---------------------------- MODULE JobContract -----------------------------
(***************************************************************************)
(* What a client may rely on, whatever the relay goes through: crashes,    *)
(* lost answers, rechecks, late callbacks and orphaned uploads.  A job     *)
(* ends once; it costs at most one dataset version and one kernel run; it  *)
(* is canceled only on request, and a request in time prevents the run.    *)
(***************************************************************************)
EXTENDS Naturals

CONSTANTS
    Jobs,
    DatasetOf,     \* the dataset each job trains on
    PriorRun       \* jobs whose kernel_ref shows the run of an earlier job

VARIABLES
    outcome,       \* "open", or how the job ended
    asked,         \* jobs whose cancellation was accepted
    prevented,     \* ... before their kernel run was claimed
    versions,      \* the dataset versions each job created on Kaggle
    runs           \* the kernel runs each job started on Kaggle

view == <<outcome, asked, prevented, versions, runs>>

Init ==
    /\ outcome = [j \in Jobs |-> "open"]
    /\ asked = {}
    /\ prevented = {}
    /\ versions = [j \in Jobs |-> 0]
    /\ runs = [j \in Jobs |-> 0]

(* POST /cancel: a job nobody works on ends at once.                       *)
Ask(j) ==
    /\ outcome[j] = "open"
    /\ asked' = asked \cup {j}
    /\ \/ /\ runs[j] = 0
          /\ prevented' = prevented \cup {j}
          /\ outcome' = outcome \/ outcome' = [outcome EXCEPT ![j] = "canceled"]
       \/ UNCHANGED <<outcome, prevented>>
    /\ UNCHANGED <<versions, runs>>

(* The job's data reaches Kaggle, if need be after the job has ended.      *)
Publish(j) ==
    /\ versions[j] = 0
    /\ versions' = [versions EXCEPT ![j] = 1]
    /\ UNCHANGED <<outcome, asked, prevented, runs>>

(* Kaggle starts training, on data that it holds.                          *)
Start(j) ==
    /\ outcome[j] = "open"
    /\ j \notin prevented
    /\ runs[j] = 0
    /\ \E k \in Jobs : DatasetOf[k] = DatasetOf[j] /\ versions[k] = 1
    /\ runs' = [runs EXCEPT ![j] = 1]
    /\ UNCHANGED <<outcome, asked, prevented, versions>>

(* The job ends: with the artifacts of a run, by request, or in failure.   *)
End(j) ==
    /\ outcome[j] = "open"
    /\ \/ /\ j \notin asked
          /\ runs[j] = 1 \/ j \in PriorRun
          /\ outcome' = [outcome EXCEPT ![j] = "complete"]
       \/ j \in asked /\ outcome' = [outcome EXCEPT ![j] = "canceled"]
       \/ outcome' = [outcome EXCEPT ![j] = "failed"]
    /\ UNCHANGED <<asked, prevented, versions, runs>>

Next == \E j \in Jobs : Ask(j) \/ Publish(j) \/ Start(j) \/ End(j)

Spec == Init /\ [][Next]_view

=============================================================================
