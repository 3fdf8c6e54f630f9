--------------------------- MODULE UploadContract ---------------------------
(***************************************************************************)
(* What a client may rely on while its archives are at the relay: a chunk  *)
(* that was acknowledged stays, the deadline is final, an upload in time   *)
(* that is kept alive does not expire, a job is submitted only with the    *)
(* archives that its client announced, an incomplete upload is not failed  *)
(* for that, and nothing is removed while it is in use.  Two exceptions,   *)
(* in which the relay does less than src/README.md says, are steps of      *)
(* their own.  Requests, locks, threads, files and reservations do not     *)
(* occur.                                                                  *)
(***************************************************************************)
EXTENDS FiniteSets, Naturals

CONSTANTS
    Jobs, Owner,
    DatasetChunks, KernelChunks, Contents,
    Good,                        \* Good[i]: the chunk that the archive needs
    MaxActiveJobs, MaxActiveJobsPerUser,
    None                         \* absent value

VARIABLES
    phase,       \* "new", "receiving", "assembling", "submitted", "ended", "expired", ...
    chunks,      \* the chunks acknowledged so far
    settled,     \* jobs in assembly whose dataset is known to be right
    (* what the relay is told: it may change at any time *)
    late, quiet,           \* jobs past their deadline, jobs with a lease run out
    sending, working,      \* jobs with an open body, jobs with a worker
    published              \* jobs whose dataset is on Kaggle already

view == <<phase, chunks, settled>>

Empty == [i \in DatasetChunks \cup KernelChunks |-> None]

Init ==
    /\ phase = [j \in Jobs |-> "new"]
    /\ chunks = [j \in Jobs |-> Empty]
    /\ settled = {}

Unfinished == {j \in Jobs : phase[j] \in {"receiving", "assembling", "submitted"}}
InUse(j) == j \in sending \cup working

(* The dataset archive is the announced one as far as its chunks were      *)
(* acknowledged: a crash may leave a chunk behind that never was.          *)
DatasetRight(j) ==
    j \in published \/ \A i \in DatasetChunks : chunks[j][i] \in {None, Good[i]}
KernelRight(j) == \A i \in KernelChunks : chunks[j][i] = Good[i]

Moves(j, from, to) ==
    /\ phase[j] \in from
    /\ phase' = [phase EXCEPT ![j] = to]
    /\ settled' = settled \ {j}

Create(j) ==
    /\ Moves(j, {"new"}, "receiving")
    /\ Cardinality(Unfinished) < MaxActiveJobs
    /\ Cardinality({k \in Unfinished : Owner[k] = Owner[j]}) < MaxActiveJobsPerUser
    /\ UNCHANGED chunks

Acknowledge(j, i, c) ==
    /\ phase[j] = "receiving" /\ j \in sending \ late
    /\ chunks[j][i] = None
    /\ chunks' = [chunks EXCEPT ![j][i] = c]
    /\ UNCHANGED <<phase, settled>>

Claim(j) ==
    /\ Moves(j, {"receiving"}, "assembling")
    /\ j \notin late
    /\ \A i \in KernelChunks : chunks[j][i] # None
    /\ j \in published \/ \A i \in DatasetChunks : chunks[j][i] # None
    /\ UNCHANGED chunks

Settle(j) ==
    /\ phase[j] = "assembling" /\ DatasetRight(j)
    /\ settled' = settled \cup {j}
    /\ UNCHANGED <<phase, chunks>>

(* No space now: the client may complete the upload again.                 *)
Release(j) == Moves(j, {"assembling"}, "receiving") /\ UNCHANGED chunks

Submit(j) ==
    /\ Moves(j, {"assembling"}, "submitted")
    /\ j \in settled /\ KernelRight(j)
    /\ UNCHANGED chunks

(* The job is canceled, or fails or completes after its submission.        *)
End(j) == Moves(j, {"receiving", "submitted"}, "ended") /\ UNCHANGED chunks

(* Some of the dataset was never acknowledged, nor found on Kaggle.        *)
Incomplete(j) == j \notin settled /\ \E i \in DatasetChunks : chunks[j][i] = None

(* The archives are refused, or the disk fails: not for want of a chunk.   *)
Reject(j) == Moves(j, {"assembling"}, "ended") /\ ~Incomplete(j) /\ UNCHANGED chunks

Expire(j) ==
    /\ Moves(j, {"receiving"}, "expired")
    /\ j \in late \/ j \in quiet \ sending
    /\ UNCHANGED chunks

Clean(j) ==
    /\ Moves(j, {"ended", "expired"}, "cleaned")
    /\ ~InUse(j)
    /\ UNCHANGED chunks

Delete(j) ==
    /\ Moves(j, {"receiving", "ended", "expired", "cleaned"}, "deleted")
    /\ ~InUse(j)
    /\ chunks' = [chunks EXCEPT ![j] = Empty]

(* After a restart no job is left in assembly, and none is forgotten.      *)
Resumes(j) ==
    \/ phase[j] # "assembling" /\ phase'[j] = phase[j]
    \/ phase[j] = "submitted" /\ phase'[j] = "ended"
    \/ phase[j] = "assembling" /\ DatasetRight(j) /\ KernelRight(j) /\ phase'[j] = "submitted"

-----------------------------------------------------------------------------
(* Exceptions *)

(* The dataset was on Kaggle when the job was claimed, its chunks were not *)
(* asked for, and it is not there any more.  src/README.md:264 leaves an   *)
(* incomplete upload receiving "rather than becoming failed".              *)
Forgets(j) == Moves(j, {"assembling"}, "ended") /\ Incomplete(j) /\ UNCHANGED chunks

(* Recovery fails an assembly that it cannot repeat, also for want of      *)
(* space, for which src/README.md:118 leaves it receiving.                 *)
GivesUp(j) == phase[j] = "assembling" /\ phase'[j] = "ended"

-----------------------------------------------------------------------------

Recover ==
    /\ \A j \in Jobs : Resumes(j) \/ GivesUp(j)
    /\ phase' = [j \in Jobs |-> phase'[j]]
    /\ settled' = {}
    /\ UNCHANGED chunks

Next ==
    \/ Recover
    \/ \E j \in Jobs :
         \/ Create(j) \/ Claim(j) \/ Settle(j) \/ Release(j) \/ Submit(j) \/ End(j)
         \/ Reject(j) \/ Forgets(j) \/ Expire(j) \/ Clean(j) \/ Delete(j)
         \/ \E i \in DatasetChunks \cup KernelChunks, c \in Contents : Acknowledge(j, i, c)

Spec == Init /\ [][Next]_view

=============================================================================
