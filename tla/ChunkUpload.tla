---------------------------- MODULE ChunkUpload -----------------------------
(***************************************************************************)
(* How the archives of a job reach the relay and leave it again: admission *)
(* (create_job), chunk uploads whose bodies stream outside the job lock,   *)
(* assembly in a thread that holds it, upload deadlines, retention cleanup *)
(* and deletion (app/main.py, app/capacity.py, app/archive.py).  What      *)
(* becomes of the job on Kaggle is the subject of JobLifecycle; here a     *)
(* worker takes it, ends it and leaves.                                    *)
(*                                                                         *)
(* All handlers are coroutines of one event loop: what runs between two    *)
(* awaits is one action.  Handlers that await under the job lock hold it   *)
(* across actions (holder).  Every chunk is one unit of space; check_free  *)
(* asks the disk, which other programs fill too, so it may refuse at any   *)
(* time.                                                                   *)
(***************************************************************************)
EXTENDS Naturals, FiniteSets

CONSTANTS
    Jobs, Users, Owner,          \* Owner[j]: the relay token that creates j
    AllKeys,                     \* tokens with access to every job (allow_all_keys)
    Requests,                    \* concurrent chunk requests
    DatasetChunks, KernelChunks, \* chunk indices of the two archives
    Contents, Good,              \* digests; Good[i]: the chunk the archive's digest needs
    Extracted,                   \* space the extracted archives take
    MaxParallelUploads, MaxParallelUploadsPerUser,
    MaxActiveJobs, MaxActiveJobsPerUser,
    AssemblyWorkers,
    MaxCrashes,                  \* bound on restarts
    None                         \* absent value

Chunks == DatasetChunks \cup KernelChunks
Stream == [user : Users, job : Jobs, chunk : Chunks, sha : Contents]

ASSUME UploadAssumption ==
    /\ IsFiniteSet(Jobs) /\ IsFiniteSet(Requests) /\ IsFiniteSet(Chunks)
    /\ Owner \in [Jobs -> Users] /\ AllKeys \subseteq Users
    /\ DatasetChunks \cap KernelChunks = {}
    /\ Good \in [Chunks -> Contents]
    /\ MaxParallelUploads \in Nat /\ MaxParallelUploadsPerUser \in Nat
    /\ MaxActiveJobs \in Nat /\ MaxActiveJobsPerUser \in Nat
    /\ Extracted \in Nat /\ AssemblyWorkers \in Nat /\ MaxCrashes \in Nat
    /\ None \notin Contents /\ None \notin Stream

VARIABLES
    (* durable: the job row, its chunk rows and its files *)
    status,     \* jobs.status, by what may happen to the job
    reserved,   \* jobs.reserved_bytes
    rows,       \* chunks.sha256
    parts,      \* the content of chunks/<archive>/<index>.part
    (* the clock *)
    late,       \* jobs past their upload deadline
    quiet,      \* jobs whose upload_activity_at is older than the lease
    (* the dataset cache, which jobs of the same dataset_ref change *)
    cached,     \* jobs whose dataset need not be uploaded
    (* volatile *)
    stream,     \* the upload_chunk frames between the two locked sections
    upload_count, user_uploads, active_uploads,
    holder,     \* who holds the job lock across awaits
    active,     \* app.state.active_job_ids
    scan,       \* the jobs cleanup_expired_jobs has still to look at
    crashes

durable == <<status, reserved, rows, parts>>
world == <<late, quiet, cached, crashes>>
uploads == <<stream, upload_count, user_uploads, active_uploads>>
vars == <<durable, world, uploads, holder, active, scan>>

(* "expired": failed with cleanup_due_at set; "ended": any other terminal  *)
(* status; "cleaned": terminal with cleaned_at set; "deleted": no row.     *)
Status == {"new", "receiving", "assembling", "queued", "running",
           "ended", "expired", "cleaned", "deleted"}
Terminal == {"ended", "expired", "cleaned"}
(* "slot" waits for assembly_slots; the next four are stages of the thread *)
(* in assemble_and_validate_job.                                           *)
Assembling == {"dataset", "kernel", "extract", "check"}
Holder == {"nobody", "slot", "download", "delete", "clean"} \cup Assembling

TypeOK ==
    /\ status \in [Jobs -> Status]
    /\ reserved \in [Jobs -> Nat]
    /\ rows \in [Jobs -> [Chunks -> Contents \cup {None}]]
    /\ parts \in [Jobs -> [Chunks -> Contents \cup {None}]]
    /\ late \subseteq Jobs /\ quiet \subseteq Jobs /\ cached \subseteq Jobs
    /\ stream \in [Requests -> Stream \cup {None}]
    /\ upload_count \in Nat
    /\ user_uploads \in [Users -> Nat]
    /\ active_uploads \in [Jobs -> Nat]
    /\ holder \in [Jobs -> Holder]
    /\ active \subseteq Jobs
    /\ scan \in [Jobs -> {"no", "ended", "stale"}]
    /\ crashes \in 0..MaxCrashes

Empty == [i \in Chunks |-> None]

Init ==
    /\ status = [j \in Jobs |-> "new"]
    /\ reserved = [j \in Jobs |-> 0]
    /\ rows = [j \in Jobs |-> Empty]
    /\ parts = [j \in Jobs |-> Empty]
    /\ late = {} /\ quiet = {} /\ cached = {}
    /\ stream = [r \in Requests |-> None]
    /\ upload_count = 0
    /\ user_uploads = [u \in Users |-> 0]
    /\ active_uploads = [j \in Jobs |-> 0]
    /\ holder = [j \in Jobs |-> "nobody"]
    /\ active = {}
    /\ scan = [j \in Jobs |-> "no"]
    /\ crashes = 0

-----------------------------------------------------------------------------
(* Writes to the job row.                                                  *)

(* Mutant: only cleanup releases the reservation.                          *)
KeepReservation(j, s) == status' = [status EXCEPT ![j] = s] /\ UNCHANGED reserved

(* update_job and update_job_if_status: a terminal status releases the     *)
(* reservation in the same statement.                                      *)
SetStatus(j, s) ==
    /\ status' = [status EXCEPT ![j] = s]
    /\ reserved' = [reserved EXCEPT ![j] = IF s \in Terminal THEN 0 ELSE @]

Reserve(j, needed) == reserved' = [reserved EXCEPT ![j] = needed]

(* consume, add_chunk: MAX(0, reserved_bytes - size).                      *)
Consume(j, size) == reserved' = [reserved EXCEPT ![j] = IF @ > size THEN @ - size ELSE 0]

LockFree(j) == holder[j] = "nobody"
Overdue(j) == j \in late

(* reject_expired_upload in a locked section.                              *)
ExpireReceiving(j) ==
    /\ status[j] = "receiving" /\ Overdue(j)
    /\ SetStatus(j, "expired")

-----------------------------------------------------------------------------
(* create_job.                                                             *)

Open == {j \in Jobs : status[j] \in {"receiving", "assembling", "queued", "running"}}

(* check_admission, up to the answer of check_free.                        *)
Admitted(j) ==
    /\ Cardinality(Open) < MaxActiveJobs
    /\ Cardinality({k \in Open : Owner[k] = Owner[j]}) < MaxActiveJobsPerUser

(* Under storage_budget.lock.  That the reservations are read before the   *)
(* free space only makes the answer stricter: they shrink as space is used.*)
CreateJob(j) ==
    /\ status[j] = "new"
    /\ Admitted(j)
    /\ status' = [status EXCEPT ![j] = "receiving"]
    /\ Reserve(j, 3 * Cardinality(Chunks))
    /\ UNCHANGED <<rows, parts, world, uploads, holder, active, scan>>

-----------------------------------------------------------------------------
(* upload_chunk.  Two locked sections; between them the body streams and   *)
(* the request holds a slot of each counter.                               *)

Touch(j) == quiet' = quiet \ {j}

HasFile(j, i, c) == rows[j][i] = c /\ parts[j][i] = c

SlotsLeft(u) ==
    /\ upload_count < MaxParallelUploads
    /\ user_uploads[u] < MaxParallelUploadsPerUser

(* A late job is refused, and marked expired by the refusal.               *)
RefuseLate(j) ==
    /\ LockFree(j)
    /\ ExpireReceiving(j)
    /\ UNCHANGED <<rows, parts, world, uploads, holder, active, scan>>

(* The chunk is there already: an idempotent retry renews the lease.       *)
ChunkAgain(j, i, c) ==
    /\ LockFree(j)
    /\ status[j] = "receiving" /\ ~Overdue(j)
    /\ HasFile(j, i, c)
    /\ Touch(j)
    /\ UNCHANGED <<durable, late, cached, crashes, uploads, holder, active, scan>>

(* can_access_job: the slots are counted for the token that sends.         *)
CanAccess(u, j) == u = Owner[j] \/ u \in AllKeys

(* A chunk without a row is let in when slots are left.                    *)
BeginChunk(r, u, j, i, c) ==
    /\ LockFree(j)
    /\ CanAccess(u, j)
    /\ stream[r] = None
    /\ status[j] = "receiving" /\ ~Overdue(j)
    /\ rows[j][i] = None
    /\ SlotsLeft(u)
    /\ Touch(j)
    /\ stream' = [stream EXCEPT ![r] = [user |-> u, job |-> j, chunk |-> i, sha |-> c]]
    /\ upload_count' = upload_count + 1
    /\ user_uploads' = [user_uploads EXCEPT ![u] = @ + 1]
    /\ active_uploads' = [active_uploads EXCEPT ![j] = @ + 1]
    /\ UNCHANGED <<durable, late, cached, crashes, holder, active, scan>>

(* Mutant: the sender's slot is not given back.                            *)
ReleaseGlobal(r) ==
    /\ stream' = [stream EXCEPT ![r] = None]
    /\ upload_count' = upload_count - 1
    /\ active_uploads' = [active_uploads EXCEPT ![stream[r].job] = @ - 1]
    /\ UNCHANGED user_uploads

(* The finally clause of upload_chunk.                                     *)
EndStream(r) ==
    /\ stream' = [stream EXCEPT ![r] = None]
    /\ upload_count' = upload_count - 1
    /\ user_uploads' = [user_uploads EXCEPT ![stream[r].user] = @ - 1]
    /\ active_uploads' = [active_uploads EXCEPT ![stream[r].job] = @ - 1]

(* Timeout, disconnect, wrong size or digest, no space: without the lock.  *)
StreamFails(r) ==
    /\ stream[r] # None
    /\ EndStream(r)
    /\ UNCHANGED <<durable, world, holder, active, scan>>

(* The deadline passed: seen at the next block or when the body is done.   *)
StreamTooLate(r) ==
    /\ stream[r] # None
    /\ LockFree(stream[r].job)
    /\ ExpireReceiving(stream[r].job)
    /\ EndStream(r)
    /\ UNCHANGED <<rows, parts, world, holder, active, scan>>

(* Mutant: the second section does not look for a row.                     *)
AcceptsAnything(j, i, c) == TRUE
(* No row yet, or one of the same digest that lost its file.               *)
Accepts(j, i, c) ==
    /\ rows[j][i] \in {None, c}
    /\ ~HasFile(j, i, c)

(* tmp_path.replace and add_chunk.                                         *)
StoreChunk(j, i, c) ==
    /\ parts' = [parts EXCEPT ![j][i] = c]
    /\ rows' = [rows EXCEPT ![j][i] = c]
    /\ Consume(j, IF rows[j][i] = None THEN 1 ELSE 0)
    /\ Touch(j)

(* Mutant: the deadline is only checked before the body.                   *)
StillReceiving(j) == status[j] = "receiving"
(* The job as it is now, not as it was before the body.                    *)
MayCommit(j) == status[j] = "receiving" /\ ~Overdue(j)

(* The body is complete and its digest right: the second locked section.   *)
CommitChunk(r) ==
    /\ stream[r] # None
    /\ LET j == stream[r].job
           i == stream[r].chunk
           c == stream[r].sha
       IN  /\ LockFree(j)
           /\ MayCommit(j)
           /\ Accepts(j, i, c)
           /\ StoreChunk(j, i, c)
    /\ EndStream(r)
    /\ UNCHANGED <<status, late, cached, crashes, holder, active, scan>>

(* The job moved on, or another request stored this chunk first: 409, or a *)
(* duplicate's 200.                                                        *)
ChunkSuperseded(r) ==
    /\ stream[r] # None
    /\ LET j == stream[r].job IN
       /\ LockFree(j)
       /\ \/ status[j] # "receiving"
          \/ ~Overdue(j) /\ ~Accepts(j, stream[r].chunk, stream[r].sha)
    /\ EndStream(r)
    /\ UNCHANGED <<durable, world, holder, active, scan>>

-----------------------------------------------------------------------------
(* complete_job and assemble_and_validate_job.                             *)

(* The newest version under the dataset_ref is ready and has this payload. *)
CacheHit(j) == j \in cached

(* The chunks that the job's own uploads must supply.                      *)
Needed(j) == IF CacheHit(j) THEN KernelChunks ELSE Chunks

(* Mutant: the rows are checked, the files are not.                        *)
RowsOnly(j, i) == rows[j][i] # None
Received(j, i) == rows[j][i] # None /\ parts[j][i] # None

Complete(j) ==
    /\ LockFree(j)
    /\ status[j] = "receiving" /\ ~Overdue(j)
    /\ \A i \in Needed(j) : Received(j, i)
    /\ SetStatus(j, "assembling")
    /\ holder' = [holder EXCEPT ![j] = "slot"]
    /\ UNCHANGED <<rows, parts, world, uploads, active, scan>>

(* Back to receiving, with what was received and the reservation left.     *)
BackToReceiving(j) ==
    /\ status' = [status EXCEPT ![j] = "receiving"]
    /\ holder' = [holder EXCEPT ![j] = "nobody"]
    /\ UNCHANGED <<reserved, rows, parts, world, uploads, active, scan>>

(* The client leaves while the request waits for an assembly slot, or the  *)
(* first reserve finds no space.                                           *)
AbandonSlot(j) ==
    /\ holder[j] = "slot"
    /\ BackToReceiving(j)

(* CapacityError, of a later reserve or of a space check of the thread.    *)
NoSpace(j) ==
    /\ holder[j] \in {"dataset", "kernel", "extract"}
    /\ BackToReceiving(j)

AssemblySlotFree == Cardinality({j \in Jobs : holder[j] \in Assembling}) < AssemblyWorkers

(* The thread looks at the dataset cache again, and reserves for what it   *)
(* must assemble now.                                                      *)
StartAssembly(j) ==
    /\ holder[j] = "slot"
    /\ AssemblySlotFree
    /\ Reserve(j, 2 * Cardinality(Needed(j)))
    /\ holder' = [holder EXCEPT ![j] = IF CacheHit(j) THEN "kernel" ELSE "dataset"]
    /\ UNCHANGED <<status, rows, parts, world, uploads, active, scan>>

(* Mutant: the archive's digest is not compared.                           *)
FilesThere(j, chunks) == \A i \in chunks : parts[j][i] # None
(* assemble_archive: every chunk file there, and the archive's digest the  *)
(* one the client announced.                                               *)
ArchiveGood(j, chunks) == \A i \in chunks : parts[j][i] = Good[i]

AssembleDataset(j) ==
    /\ holder[j] = "dataset"
    /\ ArchiveGood(j, DatasetChunks)
    /\ Consume(j, Cardinality(DatasetChunks))
    /\ holder' = [holder EXCEPT ![j] = "kernel"]
    /\ UNCHANGED <<status, rows, parts, world, uploads, active, scan>>

(* The kernel archive, then a reservation made from the archives' entries. *)
AssembleKernel(j) ==
    /\ holder[j] = "kernel"
    /\ ArchiveGood(j, KernelChunks)
    /\ Reserve(j, Extracted)
    /\ holder' = [holder EXCEPT ![j] = "extract"]
    /\ UNCHANGED <<status, rows, parts, world, uploads, active, scan>>

Extract(j) ==
    /\ holder[j] = "extract"
    /\ Consume(j, Extracted)
    /\ holder' = [holder EXCEPT ![j] = "check"]
    /\ UNCHANGED <<status, rows, parts, world, uploads, active, scan>>

(* A missing chunk, a wrong digest, a bad archive or payload, an I/O error.*)
AssemblyFails(j) ==
    /\ holder[j] \in Assembling
    /\ SetStatus(j, "ended")
    /\ holder' = [holder EXCEPT ![j] = "nobody"]
    /\ UNCHANGED <<rows, parts, world, uploads, active, scan>>

SubmitJob(j) ==
    /\ holder[j] = "check"
    /\ SetStatus(j, "queued")
    /\ holder' = [holder EXCEPT ![j] = "nobody"]
    /\ UNCHANGED <<rows, parts, world, uploads, active, scan>>

-----------------------------------------------------------------------------
(* The rest of a job's life, as far as uploads, cleanup and delete see it. *)

(* cancel_job.  A running job is ended by its worker.                      *)
Cancel(j) ==
    /\ LockFree(j)
    /\ status[j] \in {"receiving", "queued"}
    /\ SetStatus(j, "ended")
    /\ UNCHANGED <<rows, parts, world, uploads, holder, active, scan>>

(* For the submission, a recheck or a resumption.                          *)
WorkerTakes(j) ==
    /\ status[j] \in {"queued", "running"} /\ j \notin active
    /\ SetStatus(j, "running")
    /\ active' = active \cup {j}
    /\ UNCHANGED <<rows, parts, world, uploads, holder, scan>>

(* The thread finalizes the row.                                           *)
WorkerEnds(j) ==
    /\ status[j] = "running" /\ j \in active
    /\ SetStatus(j, "ended")
    /\ UNCHANGED <<rows, parts, world, uploads, holder, active, scan>>

(* worker_loop forgets the job: some time after it ended, or as a parked   *)
(* one that is still running.                                              *)
WorkerLeaves(j) ==
    /\ j \in active
    /\ active' = active \ {j}
    /\ UNCHANGED <<durable, world, uploads, holder, scan>>

(* Submitted, or assembled before the upload expired, and not cleaned.     *)
Downloadable(j) == status[j] \in {"queued", "running", "ended", "expired"}

(* JobLockedFileResponse holds the job lock until the client has the file. *)
Download(j) ==
    /\ LockFree(j)
    /\ Downloadable(j)
    /\ holder' = [holder EXCEPT ![j] = "download"]
    /\ UNCHANGED <<durable, world, uploads, active, scan>>

DownloadEnds(j) ==
    /\ holder[j] = "download"
    /\ holder' = [holder EXCEPT ![j] = "nobody"]
    /\ UNCHANGED <<durable, world, uploads, active, scan>>

-----------------------------------------------------------------------------
(* delete_job and cleanup_expired_jobs.                                    *)

OnlyWorkers(j) == j \in active      \* mutant: open bodies are forgotten
InUse(j) == active_uploads[j] > 0 \/ j \in active

Delete(j) ==
    /\ LockFree(j)
    /\ status[j] \in Terminal \cup {"receiving"}
    /\ ~InUse(j)
    /\ holder' = [holder EXCEPT ![j] = "delete"]
    /\ UNCHANGED <<durable, world, uploads, active, scan>>

(* rmtree, in the thread: file after file, and it may stop half way.       *)
RemoveFile(j) ==
    /\ holder[j] \in {"delete", "clean"}
    /\ \E i \in Chunks : parts[j][i] # None /\ parts' = [parts EXCEPT ![j][i] = None]
    /\ UNCHANGED <<status, reserved, rows, world, uploads, holder, active, scan>>

(* delete_job_files_and_record: the row goes after the files.              *)
DeleteDone(j) ==
    /\ holder[j] = "delete" /\ parts[j] = Empty
    /\ status' = [status EXCEPT ![j] = "deleted"]
    /\ reserved' = [reserved EXCEPT ![j] = 0]
    /\ rows' = [rows EXCEPT ![j] = Empty]
    /\ holder' = [holder EXCEPT ![j] = "nobody"]
    /\ UNCHANGED <<parts, world, uploads, active, scan>>

(* A thread that removes files fails, and the job keeps its record.        *)
RemovalFails(j) ==
    /\ holder[j] \in {"delete", "clean"}
    /\ holder' = [holder EXCEPT ![j] = "nobody"]
    /\ UNCHANGED <<durable, world, uploads, active, scan>>

(* The two queries: expired jobs and terminal ones past their retention,   *)
(* overdue and quiet uploads.                                              *)
StaleReceiving(j) == status[j] = "receiving" /\ (j \in quiet \/ Overdue(j))

(* Mutant: the query for terminal jobs ignores cleanup_due_at.             *)
PastRetention(j, old) == j \in old
CleanupDue(j, old) == status[j] = "expired" \/ j \in old

StartScan ==
    /\ \A j \in Jobs : scan[j] = "no" /\ holder[j] # "clean"
    /\ \E old \in SUBSET {j \in Jobs : status[j] = "ended"} :
         scan' = [j \in Jobs |-> IF CleanupDue(j, old) THEN "ended"
                                 ELSE IF StaleReceiving(j) THEN "stale" ELSE "no"]
    /\ UNCHANGED <<durable, world, uploads, holder, active>>

TimedOut(j) == status[j] = "receiving" /\ Overdue(j)

(* Mutant: the query's answer is trusted under the lock.                   *)
WasQuiet(j) == scan[j] = "stale" /\ status[j] = "receiving"
(* An upload that the query saw quiet and that is still quiet.             *)
QuietUpload(j) == scan[j] = "stale" /\ status[j] = "receiving" /\ j \in quiet

(* What of the job is removed: everything unless it is in use, gone or     *)
(* cleaned, or became active again since the query.                        *)
Removes(j) ==
    /\ status[j] \notin {"cleaned", "deleted"}
    /\ ~InUse(j)
    /\ TimedOut(j) \/ scan[j] = "ended" \/ QuietUpload(j)

(* One round of the loop, under the job lock, up to the removal thread.    *)
ScanJob(j) ==
    /\ scan[j] # "no"
    /\ LockFree(j)
    /\ \A k \in Jobs : holder[k] # "clean"
    /\ scan' = [scan EXCEPT ![j] = "no"]
    /\ IF TimedOut(j) \/ (Removes(j) /\ QuietUpload(j))
       THEN SetStatus(j, "expired")
       ELSE UNCHANGED <<status, reserved>>
    /\ holder' = [holder EXCEPT ![j] = IF Removes(j) THEN "clean" ELSE @]
    /\ UNCHANGED <<rows, parts, world, uploads, active>>

(* cleanup_expired_job: the files go, the row stays.                       *)
CleanDone(j) ==
    /\ holder[j] = "clean" /\ parts[j] = Empty
    /\ SetStatus(j, "cleaned")
    /\ holder' = [holder EXCEPT ![j] = "nobody"]
    /\ UNCHANGED <<rows, parts, world, uploads, active, scan>>

-----------------------------------------------------------------------------
(* The world: time, jobs that share the dataset, restarts.                 *)

DeadlinePasses(j) ==
    /\ status[j] \in {"receiving", "assembling"} /\ ~Overdue(j)
    /\ late' = late \cup {j}
    /\ UNCHANGED <<durable, quiet, cached, crashes, uploads, holder, active, scan>>

LeaseRunsOut(j) ==
    /\ status[j] = "receiving" /\ j \notin quiet
    /\ quiet' = quiet \cup {j}
    /\ UNCHANGED <<durable, late, cached, crashes, uploads, holder, active, scan>>

(* Another job publishes this payload, or a newer one, under the same      *)
(* dataset_ref.                                                            *)
CacheChanges(j) ==
    /\ status[j] \in {"receiving", "assembling"}
    /\ cached' = IF j \in cached THEN cached \ {j} ELSE cached \cup {j}
    /\ UNCHANGED <<durable, late, quiet, crashes, uploads, holder, active, scan>>

(* A crash between tmp_path.replace and add_chunk leaves a file without    *)
(* a row.                                                                  *)
CommitInterrupted(r) ==
    /\ stream[r] # None
    /\ LET s == stream[r] IN
       /\ LockFree(s.job)
       /\ MayCommit(s.job)
       /\ Accepts(s.job, s.chunk, s.sha)
       /\ parts' = [parts EXCEPT ![s.job][s.chunk] = s.sha]

(* recover_job_after_restart: an interrupted assembly is repeated, a       *)
(* running job is resumed or begins again; either may fail.                *)
RecoveredStatus(j) ==
    {s \in Status :
        \/ s = status[j] /\ s # "assembling"
        \/ s = "ended" /\ status[j] \in {"assembling", "running"}
        \/ s = "queued" /\ status[j] = "running"
        \/ s = "queued" /\ status[j] = "assembling" /\ ArchiveGood(j, Needed(j))}

(* What is volatile is gone; recovery runs before the first request.       *)
Restart ==
    /\ crashes < MaxCrashes
    /\ crashes' = crashes + 1
    /\ UNCHANGED parts \/ \E r \in Requests : CommitInterrupted(r)
    /\ status' \in {f \in [Jobs -> Status] : \A j \in Jobs : f[j] \in RecoveredStatus(j)}
    /\ reserved' = [j \in Jobs |-> IF status'[j] = status[j] THEN reserved[j] ELSE 0]
    /\ stream' = [r \in Requests |-> None]
    /\ upload_count' = 0
    /\ user_uploads' = [u \in Users |-> 0]
    /\ active_uploads' = [j \in Jobs |-> 0]
    /\ holder' = [j \in Jobs |-> "nobody"]
    /\ active' = {}
    /\ scan' = [j \in Jobs |-> "no"]
    /\ UNCHANGED <<rows, late, quiet, cached>>

-----------------------------------------------------------------------------

Upload(j) ==
    \/ RefuseLate(j)
    \/ \E i \in Chunks, c \in Contents :
         \/ ChunkAgain(j, i, c)
         \/ \E r \in Requests, u \in Users : BeginChunk(r, u, j, i, c)

EndOfBody(r) == StreamFails(r) \/ StreamTooLate(r) \/ CommitChunk(r) \/ ChunkSuperseded(r)

Assembly(j) ==
    \/ AbandonSlot(j) \/ NoSpace(j) \/ StartAssembly(j) \/ AssembleDataset(j)
    \/ AssembleKernel(j) \/ Extract(j) \/ AssemblyFails(j) \/ SubmitJob(j)

Worker(j) == WorkerTakes(j) \/ WorkerEnds(j) \/ WorkerLeaves(j)

Removal(j) == RemoveFile(j) \/ DeleteDone(j) \/ CleanDone(j) \/ RemovalFails(j)

Client(j) ==
    CreateJob(j) \/ Upload(j) \/ Complete(j) \/ Cancel(j) \/ Download(j) \/ Delete(j)

World(j) == DeadlinePasses(j) \/ LeaseRunsOut(j) \/ CacheChanges(j)

Next ==
    \/ \E j \in Jobs : \/ Client(j) \/ Assembly(j) \/ Worker(j) \/ DownloadEnds(j)
                       \/ ScanJob(j) \/ Removal(j) \/ World(j)
    \/ \E r \in Requests : EndOfBody(r)
    \/ StartScan
    \/ Restart

Spec == Init /\ [][Next]_vars

(* Bodies end (upload_idle_seconds), threads and transfers end, the        *)
(* cleanup loop comes round, the job lock is first come first served, and  *)
(* files that cannot be removed now can be removed later.                  *)
FairSpec ==
    /\ Spec
    /\ \A r \in Requests : WF_vars(EndOfBody(r))
    /\ WF_vars(StartScan)
    /\ \A j \in Jobs :
         /\ WF_vars(Assembly(j)) /\ WF_vars(DownloadEnds(j)) /\ WF_vars(WorkerLeaves(j))
         /\ WF_vars(Removal(j))
         /\ SF_vars(ScanJob(j)) /\ SF_vars(RemoveFile(j)) /\ SF_vars(CleanDone(j))

-----------------------------------------------------------------------------
(* Safety *)

Streams == {r \in Requests : stream[r] # None}
StreamsOf(j) == {r \in Streams : stream[r].job = j}
StreamsBy(u) == {r \in Streams : stream[r].user = u}

(* The three upload counters equal the bodies being received, whoever      *)
(* sends them and however they end, and stay within the settings: a leaked *)
(* slot would lock a token out, one freed twice would lift its limit.      *)
SlotsExact ==
    /\ upload_count = Cardinality(Streams) /\ upload_count <= MaxParallelUploads
    /\ \A u \in Users : /\ user_uploads[u] = Cardinality(StreamsBy(u))
                        /\ user_uploads[u] <= MaxParallelUploadsPerUser
    /\ \A j \in Jobs : active_uploads[j] = Cardinality(StreamsOf(j))

(* Delete and cleanup never take files, row or status from under a body    *)
(* that is being received or a worker that still has the job.              *)
NoRemovalUnderUse ==
    [][\A j \in Jobs :
         \/ \E i \in Chunks : parts[j][i] # None /\ parts'[j][i] = None
         \/ status'[j] \in {"cleaned", "deleted"} /\ status'[j] # status[j]
         => StreamsOf(j) = {} /\ j \notin active]_vars

(* Chunks are acknowledged once: two requests for one chunk with different *)
(* contents race, and whichever is stored first is never replaced.         *)
AcceptedIsFixed ==
    [][\A j \in Jobs, i \in Chunks :
         rows[j][i] # None => rows'[j][i] = rows[j][i] \/ status'[j] = "deleted"]_vars

(* The assembly thread finds the kernel chunks that complete_job checked,  *)
(* with the acknowledged contents, however long it waited for its slot and *)
(* whatever failed removals left of the job before.                        *)
AssemblyInputs ==
    \A j \in Jobs : status[j] = "assembling" =>
        \A i \in KernelChunks : rows[j][i] # None /\ HasFile(j, i, rows[j][i])

(* A submitted, terminal or deleted job reserves no space, although chunks *)
(* end, assembly reserves and the job is canceled or expires in any order: *)
(* admission would count a reservation left behind for ever.               *)
ReservationsSettle ==
    \A j \in Jobs : status[j] \notin {"receiving", "assembling"} => reserved[j] = 0

(* Past the deadline nothing is accepted: no chunk, also not one whose     *)
(* body began in time, and no completion.                                  *)
DeadlineFinal ==
    [][\A j \in Jobs : j \in late =>
         /\ \A i \in Chunks : rows[j][i] = None => rows'[j][i] = None
         /\ status[j] = "receiving" => status'[j] # "assembling"]_vars

(* Only the deadline ends an upload whose lease was renewed, or that is    *)
(* sending a body, between the cleanup's query and its turn at the lock.   *)
LeaseHonoured ==
    [][\A j \in Jobs :
         status[j] = "receiving" /\ status'[j] = "expired" /\ j \notin late
         => j \in quiet /\ StreamsOf(j) = {}]_vars

-----------------------------------------------------------------------------
(* What the handlers implement *)

Phase == [j \in Jobs |-> IF status[j] \in {"queued", "running"} THEN "submitted" ELSE status[j]]
Sending == {j \in Jobs : StreamsOf(j) # {}}

(* The thread is past the dataset archive, or need not assemble it.        *)
DatasetDone == {j \in Jobs : holder[j] \in {"kernel", "extract", "check"}}

Contract == INSTANCE UploadContract
    WITH phase <- Phase, chunks <- rows, settled <- DatasetDone,
         sending <- Sending, working <- active, published <- cached

(* Bodies outside the lock, assembly in a thread, cleanup, removals that   *)
(* fail and restarts at any point take the steps of UploadContract only,   *)
(* its two exceptions included: in these the relay fails an upload that    *)
(* src/README.md:118 and :264 leave resumable.                             *)
KeepsUploads == Contract!Spec

(* "Incomplete uploads return 409 from `complete` and remain resumable in  *)
(* `receiving`, rather than becoming failed" (src/README.md:264): a job is *)
(* not failed by the assembly of a dataset of which a chunk was not sent.  *)
IncompleteStaysResumable ==
    [][\A j \in Jobs :
         holder[j] = "dataset" /\ status'[j] = "ended"
         => \A i \in DatasetChunks : parts[j][i] # None]_vars

-----------------------------------------------------------------------------
(* The inductive invariant *)

(* What keeps these: the lock is held through assembly and removal, a job  *)
(* that is being removed is not in use, and a file is the one of its row.  *)
LockOwners ==
    \A j \in Jobs :
        /\ status[j] = "assembling" <=> holder[j] \in {"slot"} \cup Assembling
        /\ holder[j] = "delete" => status[j] \in Terminal \cup {"receiving"}
        /\ holder[j] = "clean" => status[j] \in Terminal
        /\ scan[j] = "ended" => status[j] \in Terminal \cup {"deleted"}
        /\ holder[j] \in {"delete", "clean"} => StreamsOf(j) = {} /\ j \notin active

StageReserves ==
    \A j \in Jobs : /\ holder[j] = "extract" => reserved[j] = Extracted
                    /\ holder[j] = "check" => reserved[j] = 0

(* The last two stages come after the digest of the kernel archive.        *)
StageArchives ==
    \A j \in Jobs : holder[j] \in {"extract", "check"} => ArchiveGood(j, KernelChunks)

PartsMatch ==
    \A j \in Jobs, i \in Chunks :
        rows[j][i] = None \/ parts[j][i] \in {None, rows[j][i]}

Inv ==
    /\ TypeOK /\ SlotsExact /\ LockOwners /\ StageReserves /\ PartsMatch
    /\ AssemblyInputs /\ ReservationsSettle

-----------------------------------------------------------------------------
(* Liveness, under FairSpec *)

(* An overdue upload is marked even while a body streams, and its files    *)
(* are removed in the end, through removal failures and restarts.          *)
OverdueIsCleaned ==
    \A j \in Jobs :
        (status[j] = "receiving" /\ j \in late) \/ status[j] = "expired"
        ~> status[j] \in {"cleaned", "deleted", "ended"}
=============================================================================
