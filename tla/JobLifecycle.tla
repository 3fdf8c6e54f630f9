---------------------------- MODULE JobLifecycle ----------------------------
(***************************************************************************)
(* The life of a relay job: the SQLite row (app/database.py), the worker   *)
(* thread that drives it to Kaggle (app/worker.py), the SDK child process  *)
(* that uploads its dataset (app/kaggle_adapter.py), the HTTP handlers     *)
(* that cancel, complete and report on it, the recheck scheduler           *)
(* (app/dataset_recovery.py) and the recovery run at startup (app/main.py).*)
(*                                                                         *)
(* The row and the upload intent are durable; threads, queue and handlers  *)
(* are lost in a crash; the SDK child runs in its own session and may      *)
(* outlive the relay.  One step of a thread is one transaction on the row  *)
(* or one remote call.  Progress is rounded down to the two thresholds the *)
(* code tests (45: push may be in flight, 60: kernel submitted).           *)
(***************************************************************************)
EXTENDS Naturals, Sequences, FiniteSets

CONSTANTS
    Jobs,            \* jobs with a fixed Kaggle key
    Datasets,        \* (dataset_ref, payload_hash, key) triples
    DatasetOf,       \* the dataset each job trains on
    RefOf,           \* the dataset_ref of each dataset
    WorkerCount,     \* settings.worker_count
    PriorRun,        \* jobs whose kernel_ref already has a finished run
    CanCrash,        \* the relay may crash or be shut down, and restart
    ManualRecheck    \* clients POST /complete on retained jobs

ASSUME ConstantsAssumption ==
    /\ DatasetOf \in [Jobs -> Datasets]
    /\ DOMAIN RefOf = Datasets
    /\ WorkerCount \in Nat \ {0}
    /\ PriorRun \subseteq Jobs
    /\ CanCrash \in BOOLEAN
    /\ ManualRecheck \in BOOLEAN

VARIABLES
    (* durable *)
    status,     \* jobs.status
    progress,   \* jobs.progress, rounded down to 0, 45 or 60
    error,      \* jobs.error, by the marker it starts with
    cancel,     \* jobs.cancel_requested_at is set
    recheck,    \* jobs.dataset_recheck_state
    intent,     \* state of the upload-intent file, "none" when absent
    cached,     \* datasets with a current ready row in the dataset cache
    pushLog,    \* jobs whose logs hold "successfully pushed"
    (* volatile *)
    pc,         \* where the worker thread of the job is, "idle" when there is none
    action,     \* the action of the queue item the thread runs
    exc,        \* the exception the thread is handling
    queue,      \* app.state.queue
    handler,    \* jobs whose POST /complete is assembling, job lock held
    toRecover,  \* jobs startup recovery has still to look at
    (* outside the relay process *)
    child,      \* the SDK child process uploading the job's dataset
    kernel,     \* what Kaggle shows under the job's kernel_ref
    uploads,    \* number of dataset versions the job created on Kaggle
    pushes,     \* number of kernel runs the job started on Kaggle
    (* observation only: no guard reads it *)
    early       \* jobs whose cancel was accepted before the push was claimed

stage == <<status, progress, error>>
rows == <<stage, cancel, recheck>>
threads == <<pc, action, exc>>
files == <<intent, cached, pushLog>>
durable == <<rows, files>>
volatile == <<threads, queue, handler, toRecover>>
kaggle == <<kernel, uploads, pushes>>
vars == <<durable, volatile, child, kaggle, early>>

-----------------------------------------------------------------------------
(* Types *)

Terminal == {"complete", "failed", "canceled"}
BeforePush == {"receiving", "assembling", "queued", "uploading_dataset", "waiting_dataset"}
Running == {"assembling", "queued", "uploading_dataset", "waiting_dataset", "pushing_kernel",
            "waiting_kernel", "cancel_requested", "downloading_output"}
Status == {"receiving"} \cup Running \cup Terminal

Errors == {"none", "dataset_unknown", "kernel_unknown", "other"}
Rechecks == {"none", "scheduled", "checking", "blocked", "exhausted"}

Intents == {"none", "unknown", "accepted", "rejected"}
Retained == {"unknown", "accepted"}
Actions == {"process", "recheck_dataset", "resume_kernel", "resume_canceled"}
Resumes == {"resume_kernel", "resume_canceled"}
Item == [job : Jobs, action : Actions]

(* Why process_job raised: "transient" is what retryable_verification      *)
(* accepts, "integrity" what integrity_failure matches; "upload_unknown"   *)
(* is DatasetUploadUnknown raised in the SDK child, "interrupted" the      *)
(* KaggleAdapterInterrupted of a shutdown where it is not let through.     *)
Exceptions == {"none", "transient", "integrity", "upload_unknown", "interrupted", "other"}

(* process_job up to the kernel submission, inside the dataset lock ...    *)
Locked == {"waitCached", "toUploading", "upload", "uploading", "toWaiting",
           "waitDataset", "verified", "toPush", "push", "pushed"}
(* ... finish_kernel_job, and the exception handlers.                      *)
Finishing == {"finish", "waitKernel", "download", "package", "markUnknown"}
Handling == {"failed", "canceled", "retain", "schedule"}
Pcs == {"idle", "enter", "done"} \cup Locked \cup Finishing \cup Handling

Children == {"none", "check", "mutate", "record", "ok", "unknown", "error"}

TypeOK ==
    /\ status \in [Jobs -> Status]
    /\ progress \in [Jobs -> Nat]
    /\ error \in [Jobs -> Errors]
    /\ cancel \in [Jobs -> BOOLEAN]
    /\ recheck \in [Jobs -> Rechecks]
    /\ intent \in [Jobs -> Intents]
    /\ cached \subseteq Datasets
    /\ pushLog \subseteq Jobs
    /\ pc \in [Jobs -> Pcs]
    /\ action \in [Jobs -> Actions]
    /\ exc \in [Jobs -> Exceptions]
    /\ queue \in Seq(Item)
    /\ handler \subseteq Jobs
    /\ toRecover \subseteq Jobs
    /\ child \in [Jobs -> Children]
    /\ kernel \in [Jobs -> {"none", "running", "ok", "error"}]
    /\ uploads \in [Jobs -> Nat]
    /\ pushes \in [Jobs -> Nat]
    /\ early \subseteq Jobs

(* Every job as database.create_job leaves it, its archives still to come. *)
Init ==
    /\ status = [j \in Jobs |-> "receiving"]
    /\ progress = [j \in Jobs |-> 0]
    /\ error = [j \in Jobs |-> "none"]
    /\ cancel = [j \in Jobs |-> FALSE]
    /\ recheck = [j \in Jobs |-> "none"]
    /\ intent = [j \in Jobs |-> "none"]
    /\ cached = {}
    /\ pushLog = {}
    /\ pc = [j \in Jobs |-> "idle"]
    /\ action = [j \in Jobs |-> "process"]
    /\ exc = [j \in Jobs |-> "none"]
    /\ queue = <<>>
    /\ handler = {}
    /\ toRecover = {}
    /\ child = [j \in Jobs |-> "none"]
    /\ kernel = [j \in Jobs |-> IF j \in PriorRun THEN "ok" ELSE "none"]
    /\ uploads = [j \in Jobs |-> 0]
    /\ pushes = [j \in Jobs |-> 0]
    /\ early = {}

-----------------------------------------------------------------------------
(* Rows *)

IsTerminal(j) == status[j] \in Terminal

(* update_job and update_job_if_status: one transaction on the job's row.  *)
UpdateRow(j, s, p, e) ==
    /\ status' = [status EXCEPT ![j] = s]
    /\ progress' = [progress EXCEPT ![j] = p]
    /\ error' = [error EXCEPT ![j] = e]

Max2(m, n) == IF m > n THEN m ELSE n

(* job_cancel_requested *)
CancelRequested(j) == cancel[j] \/ status[j] = "cancel_requested"

(* Mutant: finalize_job writes the status its caller asks for.             *)
FinalizeAsAsked(j, preferred, p, e) ==
    IF IsTerminal(j) THEN UNCHANGED stage ELSE UpdateRow(j, preferred, p, e)

(* finalize_job: one transaction; a terminal row stays, a canceled job     *)
(* ends canceled whatever the caller prefers.                              *)
Finalize(j, preferred, p, e) ==
    IF IsTerminal(j) THEN UNCHANGED stage
    ELSE UpdateRow(j, IF CancelRequested(j) THEN "canceled" ELSE preferred, p, e)

(* transition_before_submission: may the compare-and-set succeed?          *)
MayTransition(j, expected) == status[j] \in expected /\ ~cancel[j]

(* Mutant: a status the schema does not know.                              *)
MisspeltStatus(j, running) == IF CancelRequested(j) THEN "canceling" ELSE running

(* update_finish_status and apply_progress_callback: the status a live row *)
(* takes once its kernel is submitted.                                     *)
KernelStatus(j, running) == IF CancelRequested(j) THEN "cancel_requested" ELSE running

ForgetsItem(j, act) == UNCHANGED queue      \* mutant: the queue.put is missing
Enqueue(j, act) == queue' = Append(queue, [job |-> j, action |-> act])

(* The server answers requests only after recover_incomplete_jobs.         *)
Serving == toRecover = {}
Active(j) == pc[j] # "idle"
HoldsLock(j) == pc[j] \in Locked

-----------------------------------------------------------------------------
(* HTTP handlers.  Cancel, complete and the recheck tick hold the job's    *)
(* submission lock, so none runs while a complete is assembling.           *)

JobLockFree(j) == Serving /\ j \notin handler

(* complete_job on a receiving job: claim the assembly                     *)
StartAssembly(j) ==
    /\ JobLockFree(j)
    /\ status[j] = "receiving"
    /\ UpdateRow(j, "assembling", progress[j], error[j])
    /\ handler' = handler \cup {j}
    /\ UNCHANGED <<cancel, recheck, files, threads, queue, toRecover, child, kaggle, early>>

(* ... assemble_and_validate_job succeeded: the job is queued.             *)
AssemblyDone(j) ==
    /\ j \in handler
    /\ status[j] = "assembling"
    /\ UpdateRow(j, "queued", progress[j], "none")
    /\ handler' = handler \ {j}
    /\ Enqueue(j, "process")
    /\ UNCHANGED <<cancel, recheck, files, threads, toRecover, child, kaggle, early>>

(* ... out of disk space, or the client left before an assembly slot was   *)
(* free ("receiving"); or the archives were invalid ("failed").            *)
AssemblyUndone(j) ==
    /\ j \in handler
    /\ status[j] = "assembling"
    /\ \E s \in {"receiving", "failed"}, e \in {error[j], "other"} :
          /\ s = "failed" => e = "other"
          /\ UpdateRow(j, s, progress[j], e)
    /\ handler' = handler \ {j}
    /\ UNCHANGED <<cancel, recheck, files, threads, queue, toRecover, child, kaggle, early>>

(* expire_receiving_upload: the upload was not completed in time.          *)
ExpireUpload(j) ==
    /\ JobLockFree(j)
    /\ status[j] = "receiving"
    /\ UpdateRow(j, "failed", progress[j], "other")
    /\ UNCHANGED <<cancel, recheck, files, volatile, child, kaggle, early>>

(* request_job_cancel: a job that no worker has claimed ends at once, one  *)
(* that may be on Kaggle is asked to stop.                                 *)
Cancel(j) ==
    /\ JobLockFree(j)
    /\ status[j] \notin Terminal \cup {"cancel_requested"}
    /\ \/ /\ status[j] \in {"receiving", "assembling", "queued"}
          /\ UpdateRow(j, "canceled", progress[j], "other")
       \/ /\ status[j] \notin {"receiving", "assembling", "queued"}
          /\ UpdateRow(j, "cancel_requested", progress[j], "none")
    /\ cancel' = [cancel EXCEPT ![j] = TRUE]
    /\ early' = IF status[j] \in BeforePush THEN early \cup {j} ELSE early
    /\ UNCHANGED <<recheck, files, volatile, child, kaggle>>

(* apply_progress_callback, posted by the job's own kernel run; it may     *)
(* arrive late, repeatedly, with a training position or without one.       *)
Callback(j) ==
    /\ Serving
    /\ pushes[j] > 0
    /\ \E p \in {0, 60} :
          UpdateRow(j, IF IsTerminal(j) THEN status[j] ELSE KernelStatus(j, "waiting_kernel"),
                    Max2(progress[j], p), error[j])
    /\ UNCHANGED <<cancel, recheck, files, volatile, child, kaggle, early>>

(* complete_job on a job parked with "kernel_status_unknown:"              *)
ResumeKernel(j) ==
    /\ JobLockFree(j)
    /\ status[j] \in {"waiting_kernel", "cancel_requested"}
    /\ error[j] = "kernel_unknown"
    /\ ~Active(j)
    /\ UpdateRow(j, status[j], progress[j], "none")
    /\ Enqueue(j, IF cancel[j] THEN "resume_canceled" ELSE "resume_kernel")
    /\ UNCHANGED <<cancel, recheck, files, threads, handler, toRecover, child, kaggle, early>>

(* The claim of a retained job for another check of its candidate.         *)
ClaimRecheck(j) ==
    /\ MayTransition(j, {"waiting_dataset"})
    /\ intent[j] \in Retained
    /\ UpdateRow(j, "queued", progress[j], "none")
    /\ recheck' = [recheck EXCEPT ![j] = "checking"]
    /\ Enqueue(j, "recheck_dataset")

(* complete_job on a job parked with "dataset_upload_outcome_unknown:"; an *)
(* exhausted window needs restart_recheck.  active_job_ids is not read.    *)
RequestRecheck(j) ==
    /\ ManualRecheck
    /\ JobLockFree(j)
    /\ error[j] = "dataset_unknown"
    /\ recheck[j] \in {"none", "exhausted"}
    /\ ClaimRecheck(j)
    /\ UNCHANGED <<cancel, files, threads, handler, toRecover, child, kaggle, early>>

-----------------------------------------------------------------------------
(* schedule_dataset_rechecks, one retained job                             *)

Retainable(j) ==
    /\ JobLockFree(j)
    /\ ~Active(j)
    /\ MayTransition(j, {"waiting_dataset"})
    /\ error[j] = "dataset_unknown"

(* A scheduled check is due: it is claimed.                                *)
RecheckDue(j) ==
    /\ Retainable(j)
    /\ recheck[j] = "scheduled"
    /\ ClaimRecheck(j)
    /\ UNCHANGED <<cancel, files, threads, handler, toRecover, child, kaggle, early>>

(* A job without a schedule gets one or is blocked; a scheduled one leaves *)
(* its 24 hour window, or its account or intent is no longer valid.        *)
RecheckSettled(j) ==
    /\ Retainable(j)
    /\ \/ recheck[j] = "none" /\ \E s \in {"scheduled", "exhausted", "blocked"} :
             recheck' = [recheck EXCEPT ![j] = s]
       \/ recheck[j] = "scheduled" /\ \E s \in {"exhausted", "blocked"} :
             recheck' = [recheck EXCEPT ![j] = s]
    /\ UNCHANGED <<stage, cancel, files, volatile, child, kaggle, early>>

-----------------------------------------------------------------------------
(* worker_loop *)

ExpectedStatuses(act) ==
    IF act \in Resumes
    THEN {"pushing_kernel", "waiting_kernel", "downloading_output", "cancel_requested"}
    ELSE {"queued"}

WorkerFree == /\ Serving
              /\ queue # <<>>
              /\ Cardinality({k \in Jobs : Active(k)}) < WorkerCount

(* The item is stale, or its job is active: it is dropped.                 *)
DropItem ==
    /\ WorkerFree
    /\ LET j == Head(queue).job IN
          status[j] \notin ExpectedStatuses(Head(queue).action) \/ Active(j)
    /\ queue' = Tail(queue)
    /\ UNCHANGED <<durable, threads, handler, toRecover, child, kaggle, early>>

(* run_worker_item: a thread starts on the item.                           *)
StartThread ==
    /\ WorkerFree
    /\ LET j == Head(queue).job
           act == Head(queue).action
       IN  /\ status[j] \in ExpectedStatuses(act)
           /\ ~Active(j)
           /\ pc' = [pc EXCEPT ![j] = IF act \in Resumes THEN "finish" ELSE "enter"]
           /\ action' = [action EXCEPT ![j] = act]
           /\ exc' = [exc EXCEPT ![j] = "none"]
    /\ queue' = Tail(queue)
    /\ UNCHANGED <<durable, handler, toRecover, child, kaggle, early>>

Goto(j, next) ==
    /\ pc' = [pc EXCEPT ![j] = next]
    /\ UNCHANGED <<action, exc>>
Raise(j, e) ==
    /\ pc' = [pc EXCEPT ![j] = "failed"]
    /\ exc' = [exc EXCEPT ![j] = e]
    /\ UNCHANGED action
At(j, loc) == pc[j] = loc

(* The finally clause of worker_loop: active_job_ids.discard               *)
ThreadDone(j) ==
    /\ At(j, "done")
    /\ pc' = [pc EXCEPT ![j] = "idle"]
    /\ action' = [action EXCEPT ![j] = "process"]
    /\ exc' = [exc EXCEPT ![j] = "none"]
    /\ UNCHANGED <<durable, queue, handler, toRecover, child, kaggle, early>>

-----------------------------------------------------------------------------
(* process_job, from the dataset lock to the kernel push.  Each operator   *)
(* is one step of the thread of job j.                                     *)

(* Frames: steps that touch only the thread; the row too.                  *)
OnlyThread == UNCHANGED <<durable, queue, handler, toRecover, child, kaggle, early>>
ThreadAndRow ==
    UNCHANGED <<cancel, recheck, files, queue, handler, toRecover, child, kaggle, early>>

SameRef(j, k) == RefOf[DatasetOf[j]] = RefOf[DatasetOf[k]]
LockFree(j) == \A k \in Jobs : HoldsLock(k) => ~SameRef(j, k)

(* Under the lock: the cancel check, then the path the cache and the saved *)
(* intent select.  A saved intent always beats the shared cache, and a     *)
(* recheck without a usable candidate is refused.                          *)
Enter(j) ==
    /\ At(j, "enter")
    /\ LockFree(j)
    /\ \/ CancelRequested(j) /\ Goto(j, "canceled")
       \/ /\ ~CancelRequested(j)
          /\ \/ /\ action[j] = "process"
                /\ Goto(j, IF DatasetOf[j] \in cached /\ intent[j] = "none"
                           THEN "waitCached" ELSE "toUploading")
             \/ action[j] = "recheck_dataset" /\ intent[j] \in Retained /\ Goto(j, "toWaiting")
             \/ action[j] = "recheck_dataset" /\ intent[j] \notin Retained /\ Raise(j, "integrity")
    /\ OnlyThread

(* Credentials, training policy, owner binding, identity or payload        *)
(* validation fail before or under the lock.                               *)
EnterFails(j) ==
    /\ At(j, "enter")
    /\ Raise(j, "other")
    /\ OnlyThread

(* transition_before_submission: claim the next status, unless the job was *)
(* canceled or its status changed.                                         *)
Transition(j, expected, s, p, next) ==
    \/ /\ MayTransition(j, expected)
       /\ UpdateRow(j, s, p, error[j])
       /\ Goto(j, next)
    \/ /\ ~MayTransition(j, expected)
       /\ IF CancelRequested(j) THEN Goto(j, "canceled") ELSE Raise(j, "other")
       /\ UNCHANGED stage

ToUploading(j) ==
    /\ At(j, "toUploading")
    /\ Transition(j, {"queued", "uploading_dataset", "waiting_dataset"},
                  "uploading_dataset", 0, "upload")
    /\ ThreadAndRow

(* upload_dataset, run in an SDK child: it reads the saved intent first.   *)
(* An accepted or unknown upload is returned, never repeated; a rejected   *)
(* one, changed content, or a failed identity check is an error.  Such a   *)
(* child changes nothing and is not kept apart from the waiting thread.    *)
UploadAgain(j) ==
    /\ At(j, "upload")
    /\ \/ intent[j] \in Retained /\ Goto(j, "toWaiting")
       \/ intent[j] # "none" /\ \E e \in {"transient", "integrity", "other"} : Raise(j, e)
    /\ OnlyThread

UploadsAnyway(j) == TRUE      \* mutant: the saved intent is not consulted
MayUpload(j) == intent[j] = "none"

(* ... without an intent, the child goes on to upload.                     *)
SpawnChild(j) ==
    /\ At(j, "upload")
    /\ MayUpload(j)
    /\ child' = [child EXCEPT ![j] = "check"]
    /\ Goto(j, "uploading")
    /\ UNCHANGED <<durable, queue, handler, toRecover, kaggle, early>>

(* Mutant: a failing exit code is not noticed.                             *)
CollectSuccess(j) ==
    /\ At(j, "uploading") /\ child[j] = "ok"
    /\ Goto(j, "toWaiting")
    /\ child' = [child EXCEPT ![j] = "none"]
    /\ UNCHANGED <<durable, queue, handler, toRecover, kaggle, early>>

(* The child exits; only the exit code crosses the process boundary.       *)
CollectChild(j) ==
    /\ At(j, "uploading")
    /\ \/ child[j] = "ok" /\ Goto(j, "toWaiting")
       \/ child[j] = "unknown" /\ Raise(j, "upload_unknown")
       \/ child[j] = "error" /\ \E e \in {"integrity", "other"} : Raise(j, e)
    /\ child' = [child EXCEPT ![j] = "none"]
    /\ UNCHANGED <<durable, queue, handler, toRecover, kaggle, early>>

(* _communicate times out or runs out of disk space and kills the child.   *)
KillChild(j) ==
    /\ At(j, "uploading")
    /\ child[j] \in {"check", "mutate", "record"}
    /\ \E e \in {"transient", "other"} : Raise(j, e)
    /\ child' = [child EXCEPT ![j] = "none"]
    /\ UNCHANGED <<durable, queue, handler, toRecover, kaggle, early>>

(* After an upload only uploading_dataset may move on; a recheck starts    *)
(* from queued.                                                            *)
ToWaiting(j) ==
    /\ At(j, "toWaiting")
    /\ Transition(j, {IF action[j] = "recheck_dataset" THEN "queued" ELSE "uploading_dataset"},
                  "waiting_dataset", 0, "waitDataset")
    /\ ThreadAndRow

(* Kaggle holds a version with exactly the content of the job's dataset.   *)
Published(j) == \E k \in Jobs : DatasetOf[k] = DatasetOf[j] /\ uploads[k] > 0

(* Mutant: the uploaded version is taken as it is.                         *)
TrustsUpload(j) ==
    /\ \/ At(j, "waitDataset") /\ Goto(j, "verified")
       \/ At(j, "waitCached") /\ Goto(j, "toPush")
    /\ OnlyThread

(* wait_dataset: the uploaded or cached version is verified byte for byte, *)
(* or a cancel is noticed, or verification fails.  A shutdown is an        *)
(* interruption, except in a background recheck, where it is wrapped like  *)
(* any other error.                                                        *)
WaitDataset(j) ==
    /\ Published(j)
    /\ \/ At(j, "waitDataset") /\ Goto(j, "verified")
       \/ At(j, "waitCached") /\ Goto(j, "toPush")
    /\ OnlyThread

WaitDatasetStops(j) ==
    /\ At(j, "waitDataset") \/ At(j, "waitCached")
    /\ \/ CancelRequested(j) /\ Goto(j, "canceled")
       \/ \E e \in {"transient", "integrity", "other"} : Raise(j, e)
       \/ CanCrash /\ action[j] = "recheck_dataset" /\ Raise(j, "interrupted")
    /\ OnlyThread

(* The verified version is recorded and becomes the dataset cache.         *)
Verified(j) ==
    /\ At(j, "verified")
    /\ UpdateRow(j, status[j], progress[j], "none")
    /\ recheck' = [recheck EXCEPT ![j] = "none"]
    /\ \/ CancelRequested(j) /\ Goto(j, "canceled") /\ UNCHANGED cached
       \/ ~CancelRequested(j) /\ Raise(j, "other") /\ UNCHANGED cached
       \/ ~CancelRequested(j) /\ Goto(j, "toPush") /\ cached' = cached \cup {DatasetOf[j]}
    /\ UNCHANGED <<cancel, intent, pushLog, queue, handler, toRecover, child, kaggle, early>>

ToPush(j) ==
    /\ At(j, "toPush")
    /\ \/ Transition(j, {"queued", "waiting_dataset"}, "pushing_kernel", 45, "push")
       \/ Raise(j, "other") /\ UNCHANGED stage      \* a kernel policy refuses the payload
    /\ ThreadAndRow

(* push_kernel: the run starts on Kaggle, and its answer may be lost.      *)
Push(j) ==
    /\ At(j, "push")
    /\ kernel' = [kernel EXCEPT ![j] = "running"]
    /\ pushes' = [pushes EXCEPT ![j] = @ + 1]
    /\ Goto(j, "pushed") \/ Raise(j, "other")
    /\ UNCHANGED <<durable, queue, handler, toRecover, child, uploads, early>>

(* Mutant: a failed push is taken for a successful one.                    *)
PushFailureIgnored(j) == At(j, "push") /\ Goto(j, "pushed") /\ OnlyThread

PushFails(j) ==
    /\ At(j, "push")
    /\ Raise(j, "other")
    /\ OnlyThread

(* The push output is logged; leaving the with block frees the lock.       *)
Pushed(j) ==
    /\ At(j, "pushed")
    /\ pushLog' = pushLog \cup {j}
    /\ Goto(j, "finish")
    /\ UNCHANGED <<rows, intent, cached, queue, handler, toRecover, child, kaggle, early>>

-----------------------------------------------------------------------------
(* finish_kernel_job *)

(* update_finish_status: a terminal row is left alone, and so is a cancel. *)
EnterStatus(j, running, e) ==
    IF IsTerminal(j) THEN UNCHANGED stage
    ELSE UpdateRow(j, KernelStatus(j, running), Max2(progress[j], 60), e)

Finish(j) ==
    /\ At(j, "finish")
    /\ EnterStatus(j, "waiting_kernel", "none")
    /\ Goto(j, "waitKernel")
    /\ ThreadAndRow

(* wait_kernel reports training progress found in the kernel's logs.       *)
PollProgress(j) ==
    /\ At(j, "waitKernel")
    /\ kernel[j] # "none"
    /\ EnterStatus(j, "waiting_kernel", error[j])
    /\ UNCHANGED <<cancel, recheck, files, volatile, child, kaggle, early>>

(* ... sees the run succeed, or fail.                                      *)
WaitKernel(j) ==
    /\ At(j, "waitKernel")
    /\ \/ /\ kernel[j] = "ok"
          /\ UpdateRow(j, status[j], Max2(progress[j], 60), error[j])
          /\ Goto(j, "download")
       \/ /\ kernel[j] = "error"
          /\ Raise(j, "other")
          /\ UNCHANGED stage
    /\ ThreadAndRow

(* Mutant: the marker "kernel_status_unknown:" is not written.             *)
ForgetsMarker(j) == At(j, "waitKernel") /\ Goto(j, "done") /\ UNCHANGED stage /\ ThreadAndRow

(* ... or gives up: the status cannot be queried, or the deadline passed.  *)
(* process_job only logs it, a resumed job is marked again by the worker.  *)
KernelUnavailable(j) ==
    /\ At(j, "waitKernel")
    /\ UpdateRow(j, status[j], progress[j], IF IsTerminal(j) THEN error[j] ELSE "kernel_unknown")
    /\ Goto(j, IF action[j] \in Resumes THEN "markUnknown" ELSE "done")
    /\ ThreadAndRow

(* mark_worker_exception on KernelStatusUnavailable                        *)
MarkUnknown(j) ==
    /\ At(j, "markUnknown")
    /\ UpdateRow(j, status[j], progress[j], IF IsTerminal(j) THEN error[j] ELSE "kernel_unknown")
    /\ Goto(j, "done")
    /\ ThreadAndRow

Download(j) ==
    /\ At(j, "download")
    /\ EnterStatus(j, "downloading_output", error[j])
    /\ Goto(j, "package")
    /\ ThreadAndRow

(* The artifacts are downloaded and packaged, and the job ends.            *)
Package(j) ==
    /\ At(j, "package")
    /\ Finalize(j, IF action[j] = "resume_canceled" THEN "canceled" ELSE "complete", 60, "none")
    /\ Goto(j, "done")
    /\ ThreadAndRow

(* Download, packaging or an update that lost five races raises.           *)
FinishFails(j) ==
    /\ pc[j] \in {"finish", "waitKernel", "download", "package"}
    /\ Raise(j, "other")
    /\ OnlyThread

-----------------------------------------------------------------------------
(* The exception handlers of process_job, and mark_worker_exception        *)

(* Mutant: the handler logs the cancel and leaves the row.                 *)
LogsCancel(j) == At(j, "canceled") /\ Goto(j, "done") /\ UNCHANGED stage /\ ThreadAndRow

HandleCanceled(j) ==
    /\ At(j, "canceled")
    /\ Finalize(j, "canceled", progress[j], "other")
    /\ Goto(j, "done")
    /\ ThreadAndRow

(* Is the candidate kept?  Decided on the row and the intent as read here. *)
KeepsCandidate(j) ==
    /\ action[j] \notin Resumes
    /\ status[j] \in {"uploading_dataset", "waiting_dataset"}
    /\ intent[j] = "unknown" \/ (intent[j] = "accepted" /\ exc[j] # "integrity")

HandleFailed(j) ==
    /\ At(j, "failed")
    /\ \/ /\ KeepsCandidate(j)
          /\ Goto(j, "retain")
          /\ UNCHANGED stage
       \/ /\ ~KeepsCandidate(j)
          /\ Finalize(j, "failed", 0, "other")
          /\ Goto(j, "done")
    /\ ThreadAndRow

(* The unconditional update_job that parks the job.                        *)
Retain(j) ==
    /\ At(j, "retain")
    /\ UpdateRow(j, "waiting_dataset", progress[j], "dataset_unknown")
    /\ Goto(j, "schedule")
    /\ ThreadAndRow

(* retryable_verification, or DatasetUploadUnknown.  The latter is raised  *)
(* in the child and reaches the worker as a plain KaggleAdapterError.      *)
Reschedules(e) == e = "transient"

(* schedule_recheck or block_recheck: both leave a job alone that was      *)
(* canceled or claimed meanwhile.                                          *)
Schedule(j) ==
    /\ At(j, "schedule")
    /\ \/ /\ MayTransition(j, {"waiting_dataset"})
          /\ \E s \in IF Reschedules(exc[j]) THEN {"scheduled", "exhausted"} ELSE {"blocked"} :
                recheck' = [recheck EXCEPT ![j] = s]
       \/ /\ ~MayTransition(j, {"waiting_dataset"})
          /\ UNCHANGED recheck
    /\ Goto(j, "done")
    /\ UNCHANGED <<stage, cancel, files, queue, handler, toRecover, child, kaggle, early>>

-----------------------------------------------------------------------------
(* Outside the relay: the SDK child and the Kaggle kernel                  *)

ChildFrame == UNCHANGED <<rows, cached, pushLog, volatile, kernel, pushes, early>>

(* The child validates, then records the intent durably before it mutates. *)
ChildCheck(j) ==
    /\ child[j] = "check"
    /\ \/ /\ intent' = [intent EXCEPT ![j] = "unknown"]
          /\ child' = [child EXCEPT ![j] = "mutate"]
       \/ /\ child' = [child EXCEPT ![j] = "error"]
          /\ UNCHANGED intent
    /\ UNCHANGED uploads
    /\ ChildFrame

(* dataset_create_new or dataset_create_version: done, done with the       *)
(* response lost, not done, or rejected.                                   *)
ChildMutate(j) ==
    /\ child[j] = "mutate"
    /\ \/ /\ uploads' = [uploads EXCEPT ![j] = @ + 1]
          /\ \E c \in {"record", "unknown"} : child' = [child EXCEPT ![j] = c]
          /\ UNCHANGED intent
       \/ /\ child' = [child EXCEPT ![j] = "unknown"]
          /\ UNCHANGED <<intent, uploads>>
       \/ /\ child' = [child EXCEPT ![j] = "error"]
          /\ intent' = [intent EXCEPT ![j] = "rejected"]
          /\ UNCHANGED uploads
    /\ ChildFrame

ChildRecord(j) ==
    /\ child[j] = "record"
    /\ \/ /\ intent' = [intent EXCEPT ![j] = "accepted"]
          /\ child' = [child EXCEPT ![j] = "ok"]
       \/ /\ child' = [child EXCEPT ![j] = "unknown"]   \* the source changed under the upload
          /\ UNCHANGED intent
    /\ UNCHANGED uploads
    /\ ChildFrame

(* A child that outlived its relay exits with nobody to collect it.        *)
OrphanExits(j) ==
    /\ ~At(j, "uploading")
    /\ child[j] \in {"ok", "unknown", "error"}
    /\ child' = [child EXCEPT ![j] = "none"]
    /\ UNCHANGED <<durable, volatile, kaggle, early>>

KernelEnds(j) ==
    /\ kernel[j] = "running"
    /\ \E k \in {"ok", "error"} : kernel' = [kernel EXCEPT ![j] = k]
    /\ UNCHANGED <<durable, volatile, child, uploads, pushes, early>>

-----------------------------------------------------------------------------
(* Crash and recovery *)

(* The process dies or is shut down: threads, queue and handlers are gone, *)
(* SDK children may live on.  The next start scans the running jobs.       *)
Crash ==
    /\ CanCrash
    /\ pc' = [j \in Jobs |-> "idle"]
    /\ action' = [j \in Jobs |-> "process"]
    /\ exc' = [j \in Jobs |-> "none"]
    /\ queue' = <<>>
    /\ handler' = {}
    /\ toRecover' = {j \in Jobs : status[j] \in Running}
    /\ child' = child \/ child' = [j \in Jobs |-> "none"]
    /\ UNCHANGED <<durable, kaggle, early>>

(* recover_incomplete_jobs queues the items that resume a kernel first.    *)
RecoverAs(j, act) ==
    queue' = LET item == <<[job |-> j, action |-> act]>>
             IN  IF act \in Resumes THEN item \o queue ELSE queue \o item

RecoverFrame(j) ==
    /\ j \in toRecover
    /\ toRecover' = toRecover \ {j}
    /\ UNCHANGED <<cancel, recheck, files, threads, handler, child, kaggle, early>>

Recheck(j) == IF recheck[j] = "checking" THEN "recheck_dataset" ELSE "process"

(* fail_recovered_job: an unconditional update_job                         *)
FailRecovered(j) ==
    /\ UpdateRow(j, "failed", 0, "other")
    /\ UNCHANGED queue

(* kernel_status as a probe: it may fail for a reason other than "not      *)
(* found" whether or not the kernel exists.                                *)
ProbeVisible(j) == kernel[j] # "none"
ProbeMissing(j) == kernel[j] = "none"

RecoverQueued(j) ==
    /\ RecoverFrame(j)
    /\ status[j] = "queued"
    /\ RecoverAs(j, Recheck(j))
    /\ UNCHANGED stage

RecoverKernel(j) ==
    /\ RecoverFrame(j)
    /\ status[j] \in {"waiting_kernel", "downloading_output"}
    /\ RecoverAs(j, "resume_kernel")
    /\ UNCHANGED stage

(* Mutant: a job found in pushing_kernel is submitted again.               *)
PushesAgain(j) ==
    /\ RecoverFrame(j)
    /\ status[j] = "pushing_kernel"
    /\ UpdateRow(j, "queued", progress[j], "none")
    /\ RecoverAs(j, "process")

RecoverPushing(j) ==
    /\ RecoverFrame(j)
    /\ status[j] = "pushing_kernel"
    /\ \/ ProbeVisible(j) /\ RecoverAs(j, "resume_kernel") /\ UNCHANGED stage
       \/ FailRecovered(j)

KernelWasSubmitted(j) == progress[j] >= 60 \/ j \in pushLog

RecoverCanceled(j) ==
    /\ RecoverFrame(j)
    /\ status[j] = "cancel_requested"
    /\ \/ /\ KernelWasSubmitted(j) \/ (progress[j] >= 45 /\ ProbeVisible(j))
          /\ RecoverAs(j, "resume_canceled")
          /\ UNCHANGED stage
       \/ /\ ~KernelWasSubmitted(j)
          /\ progress[j] >= 45
          /\ FailRecovered(j)
       \/ /\ ~KernelWasSubmitted(j)
          /\ progress[j] < 45 \/ ProbeMissing(j)
          /\ UpdateRow(j, "canceled", progress[j], "other")
          /\ UNCHANGED queue

AssumesCandidate(j) == TRUE      \* mutant: the saved intent is not consulted
HasCandidate(j) == intent[j] \in Retained

(* A parked job keeps its schedule; otherwise a retained candidate is      *)
(* checked again, and a job without one fails.                             *)
Parked(j) ==
    /\ status[j] = "waiting_dataset"
    /\ recheck[j] # "checking"
    /\ recheck[j] # "none" \/ error[j] = "dataset_unknown"

RecoverDataset(j) ==
    /\ RecoverFrame(j)
    /\ status[j] \in {"uploading_dataset", "waiting_dataset"}
    /\ \/ Parked(j) /\ UNCHANGED <<stage, queue>>
       \/ /\ ~Parked(j) /\ HasCandidate(j)
          /\ IF cancel[j] THEN UNCHANGED <<stage, queue>>
             ELSE /\ UpdateRow(j, "queued", progress[j], "none")
                  /\ RecoverAs(j, Recheck(j))
       \/ ~Parked(j) /\ ~HasCandidate(j) /\ FailRecovered(j)

RecoverAssembly(j) ==
    /\ RecoverFrame(j)
    /\ status[j] = "assembling"
    /\ \/ /\ UpdateRow(j, "queued", progress[j], "none")
          /\ RecoverAs(j, "process")
       \/ FailRecovered(j)

-----------------------------------------------------------------------------
(* The specification *)

Handler(j) == AssemblyDone(j) \/ AssemblyUndone(j)
Client(j) == \/ StartAssembly(j) \/ ExpireUpload(j) \/ Cancel(j)
             \/ Callback(j) \/ ResumeKernel(j) \/ RequestRecheck(j)
Tick(j) == RecheckDue(j) \/ RecheckSettled(j)
Dispatch == DropItem \/ StartThread
Submit(j) == \/ Enter(j) \/ EnterFails(j) \/ ToUploading(j) \/ UploadAgain(j) \/ SpawnChild(j)
             \/ CollectChild(j) \/ KillChild(j) \/ ToWaiting(j) \/ WaitDataset(j)
             \/ WaitDatasetStops(j) \/ Verified(j) \/ ToPush(j) \/ Push(j) \/ PushFails(j)
             \/ Pushed(j)
Monitor(j) == \/ Finish(j) \/ PollProgress(j) \/ WaitKernel(j) \/ KernelUnavailable(j)
              \/ MarkUnknown(j) \/ Download(j) \/ Package(j) \/ FinishFails(j)
Except(j) == \/ HandleCanceled(j) \/ HandleFailed(j) \/ Retain(j) \/ Schedule(j) \/ ThreadDone(j)
ThreadStep(j) == Submit(j) \/ Monitor(j) \/ Except(j)
Child(j) == ChildCheck(j) \/ ChildMutate(j) \/ ChildRecord(j) \/ OrphanExits(j)
Recover(j) == \/ RecoverQueued(j) \/ RecoverKernel(j) \/ RecoverPushing(j)
              \/ RecoverCanceled(j) \/ RecoverDataset(j) \/ RecoverAssembly(j)

Next ==
    \/ \E j \in Jobs : \/ Handler(j) \/ Client(j) \/ Tick(j) \/ ThreadStep(j)
                       \/ Child(j) \/ KernelEnds(j) \/ Recover(j)
    \/ Dispatch
    \/ Crash

Spec == Init /\ [][Next]_vars

(* Worker loops, threads, assemblies, the scheduler and recovery keep      *)
(* running, children and kernels end; clients and crashes owe nothing.     *)
Fairness ==
    /\ WF_vars(Dispatch)
    /\ \A j \in Jobs : /\ WF_vars(Handler(j))
                       /\ WF_vars(Tick(j))
                       /\ WF_vars(ThreadStep(j))
                       /\ WF_vars(Child(j))
                       /\ WF_vars(KernelEnds(j))
                       /\ WF_vars(Recover(j))

FairSpec == Spec /\ Fairness

-----------------------------------------------------------------------------
(* Safety *)

(* A job creates at most one dataset version on Kaggle, whatever crashes,  *)
(* lost responses, rechecks and orphaned SDK children occur: upload_dataset*)
(* writes the intent before it mutates and every later run reads it.       *)
SingleUpload == \A j \in Jobs : uploads[j] <= 1

(* A job starts at most one kernel run: neither recovery nor a recheck     *)
(* takes a job back before pushing_kernel once its push may have happened. *)
SinglePush == \A j \in Jobs : pushes[j] <= 1

(* A new upload never starts beside an orphaned SDK child that has not yet *)
(* recorded its intent: recovery of uploading_dataset fails such a job.    *)
NoSecondUploader == \A j \in Jobs : At(j, "upload") /\ intent[j] = "none" => child[j] = "none"

(* A cancel accepted before the push was claimed keeps the kernel from     *)
(* ever being started (require_not_canceled in every transition).          *)
EarlyCancelNeverPushes == \A j \in early : pushes[j] = 0

(* A canceled job never ends complete, however the cancel races with the   *)
(* finish path: finalize_job decides in one transaction.                   *)
CancelNeverCompletes == \A j \in Jobs : status[j] = "complete" => ~cancel[j]

(* A complete job's artifacts come from a kernel run that this job started *)
(* and that succeeded (finish_kernel_job, recover_job_after_restart).      *)
CompleteMeansOwnRun == \A j \in Jobs : status[j] = "complete" => pushes[j] = 1

(* A kernel is only ever started on a dataset whose content Kaggle holds:  *)
(* no cache hit, lost response or recheck lets a job skip the upload of    *)
(* data that nobody published.                                             *)
TrainsOnPublishedData == \A j \in Jobs : pushes[j] > 0 => Published(j)

(* The worker thread is the only one inside its dataset's submission lock. *)
LockExclusive ==
    \A j, k \in Jobs : HoldsLock(j) /\ HoldsLock(k) /\ SameRef(j, k) => j = k

HasItem(j) == \E i \in 1..Len(queue) : queue[i].job = j

(* The markers in a parked job's row.                                      *)
ParkedDataset(j) == status[j] = "waiting_dataset" /\ error[j] = "dataset_unknown"
ParkedKernel(j) == status[j] \in {"waiting_kernel", "cancel_requested"} /\ error[j] = "kernel_unknown"

(* Somebody will act on the job next: a thread, a queue item, startup      *)
(* recovery, the assembling handler, or the marker in its row that the     *)
(* recheck scheduler and POST /complete look for.                          *)
HasOwner(j) ==
    \/ Active(j) \/ HasItem(j) \/ j \in toRecover \/ j \in handler
    \/ status[j] = "receiving" \/ ParkedDataset(j) \/ ParkedKernel(j)

(* No job that nobody canceled is ever stranded: it is terminal or owned.  *)
NoStrandedJob == \A j \in Jobs : IsTerminal(j) \/ cancel[j] \/ HasOwner(j)

TerminalStays == \A j \in Jobs : status[j] \in Terminal => status'[j] = status[j]

(* A terminal status is never left: no late callback, retry, retained      *)
(* candidate or recovery moves a finished job.                             *)
TerminalStable == [][TerminalStays]_status

-----------------------------------------------------------------------------
(* Refinement *)

Outcome == [j \in Jobs |-> IF IsTerminal(j) THEN status[j] ELSE "open"]
Asked == {j \in Jobs : cancel[j]}

Contract == INSTANCE JobContract
                WITH outcome <- Outcome, asked <- Asked, prevented <- early,
                     versions <- uploads, runs <- pushes

(* The relay keeps its contract with the client: every step of a handler,  *)
(* a thread, a child, the scheduler or recovery is a step of JobContract   *)
(* or invisible.                                                           *)
KeepsContract == Contract!Spec

-----------------------------------------------------------------------------
(* The inductive invariant behind the safety properties                    *)

(* Threads before the run is started on Kaggle.                            *)
PrePush == {"enter"} \cup (Locked \ {"pushed"})

(* Recovery runs before the worker loops and the handlers.                 *)
RecoveryAlone == toRecover # {} => handler = {} /\ \A j \in Jobs : ~Active(j)

(* A run that may exist takes the row past every status a push starts from.*)
PushInv(j) ==
    /\ pushes[j] <= 1
    /\ status[j] \in BeforePush \/ pc[j] \in PrePush \cup {"retain"} => pushes[j] = 0
    /\ At(j, "push") => status[j] \notin BeforePush

(* The intent precedes the upload, and an SDK child without one belongs to *)
(* a job that can no longer reach an upload.                               *)
UploadInv(j) ==
    /\ uploads[j] <= 1
    /\ intent[j] = "none" \/ child[j] \in {"check", "mutate"} => uploads[j] = 0
    /\ child[j] \in {"mutate", "record"} => intent[j] # "none"
    /\ At(j, "retain") => intent[j] # "none"
    /\ At(j, "upload") \/ At(j, "uploading")
          => status[j] \notin {"receiving", "assembling", "queued", "waiting_dataset"}
    /\ child[j] # "none" /\ intent[j] = "none" /\ ~At(j, "uploading")
          => /\ pc[j] \notin PrePush
             /\ status[j] \notin {"receiving", "assembling", "queued", "waiting_dataset"}

(* Only a parked job carries the marker, and the thread that parks a job   *)
(* cannot be overtaken by its end.                                         *)
ParkInv(j) ==
    /\ error[j] = "dataset_unknown"
          => status[j] = "waiting_dataset" /\ pc[j] \in {"idle", "schedule", "done"}
    /\ At(j, "retain") => status[j] \in {"uploading_dataset", "waiting_dataset", "cancel_requested"}

CancelInv(j) ==
    /\ j \in early => cancel[j] /\ pushes[j] = 0 /\ ~At(j, "push")
    /\ status[j] = "complete" => ~cancel[j]

JobInv(j) == PushInv(j) /\ UploadInv(j) /\ ParkInv(j) /\ CancelInv(j)

Inv == /\ TypeOK
       /\ RecoveryAlone
       /\ \A j \in Jobs : JobInv(j)

(* A thread past the verification holds published data.                    *)
DataInv == \A j \in Jobs :
    pc[j] \in {"verified", "toPush", "push", "pushed"} \/ pushes[j] > 0 => Published(j)

(* Unless a kernel_ref had an earlier run, what Kaggle shows and what is   *)
(* downloaded under it is the job's own.                                   *)
RunInv == \A j \in Jobs \ PriorRun :
    kernel[j] # "none" \/ pc[j] \in {"download", "package"} \/ status[j] = "complete"
       => pushes[j] > 0

(* While its thread is about to push, nobody ends a job.                   *)
LiveInv == \A j \in Jobs : At(j, "push") => status[j] \in {"pushing_kernel", "cancel_requested"}

(* Whatever ends a job as canceled was started by a cancel of it.          *)
Canceling(j) == \/ status[j] \in {"cancel_requested", "canceled"}
                \/ At(j, "canceled")
                \/ action[j] = "resume_canceled"

AskedInv ==
    /\ \A j \in Jobs : Canceling(j) => cancel[j]
    /\ \A i \in 1..Len(queue) : queue[i].action = "resume_canceled" => cancel[queue[i].job]

(* What NoStrandedJob rests on.  An item counts only while the worker loop *)
(* will not drop it as stale, and each place where a thread may end, park  *)
(* or be scheduled needs an owner to hand the job to.                      *)
QueuedFor(j) == {queue[i].action : i \in {x \in 1..Len(queue) : queue[x].job = j}}
Wanted(j) == \E act \in QueuedFor(j) : status[j] \in ExpectedStatuses(act)

Released(j) == IsTerminal(j) \/ cancel[j]

Owned(j) ==
    \/ Released(j) \/ Active(j) \/ Wanted(j) \/ j \in toRecover \/ j \in handler
    \/ status[j] = "receiving" \/ ParkedDataset(j) \/ ParkedKernel(j)

HandoverInv(j) ==
    /\ At(j, "done") => Released(j) \/ ParkedDataset(j) \/ ParkedKernel(j)
    /\ At(j, "schedule") => Released(j) \/ ParkedDataset(j)
    /\ pc[j] \in {"waitKernel", "markUnknown"}
          => IsTerminal(j) \/ status[j] \in {"waiting_kernel", "cancel_requested"}
    /\ recheck[j] \in {"scheduled", "exhausted", "blocked"} => Released(j) \/ ParkedDataset(j)

OwnerInv == \A j \in Jobs : Owned(j) /\ HandoverInv(j)

-----------------------------------------------------------------------------
(* Liveness, under FairSpec *)

(* The relay is not restarted for ever.                                    *)
CrashesEnd == <>[][~Crash]_vars

(* A queued job is taken by a worker or canceled, the ones that recovery   *)
(* queues after a restart included.                                        *)
QueuedIsTaken == CrashesEnd => \A j \in Jobs : status[j] = "queued" ~> status[j] # "queued"

(* A cancel that finds its job's worker before the kernel submission ends  *)
(* the job, also when the relay restarts on the way.                       *)
CancelEndsSubmission ==
    CrashesEnd => \A j \in Jobs :
        status[j] = "cancel_requested" /\ pc[j] \in Locked \cup {"enter"}
            ~> IsTerminal(j) \/ error[j] = "kernel_unknown"

(* Every worker thread ends: each remote call it waits for has a deadline, *)
(* and every exception leads to a handler.                                 *)
ThreadEnds == \A j \in Jobs : Active(j) ~> ~Active(j)

-----------------------------------------------------------------------------
(* What documentation and tests say that the code does not do              *)

(* README, "Kernel Progress Callback": after POST /cancel, Relay marks the *)
(* job canceled.                                                           *)
CancelSettles == \A j \in Jobs : status[j] = "cancel_requested" ~> IsTerminal(j)

(* test_worker_does_not_resurrect_cancel_during_upload_transition: a job   *)
(* asked to cancel never returns to a running status.                      *)
CancelNotResurrected ==
    [][\A j \in Jobs : status[j] = "cancel_requested"
                       => status'[j] \in Terminal \cup {"cancel_requested"}]_status

=============================================================================
