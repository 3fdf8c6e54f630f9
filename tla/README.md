# Kaggle Relay: a TLA+ model of the job service

Kaggle Relay is a single-process FastAPI service (`src/app`). Clients upload a
dataset archive and a kernel archive in chunks; the relay publishes the dataset
on Kaggle, pushes the kernel, monitors the run, downloads and packages its
output, and answers status, progress and cancel requests meanwhile. State lives
in SQLite and in a few files; the work is done by worker threads and by child
processes that run the Kaggle SDK.

This directory models the part of the service that decides *what happens to a
job*: who may create it and on whose key; how its archives arrive, are assembled
and are removed; its status row under concurrent handlers, threads, children,
crashes and restarts; which account it runs on and when; the lock that keeps two
jobs off one dataset; and how the published dataset is checked before a kernel
may train on it.

## 1. Inventory

| Component | State | Operations | What must hold |
|---|---|---|---|
| Job rows (`database.py`) | status, progress, error marker, cancel stamp, recheck state | `update_job`, `update_job_if_status`, `finalize_job` | a terminal row stays, a canceled job is never complete |
| HTTP handlers (`main.py`) | per-job submission locks, the queue | create, chunk, complete, cancel, callbacks, delete | accepted requests are carried out |
| Worker loops (`main.py`) | `queue`, `active_job_ids`, `active_accounts`, `account_pending` | take, drop, park, run, release | limits per account, no lost wakeup |
| Dynamic scheduler (`scheduler.py`) | assignment state and account of a job | bind, reject | no account is given more than it may run |
| Worker pipeline (`worker.py`, `kaggle_adapter.py`) | the thread's position | upload, verify, push, monitor, download, package | one upload, one push, the right data |
| SDK child (`kaggle_sdk.py`, `upload_intent.py`) | the upload-intent file | check, write intent, mutate Kaggle, record | the intent precedes the mutation |
| Recheck scheduler (`dataset_recovery.py`) | recheck state and due time | claim, reschedule, block, exhaust | a retained candidate is looked at again |
| Startup recovery (`main.py`) | none of its own | one decision per running job | nothing is repeated, nothing is forgotten |
| Dataset lock (`worker.py`) | a table of refcounted locks | enter, leave | a mutex per `dataset_ref`, no leak |
| Chunked upload and removal (`main.py`, `archive.py`) | chunk rows and files, upload counters, the job lock, deadlines | create, chunk, complete, download, expire, clean, delete | accepted chunks stay, nothing in use is removed, counters return to zero |
| Storage budget (`capacity.py`) | reservations | admit, reserve, consume | nothing stays reserved, space is not oversold |
| Authentication (`auth_config.py`, `main.py`) | the configuration file, the store loaded from it | edit, publish, create, bind | no job of a deleted token, no edit lost, keys by the current configuration |
| Sessions (`ui_auth.py`, `security.py`) | sessions, failure counters | log in, limit | not modelled |
| Dataset checks (`dataset_verification_*.py`, `dataset_file_verification.py`) | the check children, the evidence of each candidate, an account's next turn and cooldown | reserve, send, compare, record, defer | only a matching version is accepted, evidence is kept, the pace and the cooldown are held |
| Quota cache, startup progress, stop reasons | futures; stages; details | submit; report; classify | answers are no older than promised |
| Policies and artifact contracts (`*_policy.py`, `*_guard.py`, `*_artifacts.py`, ...) | none | predicates over archives | out of scope: stateless |

Interaction: the handlers, the worker loops and the scheduler are coroutines of
one event loop, so what runs between two `await`s is atomic among them. Worker
threads run beside them and share only the database and the dataset lock; every
database call is one transaction, so a read and the write that depends on it
are two steps unless `update_job_if_status` or `finalize_job` joins them. An
SDK child runs in its own session: it survives a crash of the relay.

What is hard to test is listed in `PROJECT.json` under `hazards`, at the line
where it bites. Most of them are races between a thread and a handler, and
crashes between a remote effect and its record.

## 2. Modules

| Module | Models | Proofs | Run modules |
|---|---|---|---|
| `JobLifecycle` | rows, handlers, pipeline, SDK child, recheck scheduler, recovery | `JobLifecycleProofs`, `JobOwnerProofs` | `MCJobLifecycle` |
| `ChunkUpload` | chunked upload, assembly, expiry, cleanup, deletion | `ChunkUploadProofs` | `MCChunkUpload` |
| `UploadContract` | what a client may rely on while it uploads, and the two cases in which the relay gives less than documented | | (through `ChunkUpload`) |
| `AccountSlots` | worker loops, account slots, dynamic scheduler | `AccountSlotsProofs` | `MCAccountSlots` |
| `DatasetLock` | the refcounted lock table | `DatasetLockProofs` | `MCDatasetLock` |
| `RefMutex` | what the lock promises: a mutex per `dataset_ref` | | (through `DatasetLock`) |
| `JobContract` | what a client may rely on: one end, one version, one run, cancels that hold | `JobContractProofs` | (through `JobLifecycle`) |
| `Admission` | configuration edits, job creation, choice of keys | `AdmissionProofs` | `MCAdmission` |
| `AdmissionContract` | what administrators and clients may rely on: edits, creations and bindings as whole operations | | (through `Admission`) |
| `DatasetCheck` | the check of a published version, its evidence and pacing | `DatasetCheckProofs` | `MCDatasetCheck` |

The modules meet at five abstractions. `JobLifecycle` takes the dataset lock as
one guard (`LockFree`); `DatasetLock` shows that the code's table of locks
implements exactly that mutex (`ImplementsMutex`). `AccountSlots` reduces a
worker thread to "submits, monitors, ends"; `JobLifecycle` is the detail of it
and in turn ignores accounts (its worker loop starts any item that is not
stale). `ChunkUpload` follows the files: it sees the pipeline as a worker that
takes a job, ends it or parks it, and leaves; `JobLifecycle` sees the upload as
one assembly step that succeeds, is undone or fails. `DatasetCheck` is the
inside of `WaitDataset` and `WaitDatasetStops`, which reduce it to its outcome
and error class. `Admission` decides which job may exist under which token and
key; the other modules start from jobs that do.

### JobLifecycle

Durable variables are the columns that the control flow reads (`status`,
`progress`, `error`, `cancel`, `recheck`), the upload intent, the dataset cache
and the log line "successfully pushed". Volatile ones are the position of each
job's thread (`pc`, `action`, `exc`), the queue, the assembling handlers and
recovery's work list. Outside the relay are the SDK child, the kernel that
Kaggle shows under the job's `kernel_ref`, and two counters of what the job did
on Kaggle (`uploads`, `pushes`). `early` is a history variable.

Abstractions:

* `progress` is rounded down to the thresholds the code tests (45 and 60);
* `error` is the marker it starts with, `"none"` for the empty text;
* an exception is the class the handlers tell apart;
* one step of a thread is one transaction or one remote call, so a cancel or a
  crash may fall between any two;
* a remote call may succeed, fail, or succeed and lose its answer;
* due times, cooldowns and deadlines are nondeterministic;
* `Callback` posts as the job's own run, late and repeatedly.

`Crash` stands for a kill and for a shutdown: threads, queue and handlers are
gone, children live on or not. Recovery looks at one job per step, and the
server answers nothing before it is done (`Serving`), as in `lifespan`.

### ChunkUpload

`upload_chunk` has two sections under the job lock, with the body in between.
`BeginChunk` is the first, one of `CommitChunk`, `ChunkSuperseded`,
`StreamTooLate` and `StreamFails` the rest with its `finally` clause; `stream`
holds what the suspended frame remembers. Handlers that await while they hold
the job lock appear in `holder`: waiting for an assembly slot, the four stages
of the assembly thread, a download, a removal. `scan` is the list that
`cleanup_expired_jobs` read before it waits for each lock.

`status` merges what the file handlers treat alike: `"running"` is any status
of the pipeline after `queued`, parked jobs included; `"ended"` a terminal one,
`"expired"` a failed one with `cleanup_due_at`, `"cleaned"` one with
`cleaned_at`. Time is two sets, `late` and `quiet`; retention may have passed
for any ended job (`StartScan`).

Abstractions:

* a chunk is one unit of space, its content a digest; `Good` is the digest the
  archive needs, so that a chunk that is intact but wrong can be uploaded;
* free space is no number: every space check may refuse, which gives
  `StreamFails`, `AbandonSlot` and `NoSpace`;
* requests that change nothing (a wrong size, a conflicting digest in the first
  section, a job of somebody else) have no action;
* whether the dataset is already on Kaggle (`cached`) changes at any time until
  the job is submitted, since other jobs publish under the same `dataset_ref`;
* a removal deletes file after file and may stop at any of them.

### AccountSlots

`status` keeps who may act on a job: submitting, parked for a recheck, kernel
running, kernel of unknown status, and the canceled variants that no thread
owns. A worker loop's iteration is one action (`DropItem`, `ParkItem`,
`StartItem`), its `finally` clause another (`ReleaseSlot`). `Bind` is the part
of `schedule_pending_jobs` after the quota lookups were awaited, where occupancy
is counted again; any eligible account whose quota arrived may win. The race of
a manual recheck with a thread that has not left (see the findings) is the
subject of `JobLifecycle` and excluded here: a parked job is claimed only when
it is not active, as the scheduler does. A slot is taken before the first database
write of an iteration; an exception of that write (`src/app/main.py:1453`, outside the
`try`) would end the loop with the slot taken and is not modelled.

### Admission

The file, the store in memory and the store's identity (`version`) are separate,
because `create_job` compares identities and an edit replaces the file before it
publishes the store. A request is a record with a position; an edit goes through
reading, replacing (or refusing what does not load) and publishing, a creation
through authentication, the choice of candidates (after which remote lookups
are awaited), the snapshot of a dynamic job's accounts, and admission under the
lock. `storage_budget.lock` and `AUTH_CONFIG_LOCK` are always taken in this order
and are one lock. A restart loads the file. The entries of the configuration are
sets; the checks of the parser are the predicate `Loads`. Which candidate has
quota is nondeterministic. `NoOrphan` is the promise of
`src/docs/user-token-management.md:11`.

### DatasetCheck

A child does one request after another: `Reserve` takes a turn of the account,
`Clear` looks at the cooldown again when the turn comes, `Send` sends, and the
answer is one of `Archive`, `List`, `File`, `Relist` or a failure; `Final` is the
last digest and `mark_complete`. What the relay makes of a child's end is
`Outcomes`, by error class and by whether the check is a background one: a candidate
whose content is wrong is `"rejected"`, one that the relay gives up for another reason
`"blocked"`, one whose next check is scheduled `"parked"`, one for which the 24 hours
are over `"exhausted"`. `proc` is what a child keeps in memory, `basis`, `verified` and `complete` its row in
`dataset-verification.sqlite3`, `nextIn` and `coolIn` the account's row.

Abstractions:

* times are distances from now and shrink with `Tick`; a request that was
  cleared goes out before the next tick;
* what a version holds is the set of files in which it differs from the upload
  (`differ`); a digest computed from a changed directory may match anything;
* the authentication requests belong to the archive request, the pages of a
  listing to the listing;
* the publication, transfer and retry budgets and the batch's 120 s may run out at
  any time (`Kill`, `TimeUp`, `Outcomes`);
* the 24-hour window may be over whenever a check is to be scheduled (`Deferred`) or
  is due (`WindowEnds`); then only a client starts another (`RestartRecheck`);
* a recheck that is due is blocked when the account or the upload intent is gone
  (`Revoked`);
* a directory that is touched stays changed: a change that is undone before the last
  digest is not modelled;
* an orphan is a child that nobody owns; it goes on until it ends or next writes
  to its pipe.

### JobContract

The client's view of a job: how it ended, whether its cancellation was accepted,
and what it did on Kaggle. `KeepsContract` maps `JobLifecycle` to it.

### AdmissionContract

A relay in which nothing overlaps: an edit turns the configuration into the next
valid one, a creation and a binding take a key that the owner may use at that
moment. There is one configuration instead of a file and a store, no request in
flight and no restart. `TakesEffectAtOnce` maps `Admission` to it: an edit takes
effect when its file is moved into place, a creation when it is admitted, a
binding when its row is written. Of a job the contract sees whether it is
unfinished, its owner and key, and the accounts it was offered while it waits.

### UploadContract

The archives of a job without requests, locks, threads, files and reservations. A job
is received, assembled, submitted, ends or expires, is cleaned and deleted, and its
chunks are acknowledged one by one. The clock, open bodies, workers and what is on
Kaggle are inputs that may change at any time; what the relay does is allowed or
forbidden by their value at that moment. `KeepsUploads` maps `ChunkUpload` to it, where
a chunk is acknowledged when its row is written and the dataset is settled when the
assembly thread is past it. The dataset may be assembled from a chunk that was never
acknowledged: a crash between `tmp_path.replace` and `add_chunk` leaves the file. The
digest of the archive makes that harmless, and the contract says so (`DatasetRight`).

An assembly that finds an archive wrong ends the job (`Reject`), but an incomplete
upload is not failed for being incomplete (`src/README.md:264`), and want of space
leaves it receiving (`Release`, `src/README.md:118`). The relay does not always keep
this, and the contract names the two cases as exceptions, apart from its other steps:

* `Forgets`: `complete_job` relied on the dataset cache, the assembly thread does not
  find it there, and fails the job for chunks that nobody was asked to send. The run
  `incomplete_upload` shows it.
* `GivesUp`: recovery repeats an interrupted assembly and fails the job on any
  exception, want of space included (`src/app/main.py:1268`).

So what `KeepsUploads` and its theorem establish is the documented contract outside
these two cases.

### DatasetLock and RefMutex

Registering and unregistering happen under the guard and are atomic; acquiring
and releasing are not under it. An entry that nothing refers to may be made
again, so identity of entries (`is entry` in the code) is modelled. The
refinement mapping takes as owners of a `dataset_ref` the threads that hold
*any* lock for it.

## 3. Runs

All bounds are the sets and numbers in the `.cfg` files. Counters with a cap are
`crashes` of `ChunkUpload` (`MaxCrashes`) and `version` of `Admission`
(`MaxStores`, the stores made after the first); `uploads` and `pushes` are bounded
by the properties themselves, the times of `DatasetCheck` by `MaxDelay` and
`Cooldowns`.

| Run | Instance | Checks |
|---|---|---|
| `lifecycle` | one job, any number of crashes, no manual recheck, fairness | `TypeOK`, `SingleUpload`, `SinglePush`, `NoSecondUploader`, `NoStrandedJob`, `KeepsContract`, `QueuedIsTaken`, `CancelEndsSubmission`, `ThreadEnds` |
| `two` | two jobs on one dataset, earlier runs under their `kernel_ref`s, manual rechecks, no crash | `TrainsOnPublishedData`, `CompleteMeansOwnRun` |
| `chunks` | one job, two tokens (one with access to all jobs), two concurrent bodies, one chunk per archive, two contents, one restart, fairness | `SlotsExact`, `AssemblyInputs`, `ReservationsSettle`, `NoRemovalUnderUse`, `AcceptedIsFixed`, `DeadlineFinal`, `LeaseHonoured`, `KeepsUploads`, `OverdueIsCleaned` |
| `slots` | two fixed and two dynamic jobs, two accounts with one slot, two workers, restarts, fairness | `SlotsExact`, `NoLostWakeup`, `SubmissionLimit`, `DynamicLimit`, `OnePlace`, `BoundJobRuns` |
| `lock` | three threads, two `dataset_ref`s, three entries, fairness | `TableExact`, `ImplementsMutex`, `LockProgress` |
| `admission` | two requests, two keys (one installed later), two usernames, three tokens (one for each key, one for all), one job, two edits, restarts | `NoOrphan`, `OwnerReaches`, `StoreIsFile`, `EditsKept`, `KeyChoiceCurrent`, `TakesEffectAtOnce` |
| `check` | one candidate of two files, two children, versions that match or differ in one file, batches of one file, a wait of at most two turns, a cooldown of two turns, the end of the window, crashes, fairness | `AcceptedMatches`, `TurnsApart`, `EvidenceKept`, `CooldownHeld`, `GoodIsAccepted` |

Outside `JobLifecycle`, `TypeOK` is proved and not run.

Why these bounds are enough. Everything about a single job is per row: jobs
interact only through the dataset lock, the dataset cache and the worker count,
which `two` exercises; the crash cases are those of one job. Two bodies are enough
to race for one chunk, to fill the limit of two and to exceed the limit of one per
token; jobs share only the counters, the admission limit and the assembly slots,
and there the proofs speak of any number of jobs. Four jobs on two accounts fill
both accounts and leave one item waiting behind each. Three threads let one hold,
one wait and one arrive or leave. Two requests let an edit fall between any two
steps of a creation or of another edit; the choice of the least loaded key needs
more than one job and is left to the proofs. Two children of one candidate, one of
them an orphan, are at the same time two children of one account: they race for
turns, for the cooldown and for the evidence row. The code waits at most 5 s for turns
1.5 s apart; with `MaxDelay` twice `Interval` two children wait at once, one for the
next turn and one for the turn after it, which a limit of one turn would exclude, and
a turn too far away is still refused. Batches of one of two files make
a check span two children. The proofs below lift the safety properties to any
instance, crashes, manual rechecks and earlier runs included.

Deadlock is not an error except in `DatasetLock`, which never stops: elsewhere
jobs end, are deleted, accepted or given up, and clients owe no further request.

### Fairness

`lifecycle`: worker loops, threads, assemblies, the scheduler tick, recovery,
children and kernels go on (weak fairness). The code justifies it: loops run
until shutdown, every remote call of a thread has a deadline
(`command_timeout_seconds`, `transfer_timeout_seconds`, `wait_kernel`'s own
deadline), Kaggle limits the time of a run. Clients and crashes get no fairness.
The relay may crash any number of times but not for ever: the premise
`CrashesEnd` of the liveness properties.

`slots`: dispatch and the end of threads. `BoundJobRuns` holds once rechecks,
resumptions and restarts end (`RetriesEnd`; the recheck window is 24 hours): until
then a waiting item, requeued at the tail of the queue, can be overtaken by newer
ones.

`check`: children, orphans, the relay's next check and the scheduler go on (weak
fairness: loops, and `run_verification`'s deadlines). Time passes (strong fairness
of `Tick`, because a cleared request holds it up for a moment, again and again).
`GoodIsAccepted` assumes that failures, kills and crashes stop at some time
(`<>[][Calm]_vars`), which no code can promise. The window may end and clients may
cancel or start another window in the calm too, without fairness, so the property
allows a good version the ends that the code gives it: accepted; canceled; exhausted,
until a client asks for another window; blocked, which after the trouble nothing brings
about any more. Being rejected is allowed only after the directory was changed, and
being parked, waiting or in a check for ever is not.

`chunks`: bodies end (`upload_idle_seconds`, and the client's own end), the
assembly thread, downloads and removals end, the cleanup loop comes round every
minute. `asyncio.Lock` is first come, first served, so the loop gets the job
lock although requests take it again and again: strong fairness of `ScanJob`.
Files that cannot be removed at one time can be removed at another: strong
fairness of `RemoveFile` and `CleanDone`. That a download ends is an assumption
about clients.

`lock`: a thread takes a free lock, leaves its body, and unregisters. Progress
is stated for a `dataset_ref`, not for a thread: `threading.Lock` is not fair.

### Where code and documents disagree

Each of these runs checks one statement of the documentation, a test or a log
message, and TLC refutes it. `PROJECT.json` quotes the lines.

| Run | Statement | What happens |
|---|---|---|
| `cancel_parked` | `CancelSettles` | a cancel of a job parked for a dataset recheck leaves `cancel_requested` until the next restart |
| `resurrect` | `CancelNotResurrected` | `process_job`'s handler reads the row, a cancel arrives, the handler writes `waiting_dataset` |
| `lost_recheck` | `NoStrandedJob` | a manual recheck claims the job before its old thread has left; the item is dropped as a duplicate |
| `prior_run` | `CompleteMeansOwnRun` | after a crash in `pushing_kernel`, an earlier job's finished run under the same `kernel_ref` is taken for this job's |
| `incomplete_upload` | `IncompleteStaysResumable` | an upload is accepted without dataset chunks on the strength of the cache; another job replaces the entry before the assembly starts, and the job fails |

A run is kept for a disagreement that needs several actors or a restart between two
steps. Three more lie on one path of the code and can be read off the action named here:

* `DatasetUploadUnknown` does not survive the process boundary
  (`src/app/kaggle_adapter.py:467`), so that the recheck is blocked, although an unknown
  upload response is to be scheduled (`src/docs/dataset-verification-recovery.md:27`):
  `"upload_unknown"` in `JobLifecycle`.
* A shutdown blocks the candidate whose background check it interrupts
  (`src/app/kaggle_adapter.py:1091`), although a restart preserves the schedule
  (`src/docs/dataset-verification-recovery.md:42`): `Shutdown` in `DatasetCheck`.
* Recovery without space fails an assembly (`src/app/main.py:1268`), although want of
  space leaves the task receiving (`src/README.md:118`): `GivesUp` in `UploadContract`.

## 4. Proofs

`tlapm` checks every theorem for all values of the constants, under the named
assumptions of the modules (`ConstantsAssumption`, `UploadAssumption`,
`SlotsAssumption`, `LockAssumption`, `AdmissionAssumption`, `TimeAssumption`,
`FileAssumption`, `JobAssumption`: types of the constants, finite sets of jobs,
requests or threads where something is counted, a first configuration that
loads).

**`JobLifecycleProofs`.** `Invariance` shows `Inv` inductive; from it follow
`TypeCorrect`, `UploadsOnce`, `OneUploader`, `PushesOnce`, `EarlyCancelWins`,
`CanceledNeverComplete` and `TerminalIsFinal`. None of the properties is
inductive alone. `SingleUpload` needs `UploadInv`: before the intent is written
nothing was uploaded, and a child without an intent (an orphan of a crash)
belongs to a job that can no longer reach an upload. `SinglePush` needs
`PushInv`: a job whose push may have happened has a status from which no thread
or recovery step leads back to a push. The unconditional update that parks a
job (`Retain`) is the delicate step: `ParkInv` and `PushInv` show that no run
was started when it happens. `RecoveryAlone` says that recovery meets no thread
or handler. `LockIsExclusive` needs only `Enter`'s guard and types;
`TrainsOnPublished` adds `DataInv` (a thread past the verification holds
published data), and `CompletesOwnRun` assumes `PriorRun = {}` and adds
`RunInv`.

**`JobOwnerProofs`.** That somebody will act on every unfinished job is proved under
the hypothesis `ManualRecheck = FALSE`, the scheduler being the only one that claims
retained candidates. The hypothesis cannot go: with manual rechecks the run
`lost_recheck` refutes the property. `HasOwner` is too weak to be inductive, since it
counts an item that a worker will drop as stale. `Owned` counts an item only while
the row has a status that the item expects (`Wanted`), and `HandoverInv` says that a
thread which is about to leave, or to schedule a recheck, has left a marker that
somebody looks for, or its job has ended or was canceled. Each step then keeps the
owner of its own job or hands the job over (`OwnerInvariance`); a step of another job
takes nothing away, because a worker removes only the item it looks at. Recovery has
every unfinished job on its list after a crash. `NobodyStranded` follows.

**`JobContractProofs`.** `ContractIsKept` is the refinement: with `Inv`, every step
maps to a step of `JobContract` or to a stutter. It rests on the safety properties
above (a second version or run has no counterpart in the contract), on `DataInv`
(the run that starts trains on a published version), on `RunInv` (a job that
completes has a run, its own or an earlier one), and on two invariants of its own:
`LiveInv`, a thread about to push has a row that is not terminal, and `AskedInv`,
nothing leads to `canceled` that was not asked for.

**`ChunkUploadProofs`.** `Inv` joins the three invariants of the run to what
keeps them. `LockOwners` ties the status to the holder of the job lock: a job is
assembling exactly while `complete_job` holds its lock, and a job that is being
removed has no open body and no worker (`UseIsRespected`). `StageReserves` gives
the reservation at the last two stages of the assembly, without which a
submitted job might keep one (`ReservationsEnd`). `PartsMatch` says that the
file of a recorded chunk has the recorded content or is gone, through crashes
and interrupted removals; with it `complete_job`'s check carries to the assembly
thread (`AssemblyReadsAccepted`, by `Claims`: nothing else claims a job for
assembly, and `InputsStay`: meanwhile its rows and files stay). The counters
are exact because a body begins and ends exactly one slot of each
(`UploadSlotsExact`). `AcceptedStays` and `DeadlineHolds` go through the steps
that write chunk rows. `LeaseIsHonoured` follows the cleanup from its query to its
turn at the lock: only `ScanJob` ends an upload that is not late, and it looks at the
lease and the open bodies of that moment. `UploadsAreKept` is the refinement of
`UploadContract`, its two exceptions included. `Submit` is its delicate step: the digests were compared stages
earlier, and the contract wants them of the acknowledged chunks now. `StageArchives`
keeps the comparison through the stages after it (`Stages`, `InputsStay`), and
`AssemblyInputs` and `PartsMatch` carry it from the files to the rows. A restart maps
to one step of the contract for all jobs at once.

**`AccountSlotsProofs`.** `Inv` adds `Assigned` to the limits: items and
threads belong to bound jobs, whose account no longer changes. That is what
keeps the slot counters exact while the scheduler rebinds (`SlotsAreExact`),
and with the exact counters follow `WakeupsAreKept` and `SubmissionsLimited`.
`DynamicJobsLimited` rests on a dynamic job being bound only after it was
received, so that `Bind` is the only step that adds one to an account.
`OnePlaceHolds` needs where the items of each job are (`PlacedInvariance`): the queue
and the waiting lists repeat no job and share none (`QueueOK`, `WaitingOK`), an item's
job has no thread and the status that its action expects (`Pending`), and a bound job
that is to run has an item or a thread (`Owned`). A canceled job may still have an
item, which the next worker drops; that is why `Pending` allows `"ended"`. Sequences
are compared through the set of jobs they name and never counted, except in the last
step, which turns "once, in one of three places" into the sum of `OnePlace`.

**`DatasetLockProofs`.** `Inv` says that a registered thread's entry is the
table's entry for its `dataset_ref`, that two refs never share one, and that
the count is the number of its users. `TableIsExact` and the refinement
`IsMutex` follow: two holders of one `dataset_ref` would hold one lock.

**`AdmissionProofs`.** `Inv` adds to the properties that the lock admits one editor
(`OneEditor`), that what an editor is about to install extends the file it read and
keeps the owner of every active job (`EditExtends`), and that a request whose store
has the identity of the current one also has its content (`SnapshotExact`). The
first two give `NoOrphanHolds`, `StoreIsFileHolds` and `EditsAreKept`; with the
third, a key chosen before the lookups is still right at admission
(`KeyChoiceHolds`). `ActsAtOnce` is the refinement of `AdmissionContract`. It needs
`ContractInv`: what an editor is about to install is still one edit of the file as it
is (`EditCurrent`), because the locks are held from the reading of the file to its
replacement, no job is created meanwhile, and an ended job stays ended; and a dynamic job's
candidates are all the keys of its owner (`DynamicExact`), so that the accounts it was
offered are the ones the contract offers.

**`DatasetCheckProofs`.** `EvidenceInv` says what evidence is worth: computed from
the frozen directory it names only files that match; computed from a changed one it
proves nothing, but then the directory is still changed, because nobody changes it
back, and `Final` refuses. A child never believes more than its job's row says
(`Sound`), which survives its successor's writes because rows only grow
(`EvidenceIsKept`). `OnlyGoodAccepted` follows. `AccountInv` puts the account's
next turn an interval behind every turn that is waited for (`TurnsAreApart`) and
says that a child that was cleared in a cooldown was cleared before it began
(`CooldownIsHeld`). That a changed directory never regains the digest it had is an
assumption of the model (`Touch`), stated in its terms: if it did, the evidence
would be that of the frozen content again.

Every strengthening was checked by TLC before it was proved: `Placed` on the instance of
`slots` (84,119 states), `OwnerInv` on one job with crashes and earlier runs (7,797) and
on two jobs without crashes (1,636,372), `EditCurrent` and `DynamicExact` on the instance
of `admission` (315,640), `StageArchives` on that of `chunks` (276,182).

Only model-checked: liveness (`QueuedIsTaken`, `CancelEndsSubmission`, `ThreadEnds`,
`BoundJobRuns`, `LockProgress`, `OverdueIsCleaned`, `GoodIsAccepted`), which is out
of the prover's reach. Every invariant and every action property of a passing run is
a theorem.

## 5. Not modelled, and the plan

Left out for good: predicates over archive contents, artifact formats,
presentation, configuration parsing and the acceptance sandboxes. They keep no
state; where one may reject a job, the model lets it.

Not modelled because no job depends on their state: web sessions and the limiter of
failed logins, startup progress. The quota cache and the classification of stop
reasons appear as nondeterministic answers.

What could come next:

1. `StorageBudget`: sizes in place of the nondeterministic space checks: what is
   reserved and written never exceeds what admission promised, and the smaller
   reservation that a cache hit leaves behind (`src/app/capacity.py:34`).
2. `DatasetVersions`: the expected version number against an orphaned child of
   another job on the same `dataset_ref`; callbacks by `kernel_ref` need the same
   step to several jobs (`src/app/main.py:2277`).
3. The sharing of a quota lookup in `quota_cache.py`, and its effect on the choice
   of an account.
