---------------------------- MODULE AccountSlots ----------------------------
(***************************************************************************)
(* Which job may run on which Kaggle account, and when: the worker loops   *)
(* with their per-account slots (worker_loop in app/main.py) and the       *)
(* dynamic scheduler that binds uploaded jobs to idle accounts             *)
(* (app/scheduler.py).  What a worker thread does with its job is the      *)
(* subject of JobLifecycle; here a thread submits, monitors and ends.      *)
(*                                                                         *)
(* The worker loops, the scheduler and the HTTP handlers are coroutines of *)
(* one event loop: what runs between two awaits is one action.             *)
(***************************************************************************)
EXTENDS Naturals, Sequences, FiniteSets

CONSTANTS
    Jobs,
    Accounts,      \* Kaggle usernames: key aliases of one username are one account
    Home,          \* the account of the key a job is created with
    Dynamic,       \* jobs created with scheduling_mode "dynamic"
    Eligible,      \* the eligible_accounts snapshot of a dynamic job
    Concurrency,   \* settings.account_concurrency
    WorkerCount,   \* settings.worker_count
    CanCrash       \* the relay may restart

ASSUME SlotsAssumption ==
    /\ IsFiniteSet(Jobs)
    /\ Home \in [Jobs -> Accounts]
    /\ Dynamic \subseteq Jobs
    /\ Eligible \in [Jobs -> SUBSET Accounts]
    /\ Concurrency \in Nat \ {0}
    /\ WorkerCount \in Nat \ {0}
    /\ CanCrash \in BOOLEAN

VARIABLES
    (* durable *)
    status,     \* jobs.status, by who may act on the job
    bound,      \* jobs whose assignment_state is "bound"
    account,    \* the account of jobs.kaggle_key_id
    (* volatile *)
    queue,      \* app.state.queue
    waiting,    \* app.state.account_pending, in insertion order; no job waits twice
    active,     \* app.state.active_job_ids
    slots,      \* app.state.active_accounts
    resumed     \* active jobs that run a "resume_kernel" item

durable == <<status, bound, account>>
vars == <<durable, queue, waiting, active, slots, resumed>>

(* "submitting": uploading_dataset to pushing_kernel; "parked": a retained *)
(* candidate in waiting_dataset; "kernel": waiting_kernel or               *)
(* downloading_output; "unknown": the same with kernel_status_unknown.  A  *)
(* cancel leaves the jobs that a thread or an item will end where they are *)
(* and turns the others into cancel_requested jobs without an owner.       *)
Status == {"receiving", "queued", "submitting", "parked", "kernel", "unknown",
           "parkedCanceled", "unknownCanceled", "ended"}
Occupying == Status \ {"receiving", "ended"}
Item == [job : Jobs, resume : BOOLEAN]

TypeOK ==
    /\ status \in [Jobs -> Status]
    /\ bound \subseteq Jobs
    /\ account \in [Jobs -> Accounts]
    /\ queue \in Seq(Item)
    /\ waiting \in [Accounts -> Seq(Item)]
    /\ active \subseteq Jobs
    /\ slots \in [Accounts -> Nat]
    /\ resumed \subseteq active

Init ==
    /\ status = [j \in Jobs |-> "receiving"]
    /\ bound = Jobs \ Dynamic
    /\ account = Home
    /\ queue = <<>>
    /\ waiting = [a \in Accounts |-> <<>>]
    /\ active = {}
    /\ slots = [a \in Accounts |-> 0]
    /\ resumed = {}

-----------------------------------------------------------------------------

SetStatus(j, s) == status' = [status EXCEPT ![j] = s]
ItemOf(j, resume) == [job |-> j, resume |-> resume]
Put(j, resume) == queue' = Append(queue, ItemOf(j, resume))

(* awaiting_assignment *)
Awaiting(j) == j \notin bound

On(a) == {j \in Jobs : account[j] = a}

(* occupied_accounts: counted in the database, threads or not.             *)
Occupied(a) == {j \in On(a) : status[j] \in Occupying /\ ~Awaiting(j)}

-----------------------------------------------------------------------------
(* HTTP handlers *)

(* Mutant: an unassigned job is queued as well.                            *)
QueuesUnassigned(j) ==
    /\ status[j] = "receiving"
    /\ SetStatus(j, "queued")
    /\ Put(j, FALSE)
    /\ UNCHANGED <<bound, account, waiting, active, slots, resumed>>

(* complete_job has assembled the archives: a bound job is queued, a       *)
(* dynamic one is left to the scheduler.                                   *)
Submit(j) ==
    /\ status[j] = "receiving"
    /\ SetStatus(j, "queued")
    /\ IF Awaiting(j) THEN UNCHANGED queue ELSE Put(j, FALSE)
    /\ UNCHANGED <<bound, account, waiting, active, slots, resumed>>

(* request_job_cancel ends a job that no thread has taken at once; its     *)
(* item stays behind.                                                      *)
Cancel(j) ==
    /\ \/ status[j] \in {"receiving", "queued"} /\ SetStatus(j, "ended")
       \/ status[j] = "parked" /\ SetStatus(j, "parkedCanceled")
       \/ status[j] = "unknown" /\ SetStatus(j, "unknownCanceled")
    /\ UNCHANGED <<bound, account, queue, waiting, active, slots, resumed>>

(* complete_job resumes the monitoring of a submitted kernel.              *)
ResumeKernel(j) ==
    /\ status[j] = "unknown"
    /\ j \notin active
    /\ SetStatus(j, "kernel")
    /\ Put(j, TRUE)
    /\ UNCHANGED <<bound, account, waiting, active, slots, resumed>>

-----------------------------------------------------------------------------
(* The scheduler *)

(* schedule_dataset_rechecks claims a retained job.                        *)
Recheck(j) ==
    /\ status[j] = "parked"
    /\ j \notin active
    /\ SetStatus(j, "queued")
    /\ Put(j, FALSE)
    /\ UNCHANGED <<bound, account, waiting, active, slots, resumed>>

(* Mutant: the occupancy was counted before the quota lookups.             *)
IgnoresOccupancy(j) ==
    /\ Awaiting(j)
    /\ status[j] = "queued"
    /\ \E a \in Eligible[j] : account' = [account EXCEPT ![j] = a]
    /\ bound' = bound \cup {j}
    /\ Put(j, FALSE)
    /\ UNCHANGED <<status, waiting, active, slots, resumed>>

(* Mutant: the assignment state is not read again.                         *)
RebindsBound(j) ==
    /\ status[j] = "queued"
    /\ \E a \in Eligible[j] :
          /\ Cardinality(Occupied(a)) < Concurrency
          /\ account' = [account EXCEPT ![j] = a]
    /\ bound' = bound \cup {j}
    /\ Put(j, FALSE)
    /\ UNCHANGED <<status, waiting, active, slots, resumed>>

(* schedule_pending_jobs, one job: occupancy is counted again after the    *)
(* quota lookups were awaited; any account whose quota arrived may win.    *)
Bind(j) ==
    /\ Awaiting(j)
    /\ status[j] = "queued"
    /\ \E a \in Eligible[j] :
          /\ Cardinality(Occupied(a)) < Concurrency
          /\ account' = [account EXCEPT ![j] = a]
    /\ bound' = bound \cup {j}
    /\ Put(j, FALSE)
    /\ UNCHANGED <<status, waiting, active, slots, resumed>>

(* No originally allowed account remains authorized.                       *)
Unauthorized(j) ==
    /\ Awaiting(j)
    /\ status[j] = "queued"
    /\ SetStatus(j, "ended")
    /\ UNCHANGED <<bound, account, queue, waiting, active, slots, resumed>>

-----------------------------------------------------------------------------
(* worker_loop *)

HasWork == queue # <<>> /\ Cardinality(active) < WorkerCount

(* queue_item_expected_statuses, and active_job_ids                        *)
Stale(i) ==
    \/ i.resume /\ status[i.job] \in {"receiving", "queued", "parked", "ended"}
    \/ ~i.resume /\ status[i.job] # "queued"
    \/ i.job \in active

DropItem ==
    /\ HasWork
    /\ Stale(Head(queue))
    /\ queue' = Tail(queue)
    /\ UNCHANGED <<durable, waiting, active, slots, resumed>>

OneTooMany(a) == slots[a] > Concurrency      \* mutant: off by one
Full(a) == slots[a] >= Concurrency
MustWait(i) == ~i.resume /\ Full(account[i.job])

(* The account has no free slot: the item waits outside the queue, so that *)
(* the worker is free for other accounts.                                  *)
ParkItem ==
    /\ HasWork
    /\ ~Stale(Head(queue))
    /\ MustWait(Head(queue))
    /\ waiting' = [waiting EXCEPT ![account[Head(queue).job]] = Append(@, Head(queue))]
    /\ queue' = Tail(queue)
    /\ UNCHANGED <<durable, active, slots, resumed>>

(* run_worker_item on a free slot; a recovered run has one anyway.         *)
StartItem ==
    /\ HasWork
    /\ ~Stale(Head(queue))
    /\ ~MustWait(Head(queue))
    /\ LET j == Head(queue).job IN
          /\ active' = active \cup {j}
          /\ slots' = [slots EXCEPT ![account[j]] = @ + 1]
          /\ resumed' = IF Head(queue).resume THEN resumed \cup {j} ELSE resumed
    /\ queue' = Tail(queue)
    /\ UNCHANGED <<durable, waiting>>

(* The thread's own progress through process_job                           *)
ThreadStep(j) ==
    /\ j \in active
    /\ \/ status[j] = "queued" /\ SetStatus(j, "submitting")
       \/ status[j] = "submitting" /\ SetStatus(j, "kernel")
    /\ UNCHANGED <<bound, account, queue, waiting, active, slots, resumed>>

(* Mutant: the finally clause does not requeue the waiting items.          *)
ForgetsWaiting(j) ==
    /\ active' = active \ {j}
    /\ resumed' = resumed \ {j}
    /\ slots' = [slots EXCEPT ![account[j]] = @ - 1]
    /\ UNCHANGED <<queue, waiting>>

(* The finally clause of worker_loop                                       *)
ReleaseSlot(j) ==
    /\ active' = active \ {j}
    /\ resumed' = resumed \ {j}
    /\ slots' = [slots EXCEPT ![account[j]] = @ - 1]
    /\ queue' = queue \o waiting[account[j]]
    /\ waiting' = [waiting EXCEPT ![account[j]] = <<>>]

(* The thread ends: the job is terminal, or retained with its candidate,   *)
(* or its submitted kernel's status is unknown.                            *)
ThreadEnds(j) ==
    /\ j \in active
    /\ \/ SetStatus(j, "ended")
       \/ status[j] = "submitting" /\ SetStatus(j, "parked")
       \/ status[j] = "kernel" /\ SetStatus(j, "unknown")
    /\ ReleaseSlot(j)
    /\ UNCHANGED <<bound, account>>

-----------------------------------------------------------------------------
(* Restart: recover_incomplete_jobs.  A dataset upload with a retained     *)
(* candidate is queued again, a push that reached Kaggle resumed, any      *)
(* other submission fails; a canceled job ends or is resumed.              *)

Submitting == {j \in Jobs : status[j] = "submitting"}

RecoveredStatus(s) ==
    CASE s \in {"unknown", "unknownCanceled"} -> "kernel"
      [] s = "parkedCanceled" -> "ended"
      [] OTHER -> s

Orders(S) == {f \in [1..Cardinality(S) -> S] : \A x, y \in DOMAIN f : f[x] = f[y] => x = y}

(* One item per recovered job, the ones that resume a kernel first.        *)
Recovered(s, resume) ==
    {[i \in DOMAIN f |-> ItemOf(f[i], resume)] : f \in Orders({j \in bound : status'[j] = s})}

Restart ==
    /\ CanCrash
    /\ \E to \in [Submitting -> {"queued", "kernel", "ended"}] :
          status' = [j \in Jobs |-> IF j \in Submitting THEN to[j] ELSE RecoveredStatus(status[j])]
    /\ \E first \in Recovered("kernel", TRUE), rest \in Recovered("queued", FALSE) :
          queue' = first \o rest
    /\ waiting' = [a \in Accounts |-> <<>>]
    /\ active' = {}
    /\ slots' = [a \in Accounts |-> 0]
    /\ resumed' = {}
    /\ UNCHANGED <<bound, account>>

-----------------------------------------------------------------------------

Handlers(j) == Submit(j) \/ Cancel(j) \/ ResumeKernel(j)
Scheduler(j) == Recheck(j) \/ Bind(j) \/ Unauthorized(j)
Thread(j) == ThreadStep(j) \/ ThreadEnds(j)
Dispatch == DropItem \/ ParkItem \/ StartItem

Next ==
    \/ \E j \in Jobs : Handlers(j) \/ Scheduler(j) \/ Thread(j)
    \/ Dispatch
    \/ Restart

Spec == Init /\ [][Next]_vars

(* Worker loops take items, threads progress and end (every remote call    *)
(* they make has a deadline).                                              *)
FairSpec ==
    /\ Spec
    /\ WF_vars(Dispatch)
    /\ \A j \in Jobs : WF_vars(ThreadEnds(j))

-----------------------------------------------------------------------------
(* Safety *)

(* active_accounts counts exactly the running threads of an account: no    *)
(* exit path of worker_loop leaks a slot or frees one twice, although the  *)
(* scheduler rebinds accounts meanwhile.                                   *)
SlotsExact == \A a \in Accounts : slots[a] = Cardinality(active \cap On(a))

(* An item waits for an account only while a thread of that account is     *)
(* running, whose end will requeue it: no wakeup is lost.                  *)
NoLostWakeup == \A a \in Accounts : waiting[a] # <<>> => slots[a] > 0

(* New submissions never exceed the account's slots; only recovered runs   *)
(* may.                                                                    *)
SubmissionLimit ==
    \A a \in Accounts : Cardinality((active \ resumed) \cap On(a)) <= Concurrency

(* The scheduler never gives an account more dynamic jobs than it has      *)
(* slots, the parked ones and those of unknown status included.            *)
DynamicLimit ==
    \A a \in Accounts : Cardinality(Occupied(a) \cap Dynamic) <= Concurrency

InQueue(j) == {i \in 1..Len(queue) : queue[i].job = j}
InWaiting(j) == {i \in 1..Len(waiting[account[j]]) : waiting[account[j]][i].job = j}

(* A bound job that is to run is known to exactly one place: a thread, the *)
(* queue, or the items waiting for its account.                            *)
OnePlace ==
    \A j \in bound : status[j] = "queued" =>
        Cardinality(InQueue(j)) + Cardinality(InWaiting(j)) + (IF j \in active THEN 1 ELSE 0) = 1

-----------------------------------------------------------------------------
(* The inductive invariant behind the limits                               *)

BoundItem == [job : bound, resume : BOOLEAN]

(* Only bound jobs have items and threads and are submitted; a dynamic job *)
(* is bound after it was received.                                         *)
Assigned ==
    /\ Jobs \ Dynamic \subseteq bound
    /\ active \subseteq bound
    /\ queue \in Seq(BoundItem)
    /\ waiting \in [Accounts -> Seq(BoundItem)]
    /\ \A j \in Dynamic \cap bound : status[j] # "receiving"
    /\ \A j \in Jobs \ bound : status[j] \in {"receiving", "queued", "ended"}

Inv == TypeOK /\ Assigned /\ SlotsExact /\ NoLostWakeup /\ SubmissionLimit /\ DynamicLimit

(* What OnePlace rests on besides Inv: where the items of a job are, in    *)
(* every status, and not only the number of them.                          *)
Items(s) == {s[i] : i \in 1..Len(s)}
JobsIn(s) == {i.job : i \in Items(s)}
NoRepeat(s) == \A x, y \in 1..Len(s) : s[x].job = s[y].job => x = y

(* An item's job has no thread, and the item is of use to it, or the job   *)
(* was canceled meanwhile.                                                 *)
Pending(i) ==
    /\ i.job \notin active
    /\ status[i.job] \in IF i.resume THEN {"kernel"} ELSE {"queued", "ended"}

QueueOK == NoRepeat(queue) /\ \A i \in Items(queue) : Pending(i)

WaitingOK ==
    \A a \in Accounts :
        /\ NoRepeat(waiting[a])
        /\ \A i \in Items(waiting[a]) : Pending(i) /\ ~i.resume /\ account[i.job] = a
        /\ JobsIn(queue) \cap JobsIn(waiting[a]) = {}

(* No job that is to run is forgotten, and no other one has a thread.      *)
Known(j) == j \in active \cup JobsIn(queue) \cup JobsIn(waiting[account[j]])
Owned ==
    /\ \A j \in bound : status[j] \in {"queued", "kernel"} => Known(j)
    /\ \A j \in Jobs : status[j] = "submitting" => j \in active
    /\ \A j \in active : status[j] \in {"queued", "submitting", "kernel", "ended"}

Placed == QueueOK /\ WaitingOK /\ Owned

-----------------------------------------------------------------------------
(* Liveness, under FairSpec *)

(* The recheck window of a candidate is finite, and so are the resumptions *)
(* that clients ask for; the relay is not restarted for ever.              *)
RetriesEnd == <>[][~Restart /\ \A j \in Jobs : ~Recheck(j) /\ ~ResumeKernel(j)]_vars

(* A queued job with an account is eventually started or canceled, however *)
(* many jobs compete for the account, once retries end: until then, items  *)
(* requeued by worker_loop line up behind newer ones and may be overtaken. *)
BoundJobRuns ==
    RetriesEnd => \A j \in Jobs : status[j] = "queued" /\ ~Awaiting(j)
                                  ~> status[j] # "queued" \/ j \in active
=============================================================================
