--------------------------- MODULE JobOwnerProofs ---------------------------
(***************************************************************************)
(* No job is stranded, for any set of jobs, while clients leave retained   *)
(* candidates to the recheck scheduler: whoever leaves a job hands it over *)
(* to a thread, an item the worker loop will take, startup recovery, or a  *)
(* marker in its row.                                                      *)
(***************************************************************************)
EXTENDS JobContractProofs

-----------------------------------------------------------------------------
(* The items of a job *)

(* Putting an item for job j adds its action to those of j.                *)
LEMMA PutActions ==
    ASSUME TypeOK, NEW j \in Jobs, NEW act \in Actions, Puts(j, act)
    PROVE  /\ QueuedFor(j)' = QueuedFor(j) \cup {act}
           /\ \A k \in Jobs \ {j} : QueuedFor(k)' = QueuedFor(k)
<1> DEFINE item == [job |-> j, action |-> act]
<1>1. queue \in Seq(Item) /\ item \in Item /\ item.job = j /\ item.action = act
  BY DEF TypeOK, Item
<1>2. \A i \in 1..Len(queue') : queue'[i] = item \/ \E n \in 1..Len(queue) : queue'[i] = queue[n]
  BY PutItem
<1>3. \E i \in 1..Len(queue') : queue'[i] = item
  <2>1. CASE queue' = Append(queue, item) \/ queue' = queue \o <<item>>
    <3>1. Len(queue) + 1 \in 1..Len(queue') /\ queue'[Len(queue) + 1] = item
      BY <1>1, <2>1
    <3> QED
      BY <3>1
  <2>2. CASE queue' = <<item>> \o queue
    <3>1. 1 \in 1..Len(queue') /\ queue'[1] = item
      BY <1>1, <2>2
    <3> QED
      BY <3>1
  <2> QED
    BY <2>1, <2>2 DEF Puts
<1>4. \A n \in 1..Len(queue) : \E i \in 1..Len(queue') : queue'[i] = queue[n]
  <2> SUFFICES ASSUME NEW n \in 1..Len(queue)
               PROVE  \E i \in 1..Len(queue') : queue'[i] = queue[n]
    OBVIOUS
  <2>1. CASE queue' = Append(queue, item) \/ queue' = queue \o <<item>>
    <3>1. n \in 1..Len(queue') /\ queue'[n] = queue[n]
      BY <1>1, <2>1
    <3> QED
      BY <3>1
  <2>2. CASE queue' = <<item>> \o queue
    <3>1. n + 1 \in 1..Len(queue') /\ queue'[n + 1] = queue[n]
      BY <1>1, <2>2
    <3> QED
      BY <3>1
  <2> QED
    BY <2>1, <2>2 DEF Puts
<1> HIDE DEF item
<1>5. ASSUME NEW k, NEW a \in QueuedFor(k)' PROVE a \in QueuedFor(k) \/ (k = j /\ a = act)
  BY <1>1, <1>2, <1>5 DEF QueuedFor
<1>6. ASSUME NEW k, NEW a \in QueuedFor(k) PROVE a \in QueuedFor(k)'
  BY <1>4, <1>6 DEF QueuedFor
<1>7. act \in QueuedFor(j)'
  BY <1>1, <1>3 DEF QueuedFor
<1>8. QueuedFor(j)' = QueuedFor(j) \cup {act}
  BY <1>5, <1>6, <1>7
<1>9. ASSUME NEW k \in Jobs \ {j} PROVE QueuedFor(k)' = QueuedFor(k)
  <2>1. k # j
    OBVIOUS
  <2>2. \A a : a \in QueuedFor(k)' <=> a \in QueuedFor(k)
    BY <1>5, <1>6, <2>1
  <2> QED
    BY <2>2
<1> QED
  BY <1>8, <1>9

(* The worker loop takes the first item only.                              *)
LEMMA TakeActions ==
    ASSUME TypeOK, queue # <<>>, queue' = Tail(queue), NEW k \in Jobs
    PROVE  \/ QueuedFor(k)' = QueuedFor(k)
           \/ k = Head(queue).job /\ QueuedFor(k) = QueuedFor(k)' \cup {Head(queue).action}
<1>1. /\ queue \in Seq(Item) /\ Head(queue) = queue[1] /\ 1 \in 1..Len(queue)
      /\ \A i \in 1..Len(queue') : i + 1 \in 1..Len(queue) /\ queue'[i] = queue[i + 1]
      /\ \A n \in 1..Len(queue) : n # 1 => n - 1 \in 1..Len(queue') /\ queue'[n - 1] = queue[n]
  BY DEF TypeOK
<1>2. ASSUME NEW a \in QueuedFor(k)' PROVE a \in QueuedFor(k)
  BY <1>1, <1>2 DEF QueuedFor
<1>3. ASSUME NEW a \in QueuedFor(k) 
      PROVE a \in QueuedFor(k)' \/ (k = Head(queue).job /\ a = Head(queue).action)
  <2>1. PICK n \in 1..Len(queue) : queue[n].job = k /\ a = queue[n].action
    BY <1>3 DEF QueuedFor
  <2>2. CASE n = 1
    BY <1>1, <2>1, <2>2
  <2>3. CASE n # 1
    <3>1. n - 1 \in 1..Len(queue') /\ queue'[n - 1] = queue[n]
      BY <1>1, <2>3
    <3> QED
      BY <2>1, <3>1 DEF QueuedFor
  <2> QED
    BY <2>2, <2>3
<1>4. k = Head(queue).job => Head(queue).action \in QueuedFor(k)
  BY <1>1 DEF QueuedFor
<1> QED
  BY <1>2, <1>3, <1>4

(* An item of j that was just put, or that is still good, is wanted.       *)
LEMMA WantedPut ==
    ASSUME TypeOK, NEW j \in Jobs, NEW act \in Actions, Puts(j, act),
           status'[j] \in ExpectedStatuses(act)
    PROVE  Wanted(j)'
BY PutActions DEF Wanted

(* An item stays wanted while the queue and what it expects stay.          *)
LEMMA WantedKept ==
    ASSUME TypeOK, NEW j, Wanted(j), UNCHANGED queue,
           \A act \in Actions : status[j] \in ExpectedStatuses(act)
                                   => status'[j] \in ExpectedStatuses(act)
    PROVE  Wanted(j)'
<1>1. QueuedFor(j)' = QueuedFor(j)
  BY DEF QueuedFor
<1>2. QueuedFor(j) \subseteq Actions
  <2>1. \A i \in 1..Len(queue) : queue[i] \in Item
    BY DEF TypeOK
  <2> QED
    BY <2>1 DEF QueuedFor, Item
<1> QED
  BY <1>1, <1>2 DEF Wanted

-----------------------------------------------------------------------------
(* The owner of the job that takes the step *)

(* What the lemmas about a step of job j assume.  A job that is released   *)
(* stays so: only the others need an owner.                                *)
Handed(j) == Owned(j) /\ HandoverInv(j)

(* Who needs no owner will not need one again.                             *)
LEMMA ReleasedStays ==
    ASSUME Inv, NEW j \in Jobs, JobStep(j), Released(j)
    PROVE  Released(j)'
BY TerminalStep, CancelStays DEF Released, IsTerminal

(* The end of an assembly leaves an item, a receiving job or a failed one. *)
LEMMA HandlerOwner ==
    ASSUME Inv, NEW j \in Jobs, Handed(j), Handler(j)
    PROVE  Handed(j)'
<1> USE Names DEF Inv, TypeOK, stage, rows, threads, files, durable, volatile, kaggle
<1>1. /\ status[j] = "assembling" /\ UNCHANGED <<cancel, recheck, pc>>
      /\ ~IsTerminal(j) /\ ~ParkedDataset(j) /\ ~ParkedKernel(j)
  BY DEF Handler, AssemblyDone, AssemblyUndone, IsTerminal, Terminal, ParkedDataset, ParkedKernel
<1>2. HandoverInv(j)'
  BY <1>1 DEF Handed, HandoverInv, Released, At, IsTerminal
<1>3. CASE AssemblyDone(j)
  <2>1. status'[j] = "queued" /\ Puts(j, "process")
    BY <1>3 DEF AssemblyDone, UpdateRow, Enqueue, Puts
  <2>2. Wanted(j)'
    BY <2>1, WantedPut DEF ExpectedStatuses, Resumes
  <2> QED
    BY <1>2, <2>2 DEF Handed, Owned
<1>4. CASE AssemblyUndone(j)
  <2>1. status'[j] \in {"receiving", "failed"}
    BY <1>4 DEF AssemblyUndone, UpdateRow
  <2> QED
    BY <1>2, <2>1 DEF Handed, Owned, Released, IsTerminal, Terminal
<1> QED
  BY <1>3, <1>4 DEF Handler

(* A client only moves a job that was waiting for it: a canceled job is    *)
(* released, a callback of the run leaves the run's owner in place.        *)
LEMMA ClientOwner ==
    ASSUME Inv, AskedInv, ManualRecheck = FALSE, NEW j \in Jobs, Handed(j), Client(j)
    PROVE  Handed(j)'
<1> USE Names DEF Inv, TypeOK, stage, rows, threads, files, durable, volatile, kaggle
<1>1. CASE StartAssembly(j) \/ ExpireUpload(j)
  <2>1. /\ status[j] = "receiving" /\ UNCHANGED <<cancel, recheck, pc>>
        /\ ~IsTerminal(j) /\ ~ParkedDataset(j) /\ ~ParkedKernel(j)
    BY <1>1 DEF StartAssembly, ExpireUpload, IsTerminal, Terminal, ParkedDataset, ParkedKernel
  <2>2. j \in handler' \/ status'[j] = "failed"
    BY <1>1 DEF StartAssembly, ExpireUpload, UpdateRow
  <2> QED
    BY <2>1, <2>2 DEF Handed, HandoverInv, Owned, Released, At, IsTerminal, Terminal
<1>2. CASE Cancel(j)
  <2>1. cancel'[j] /\ UNCHANGED pc
    BY <1>2 DEF Cancel
  <2>2. status[j] \in {"waiting_kernel", "cancel_requested"} => status'[j] = "cancel_requested"
    BY <1>2 DEF Cancel, UpdateRow
  <2>3. ~IsTerminal(j)
    BY <1>2 DEF Cancel, IsTerminal
  <2> QED
    BY <2>1, <2>2, <2>3 DEF Handed, HandoverInv, Owned, Released
<1>3. CASE Callback(j)
  <2>1. /\ UNCHANGED <<cancel, recheck, pc, queue, handler, toRecover>>
        /\ error'[j] = error[j] /\ pushes[j] > 0
        /\ status'[j] = IF IsTerminal(j) THEN status[j] ELSE KernelStatus(j, "waiting_kernel")
    BY <1>3 DEF Callback, UpdateRow
  <2>2. status[j] \notin BeforePush
    BY <2>1 DEF JobInv, PushInv
  <2>3. CASE IsTerminal(j)
    BY <2>1, <2>3 DEF Handed, HandoverInv, Owned, Released, IsTerminal, At, ParkedDataset
  <2>4. CASE ~IsTerminal(j)
    <3>1. /\ status[j] \in ExpectedStatuses("resume_kernel") 
          /\ status'[j] \in {"waiting_kernel", "cancel_requested"}
      BY <2>1, <2>2, <2>4, Values DEF KernelStatus, ExpectedStatuses, Resumes, BeforePush, Status,
            Running, IsTerminal
    <3>2. Wanted(j) => Wanted(j)'
      BY <2>1, <3>1, WantedKept DEF ExpectedStatuses, Resumes, Actions
    <3>3. ~ParkedDataset(j) /\ status[j] # "receiving" /\ (ParkedKernel(j) => ParkedKernel(j)')
      BY <2>1, <3>1 DEF ParkedDataset, ParkedKernel, ExpectedStatuses, Resumes
    <3> QED
      BY <2>1, <2>4, <3>1, <3>2, <3>3 DEF Handed, HandoverInv, Owned, Released, Active, At
  <2> QED
    BY <2>3, <2>4
<1>4. CASE ResumeKernel(j)
  <2>1. /\ ~Active(j) /\ error[j] = "kernel_unknown" /\ status'[j] = status[j]
        /\ status[j] \in {"waiting_kernel", "cancel_requested"}
        /\ UNCHANGED <<cancel, recheck, pc>>
    BY <1>4 DEF ResumeKernel, UpdateRow
  <2>2. PICK act \in Resumes : Puts(j, act)
    BY <1>4 DEF ResumeKernel, Enqueue, Puts, Resumes
  <2>3. Wanted(j)'
    BY <2>1, <2>2, WantedPut DEF ExpectedStatuses, Resumes
  <2>4. ~ParkedDataset(j)
    BY <2>1 DEF ParkedDataset
  <2> QED
    BY <2>1, <2>3, <2>4 DEF Handed, HandoverInv, Owned, Released, Active, At, IsTerminal
<1>5. CASE RequestRecheck(j)
  BY <1>5 DEF RequestRecheck
<1> QED
  BY <1>1, <1>2, <1>3, <1>4, <1>5 DEF Client

(* The recheck scheduler claims a parked job with an item for it.          *)
LEMMA TickOwner ==
    ASSUME Inv, NEW j \in Jobs, Handed(j), Tick(j)
    PROVE  Handed(j)'
<1> USE Names DEF Inv, TypeOK, stage, rows, threads, files, durable, volatile, kaggle
<1>1. ~Active(j) /\ ParkedDataset(j) /\ UNCHANGED <<cancel, pc>>
  BY DEF Tick, RecheckDue, RecheckSettled, Retainable, MayTransition, ParkedDataset, ClaimRecheck
<1>2. CASE RecheckDue(j)
  <2>1. /\ status'[j] = "queued" /\ recheck'[j] = "checking" /\ Puts(j, "recheck_dataset")
    BY <1>2 DEF RecheckDue, ClaimRecheck, UpdateRow, Enqueue, Puts
  <2>2. Wanted(j)'
    BY <2>1, WantedPut DEF ExpectedStatuses, Resumes
  <2> QED
    BY <1>1, <2>1, <2>2 DEF Handed, HandoverInv, Owned, Active, At
<1>3. CASE RecheckSettled(j)
  BY <1>1, <1>3 DEF RecheckSettled, Handed, HandoverInv, Owned, Active, At, ParkedDataset
<1> QED
  BY <1>2, <1>3 DEF Tick

(* A thread before the submission is an owner, and the job is not parked.  *)
LEMMA ThreadKeepsRecheck ==
    ASSUME Inv, NEW j \in Jobs, Handed(j), JobStep(j),
           pc[j] \notin {"idle", "schedule", "done"}, recheck'[j] \in {recheck[j], "none"},
           recheck'[j] \in {"scheduled", "exhausted", "blocked"}
    PROVE  Released(j)'
<1>1. ~ParkedDataset(j)
  BY DEF Inv, JobInv, ParkInv, ParkedDataset
<1>2. Released(j)
  BY <1>1 DEF Handed, HandoverInv
<1> QED
  BY <1>2, ReleasedStays

(* While a thread submits, it is the owner of its job.                     *)
LEMMA SubmitOwner ==
    ASSUME Inv, NEW j \in Jobs, Handed(j), Submit(j)
    PROVE  Handed(j)'
<1> USE DEF Inv, TypeOK, At, stage, rows, threads, files, durable, volatile, kaggle
<1>1. /\ pc[j] \notin {"idle", "schedule", "done"}
      /\ pc'[j] \notin {"idle", "schedule", "done", "waitKernel", "markUnknown"}
  BY DEF Submit, Enter, Goto, Raise, OnlyThread, EnterFails, ToUploading, Transition,
       ThreadAndRow, UploadAgain, SpawnChild, CollectChild, KillChild, ToWaiting, WaitDataset,
       WaitDatasetStops, Verified, ToPush, Push, PushFails, Pushed
<1>2. recheck'[j] \in {recheck[j], "none"}
  BY DEF Submit, Enter, OnlyThread, EnterFails, ToUploading,
       ThreadAndRow, UploadAgain, SpawnChild, CollectChild, KillChild, ToWaiting, WaitDataset,
       WaitDatasetStops, Verified, ToPush, Push, PushFails, Pushed
<1>3. recheck'[j] \in {"scheduled", "exhausted", "blocked"} => Released(j)'
  BY <1>1, <1>2, ThreadKeepsRecheck DEF JobStep, ThreadStep
<1> QED
  BY <1>1, <1>3 DEF Handed, HandoverInv, Owned, Active

(* finish_kernel_job ends a job, or leaves the marker of an unknown status *)
(* in the row of a submitted one.                                          *)
LEMMA MonitorOwner ==
    ASSUME Inv, NEW j \in Jobs, Handed(j), Monitor(j)
    PROVE  Handed(j)'
<1> USE DEF Inv, TypeOK, At, stage, rows, threads, files, durable, volatile, kaggle
<1>1. /\ pc[j] \notin {"idle", "schedule", "done"} /\ pc'[j] \notin {"idle", "schedule"}
      /\ UNCHANGED <<recheck, cancel>>
  BY DEF Monitor, Finish, PollProgress, WaitKernel, KernelUnavailable, MarkUnknown, Download,
         Package, FinishFails, Goto, Raise, ThreadAndRow, OnlyThread
<1>2. recheck'[j] \in {"scheduled", "exhausted", "blocked"} => Released(j)'
  BY <1>1, ThreadKeepsRecheck DEF JobStep, ThreadStep
<1>3. /\ pc'[j] = "done" => Released(j)' \/ ParkedKernel(j)'
      /\ pc'[j] \in {"waitKernel", "markUnknown"}
            => IsTerminal(j)' \/ status'[j] \in {"waiting_kernel", "cancel_requested"}
  <2>1. CASE Finish(j) \/ PollProgress(j)
    <3>1. /\ pc'[j] = "waitKernel"
          /\ IF IsTerminal(j) THEN status'[j] = status[j]
             ELSE status'[j] \in {"waiting_kernel", "cancel_requested"}
      BY <2>1 DEF Finish, PollProgress, EnterStatus, UpdateRow, KernelStatus, Goto
    <3> QED
      BY <3>1 DEF IsTerminal
  <2>2. CASE KernelUnavailable(j) \/ MarkUnknown(j)
    <3>1. /\ status'[j] = status[j]
          /\ error'[j] = IF IsTerminal(j) THEN error[j] ELSE "kernel_unknown"
          /\ pc[j] \in {"waitKernel", "markUnknown"}
      BY <2>2 DEF KernelUnavailable, MarkUnknown, UpdateRow
    <3>2. IsTerminal(j) \/ status[j] \in {"waiting_kernel", "cancel_requested"}
      BY <3>1 DEF Handed, HandoverInv
    <3> QED
      BY <3>1, <3>2 DEF Released, ParkedKernel, IsTerminal
  <2>3. CASE Package(j)
    <3>1. pc'[j] = "done" /\ IsTerminal(j)'
      BY <2>3 DEF Package, Finalize, UpdateRow, Goto, IsTerminal, Terminal
    <3> QED
      BY <3>1 DEF Released
  <2>4. CASE WaitKernel(j) \/ Download(j) \/ FinishFails(j)
    BY <2>4 DEF WaitKernel, Download, FinishFails, Goto, Raise
  <2> QED
    BY <2>1, <2>2, <2>3, <2>4 DEF Monitor
<1> QED
  BY <1>1, <1>2, <1>3 DEF Handed, HandoverInv, Owned, Active

(* The exception handlers end a job or park it, and a thread that is done  *)
(* leaves it so.                                                           *)
LEMMA ExceptOwner ==
    ASSUME Inv, NEW j \in Jobs, Handed(j), Except(j)
    PROVE  Handed(j)'
<1> USE DEF Inv, TypeOK, At, stage, rows, threads, files, durable, volatile, kaggle
<1>0. JobStep(j)
  BY DEF JobStep, ThreadStep
<1>1. CASE HandleCanceled(j) \/ (HandleFailed(j) /\ ~KeepsCandidate(j))
  <2>1. pc'[j] = "done" /\ IsTerminal(j)'
    BY <1>1 DEF HandleCanceled, HandleFailed, Finalize, UpdateRow, Goto, IsTerminal, Terminal
  <2> QED
    BY <2>1 DEF Handed, HandoverInv, Owned, Released
<1>2. CASE HandleFailed(j) /\ KeepsCandidate(j)
  <2>1. /\ pc[j] = "failed" /\ pc'[j] = "retain" /\ UNCHANGED recheck
    BY <1>2 DEF HandleFailed, Goto, ThreadAndRow
  <2>2. recheck'[j] \in {"scheduled", "exhausted", "blocked"} => Released(j)'
    BY <1>0, <2>1, ThreadKeepsRecheck
  <2> QED
    BY <2>1, <2>2 DEF Handed, HandoverInv, Owned, Active
<1>3. CASE Retain(j)
  <2>1. /\ pc'[j] = "schedule" /\ status'[j] = "waiting_dataset" /\ error'[j] = "dataset_unknown"
    BY <1>3 DEF Retain, UpdateRow, Goto
  <2> QED
    BY <2>1 DEF Handed, HandoverInv, Owned, Active, ParkedDataset
<1>4. CASE Schedule(j)
  <2>1. pc[j] = "schedule" /\ pc'[j] = "done" /\ UNCHANGED <<status, error, cancel>>
    BY <1>4 DEF Schedule, Goto
  <2>2. Released(j) \/ ParkedDataset(j)
    BY <2>1 DEF Handed, HandoverInv
  <2> QED
    BY <2>1, <2>2 DEF Handed, HandoverInv, Owned, Active, Released, IsTerminal, ParkedDataset
<1>5. CASE ThreadDone(j)
  <2>1. pc[j] = "done" /\ pc'[j] = "idle" /\ UNCHANGED <<status, error, cancel, recheck>>
    BY <1>5 DEF ThreadDone
  <2>2. Released(j) \/ ParkedDataset(j) \/ ParkedKernel(j)
    BY <2>1 DEF Handed, HandoverInv
  <2> QED
    BY <2>1, <2>2 DEF Handed, HandoverInv, Owned, Released, IsTerminal, ParkedDataset, ParkedKernel
<1> QED
  BY <1>1, <1>2, <1>3, <1>4, <1>5 DEF Except

(* The SDK child and the kernel leave the relay alone.                     *)
LEMMA OutsideOwner ==
    ASSUME Inv, NEW j \in Jobs, Handed(j), Child(j) \/ KernelEnds(j)
    PROVE  Handed(j)'
<1>1. UNCHANGED <<status, error, cancel, recheck, pc, queue, handler, toRecover>>
  BY DEF Child, ChildCheck, ChildMutate, ChildRecord, OrphanExits, ChildFrame, KernelEnds,
         stage, rows, threads, durable, volatile
<1> QED
  BY <1>1 DEF Handed, HandoverInv, Owned, Released, IsTerminal, Active, At, ParkedDataset,
              ParkedKernel, Wanted, QueuedFor

(* Startup recovery ends a job, queues an item for it, or leaves it parked.*)
LEMMA RecoverOwner ==
    ASSUME Inv, NEW j \in Jobs, Handed(j), Recover(j)
    PROVE  Handed(j)'
<1> USE Names DEF Inv, TypeOK, stage, rows, threads, files, durable, volatile, kaggle
<1>1. /\ ~Active(j) /\ UNCHANGED <<cancel, recheck, pc>>
  BY DEF Recover, RecoverQueued, RecoverKernel, RecoverPushing, RecoverCanceled, RecoverDataset,
         RecoverAssembly, RecoverFrame, RecoveryAlone
<1>2. \/ IsTerminal(j)'
      \/ \E act \in Actions : Puts(j, act) /\ status'[j] \in ExpectedStatuses(act)
      \/ (cancel[j] \/ ParkedDataset(j)) /\ UNCHANGED <<status, error>>
  <2>1. CASE RecoverQueued(j)
    <3>1. status'[j] = "queued" /\ Puts(j, Recheck(j)) /\ Recheck(j) \notin Resumes
      BY <2>1 DEF RecoverQueued, RecoverAs, Puts, Recheck, Resumes
    <3> QED
      BY <3>1, Values DEF ExpectedStatuses
  <2>2. CASE RecoverKernel(j)
    BY <2>2 DEF RecoverKernel, RecoverAs, Puts, Resumes, ExpectedStatuses
  <2>3. CASE RecoverPushing(j)
    BY <2>3 DEF RecoverPushing, RecoverAs, Puts, Resumes, ExpectedStatuses, FailRecovered,
                UpdateRow, IsTerminal, Terminal
  <2>4. CASE RecoverCanceled(j)
    BY <2>4 DEF RecoverCanceled, RecoverAs, Puts, Resumes, ExpectedStatuses, FailRecovered,
                UpdateRow, IsTerminal, Terminal
  <2>5. CASE RecoverDataset(j)
    <3>1. CASE Parked(j) /\ UNCHANGED <<stage, queue>>
      <4>1. recheck[j] \in {"scheduled", "exhausted", "blocked"} \/ ParkedDataset(j)
        BY <3>1 DEF Parked, ParkedDataset, Rechecks
      <4>2. Released(j) \/ ParkedDataset(j)
        BY <4>1 DEF Handed, HandoverInv
      <4> QED
        BY <3>1, <4>2 DEF Released, IsTerminal
    <3>2. CASE FailRecovered(j)
      BY <3>2 DEF FailRecovered, UpdateRow, IsTerminal, Terminal
    <3>3. CASE cancel[j] /\ UNCHANGED <<stage, queue>>
      BY <3>3
    <3>4. CASE UpdateRow(j, "queued", progress[j], "none") /\ RecoverAs(j, Recheck(j))
      <4>1. status'[j] = "queued" /\ Puts(j, Recheck(j)) /\ Recheck(j) \notin Resumes
        BY <3>4 DEF UpdateRow, RecoverAs, Puts, Recheck, Resumes
      <4> QED
        BY <4>1, Values DEF ExpectedStatuses
    <3> QED
      BY <2>5, <3>1, <3>2, <3>3, <3>4 DEF RecoverDataset
  <2>6. CASE RecoverAssembly(j)
    BY <2>6 DEF RecoverAssembly, RecoverAs, Puts, Resumes, ExpectedStatuses, FailRecovered,
                UpdateRow, IsTerminal, Terminal
  <2> QED
    BY <2>1, <2>2, <2>3, <2>4, <2>5, <2>6 DEF Recover
<1>3. IsTerminal(j)' \/ Wanted(j)' \/ ((cancel[j] \/ ParkedDataset(j)) /\ UNCHANGED <<status, error>>)
  BY <1>2, WantedPut
<1>4. Owned(j)'
  BY <1>1, <1>3 DEF Owned, Released, ParkedDataset
<1>5. recheck[j] \in {"scheduled", "exhausted", "blocked"} => Released(j)' \/ ParkedDataset(j)'
  <2> SUFFICES ASSUME recheck[j] \in {"scheduled", "exhausted", "blocked"}, ~Released(j)
               PROVE  Released(j)' \/ ParkedDataset(j)'
    BY ReleasedStays DEF JobStep
  <2>1. ParkedDataset(j)
    BY DEF Handed, HandoverInv
  <2>2. RecoverDataset(j) /\ Parked(j)
    BY <2>1 DEF ParkedDataset, Parked, Recover, RecoverQueued, RecoverKernel, RecoverPushing,
                RecoverCanceled, RecoverAssembly
  <2>3. UNCHANGED <<status, error>>
    BY <2>2 DEF RecoverDataset
  <2> QED
    BY <2>1, <2>3 DEF ParkedDataset
<1>6. HandoverInv(j)'
  BY <1>1, <1>5 DEF HandoverInv, Active, At
<1> QED
  BY <1>4, <1>6 DEF Handed

-----------------------------------------------------------------------------
(* The owners of the other jobs *)

(* What the owner of a job depends on besides Others and the queue.        *)
LEMMA OwnerLocal ==
    ASSUME Inv, NEW j \in Jobs, JobStep(j), NEW k \in Jobs \ {j}
    PROVE  /\ recheck'[k] = recheck[k]
           /\ k \in handler' <=> k \in handler
           /\ k \in toRecover' <=> k \in toRecover
BY DEF JobStep, ThreadStep, Inv, TypeOK, Handler, Client, Tick, Submit, Monitor, Except,
     Child, Recover, AssemblyDone, AssemblyUndone, StartAssembly, ExpireUpload, Cancel,
     Callback, ResumeKernel, RequestRecheck, ClaimRecheck, RecheckDue, RecheckSettled, Enter,
     OnlyThread, EnterFails, ToUploading, ThreadAndRow, UploadAgain, SpawnChild, CollectChild,
     KillChild, ToWaiting, WaitDataset, WaitDatasetStops, Verified, ToPush, Push, PushFails,
     Pushed, Finish, PollProgress, WaitKernel, KernelUnavailable, MarkUnknown, Download,
     Package, FinishFails, HandleCanceled, HandleFailed, Retain, Schedule, ThreadDone,
     ChildCheck, ChildFrame, ChildMutate, ChildRecord, OrphanExits, RecoverQueued, RecoverFrame,
     RecoverKernel, RecoverPushing, RecoverCanceled, RecoverDataset, RecoverAssembly, KernelEnds,
     rows, durable, volatile

(* A step of one job leaves the owners of the others alone.                *)
LEMMA OwnerFrame ==
    ASSUME Inv, AskedInv, NEW j \in Jobs, JobStep(j), NEW k \in Jobs \ {j}, Handed(k)
    PROVE  Handed(k)'
<1>1. QueuedFor(k)' = QueuedFor(k)
  <2>1. CASE queue' = queue
    BY <2>1 DEF QueuedFor
  <2>2. ASSUME NEW act \in Actions, Puts(j, act) PROVE QueuedFor(k)' = QueuedFor(k)
    BY <2>2, PutActions DEF Inv
  <2> QED
    BY <2>1, <2>2, QueueJob
<1>2. /\ status'[k] = status[k] /\ error'[k] = error[k] /\ cancel'[k] = cancel[k]
      /\ pc'[k] = pc[k]
  BY Locality DEF Inv, Others
<1> QED
  BY <1>1, <1>2, OwnerLocal DEF Handed, HandoverInv, Owned, Released, IsTerminal, Active, At,
                                ParkedDataset, ParkedKernel, Wanted

(* The worker loop drops only items that nobody needs.                     *)
LEMMA DispatchOwner ==
    ASSUME Inv, Dispatch, NEW k \in Jobs, Handed(k)
    PROVE  Handed(k)'
<1> DEFINE h == Head(queue)
<1>1. queue # <<>> /\ queue' = Tail(queue)
  BY DEF Dispatch, DropItem, StartThread, WorkerFree
<1>2. UNCHANGED <<status, error, cancel, recheck, handler, toRecover>>
  BY DEF Dispatch, DropItem, StartThread, durable, rows, stage
<1>3. QueuedFor(k)' = QueuedFor(k) \/ (k = h.job /\ QueuedFor(k) = QueuedFor(k)' \cup {h.action})
  BY <1>1, TakeActions DEF Inv
<1> HIDE DEF h
<1>4. \/ pc'[k] = pc[k] /\ (Wanted(k) => Wanted(k)' \/ Active(k))
      \/ pc'[k] \in {"enter", "finish"} /\ ~Active(k)
  <2>1. CASE DropItem
    <3>1. pc' = pc
      BY <2>1 DEF DropItem, threads
    <3>2. status[h.job] \notin ExpectedStatuses(h.action) \/ Active(h.job)
      BY <2>1 DEF DropItem, h
    <3> QED
      BY <1>2, <1>3, <3>1, <3>2 DEF Wanted
  <2>2. CASE StartThread
    <3>1. /\ pc' = [pc EXCEPT ![h.job] = IF h.action \in Resumes THEN "finish" ELSE "enter"]
          /\ ~Active(h.job) /\ pc \in [Jobs -> Pcs]
      BY <2>2 DEF StartThread, h, Inv, TypeOK
    <3>2. CASE k = h.job
      BY <3>1, <3>2
    <3>3. CASE k # h.job
      BY <1>2, <1>3, <3>1, <3>3 DEF Wanted
    <3> QED
      BY <3>2, <3>3
  <2> QED
    BY <2>1, <2>2 DEF Dispatch
<1> QED
  BY <1>2, <1>4 DEF Handed, HandoverInv, Owned, Released, IsTerminal, Active, At,
                    ParkedDataset, ParkedKernel

(* After a crash, startup recovery looks at every job that was running.    *)
LEMMA CrashOwner ==
    ASSUME Inv, Crash, NEW k \in Jobs, Handed(k)
    PROVE  Handed(k)'
<1>1. /\ UNCHANGED <<status, error, cancel, recheck>> /\ pc'[k] = "idle"
      /\ k \in toRecover' <=> status[k] \in Running
  BY DEF Crash, durable, rows, stage
<1>2. status[k] \in Running \cup Terminal \cup {"receiving"}
  BY DEF Inv, TypeOK, Status
<1>3. Owned(k)'
  BY <1>1, <1>2 DEF Owned, Released, IsTerminal
<1>4. HandoverInv(k)'
  BY <1>1 DEF Handed, HandoverInv, At, Released, IsTerminal, ParkedDataset
<1> QED
  BY <1>3, <1>4 DEF Handed

-----------------------------------------------------------------------------
(* The theorems *)

(* Every step of the relay keeps an owner for every job.                   *)
LEMMA OwnerStep ==
    ASSUME Inv, AskedInv, ManualRecheck = FALSE, OwnerInv, [Next]_vars
    PROVE  OwnerInv'
<1> SUFFICES ASSUME NEW k \in Jobs PROVE Handed(k)'
  BY DEF OwnerInv, Handed
<1>1. Handed(k)
  BY DEF OwnerInv, Handed
<1>2. ASSUME NEW j \in Jobs, JobStep(j) PROVE Handed(k)'
  <2>1. CASE k = j
    BY <1>1, <1>2, <2>1, HandlerOwner, ClientOwner, TickOwner, SubmitOwner, MonitorOwner,
       ExceptOwner, OutsideOwner, RecoverOwner DEF JobStep, ThreadStep
  <2>2. CASE k # j
    BY <1>1, <1>2, <2>2, OwnerFrame
  <2> QED
    BY <2>1, <2>2
<1>3. CASE Dispatch \/ Crash
  BY <1>1, <1>3, DispatchOwner, CrashOwner
<1>4. CASE UNCHANGED vars
  BY <1>1, <1>4 DEF vars, durable, rows, stage, volatile, threads, Handed, HandoverInv, Owned,
        Released, IsTerminal, Active, At, ParkedDataset, ParkedKernel, Wanted, QueuedFor
<1> QED
  BY <1>2, <1>3, <1>4 DEF Next, JobStep

(* Whoever leaves a job has handed it over, whatever crashes: as long as   *)
(* only the scheduler claims retained candidates.                          *)
THEOREM OwnerInvariance == ManualRecheck = FALSE => (Spec => []OwnerInv)
<1> SUFFICES ASSUME ManualRecheck = FALSE PROVE Spec => []OwnerInv
  OBVIOUS
<1>1. Init => OwnerInv
  BY DEF Init, OwnerInv, Owned, HandoverInv, At
<1>2. Inv /\ AskedInv /\ OwnerInv /\ [Next]_vars => OwnerInv'
  BY OwnerStep
<1> QED
  BY <1>1, <1>2, Invariance, AskedInvariance, PTL DEF Spec

(* No job that nobody canceled is ever left without a thread, an item,     *)
(* recovery or a marker that somebody looks for.                           *)
THEOREM NobodyStranded == ManualRecheck = FALSE => (Spec => []NoStrandedJob)
<1> SUFFICES ASSUME ManualRecheck = FALSE PROVE Spec => []NoStrandedJob
  OBVIOUS
<1>1. OwnerInv => NoStrandedJob
  <2>1. ASSUME NEW j, Wanted(j) PROVE HasItem(j)
    BY <2>1 DEF Wanted, QueuedFor, HasItem
  <2> QED
    BY <2>1 DEF OwnerInv, Owned, Released, NoStrandedJob, HasOwner
<1> QED
  BY <1>1, OwnerInvariance, PTL

=============================================================================
