------------------------- MODULE JobLifecycleProofs -------------------------
(***************************************************************************)
(* Proofs about JobLifecycle, for any set of jobs, any assignment of       *)
(* datasets and any number of workers: the inductive invariant Inv, the    *)
(* safety properties it implies, and two action properties.                *)
(***************************************************************************)
EXTENDS JobLifecycle, SequenceTheorems, TLAPS

-----------------------------------------------------------------------------
(* Types *)

(* The parts of TypeOK that the helpers of the model write.                *)
RowOK == /\ status \in [Jobs -> Status]
         /\ progress \in [Jobs -> Nat]
         /\ error \in [Jobs -> Errors]
ThreadOK == /\ pc \in [Jobs -> Pcs]
            /\ action \in [Jobs -> Actions]
            /\ exc \in [Jobs -> Exceptions]

(* Every status, marker, place and action the model names is of its type.  *)
LEMMA Names ==
    /\ Running \cup Terminal \cup {"receiving", "assembling", "queued", "uploading_dataset",
        "waiting_dataset", "pushing_kernel", "waiting_kernel", "cancel_requested",
        "downloading_output", "complete", "failed", "canceled"} \subseteq Status
    /\ {"none", "dataset_unknown", "kernel_unknown", "other"} \subseteq Errors
    /\ {"idle", "enter", "done", "waitCached", "toUploading", "upload", "uploading", "toWaiting",
        "waitDataset", "verified", "toPush", "push", "pushed", "finish", "waitKernel", "download",
        "package", "markUnknown", "failed", "canceled", "retain", "schedule"} \subseteq Pcs
    /\ {"none", "transient", "integrity", "upload_unknown", "interrupted", "other"}
          \subseteq Exceptions
    /\ {"process", "recheck_dataset", "resume_kernel", "resume_canceled"} \subseteq Actions
BY DEF Status, Running, Terminal, Errors, Pcs, Locked, Finishing, Handling, Exceptions, Actions

(* A job's row holds values of their types.                                *)
LEMMA Values ==
    ASSUME TypeOK, NEW j \in Jobs
    PROVE  /\ status[j] \in Status
           /\ progress[j] \in Nat
           /\ Max2(progress[j], 0) \in Nat
           /\ Max2(progress[j], 60) \in Nat
           /\ error[j] \in Errors
           /\ Recheck(j) \in Actions
BY Names DEF TypeOK, Max2, Recheck

(* update_job writes a well-formed row when it is given one.               *)
LEMMA RowType ==
    ASSUME TypeOK, NEW j \in Jobs, NEW s \in Status, NEW p \in Nat, NEW e \in Errors,
           UpdateRow(j, s, p, e)
    PROVE  RowOK'
BY DEF TypeOK, RowOK, UpdateRow

(* A row that is left alone stays well-formed.                             *)
LEMMA StageType ==
    ASSUME TypeOK, UNCHANGED stage
    PROVE  RowOK'
BY DEF TypeOK, RowOK, stage

(* finalize_job leaves a well-formed row, whichever status it chooses.     *)
LEMMA FinalizeType ==
    ASSUME TypeOK, NEW j \in Jobs, NEW s \in Status, NEW p \in Nat, NEW e \in Errors,
           Finalize(j, s, p, e)
    PROVE  RowOK'
<1>1. CASE IsTerminal(j)
  BY <1>1, StageType DEF Finalize
<1>2. CASE ~IsTerminal(j)
  <2>1. (IF CancelRequested(j) THEN "canceled" ELSE s) \in Status
    BY Names
  <2> QED
    BY <1>2, <2>1, RowType DEF Finalize
<1> QED
  BY <1>1, <1>2

(* update_finish_status leaves a well-formed row.                          *)
LEMMA EnterStatusType ==
    ASSUME TypeOK, NEW j \in Jobs, NEW s \in Status, NEW e \in Errors, EnterStatus(j, s, e)
    PROVE  RowOK'
<1>1. CASE IsTerminal(j)
  BY <1>1, StageType DEF EnterStatus
<1>2. CASE ~IsTerminal(j)
  <2>1. KernelStatus(j, s) \in Status
    BY Names DEF KernelStatus
  <2> QED
    BY <1>2, <2>1, RowType, Values DEF EnterStatus
<1> QED
  BY <1>1, <1>2

(* A thread moves to a place of process_job.                               *)
LEMMA GotoType ==
    ASSUME TypeOK, NEW j \in Jobs, NEW n \in Pcs, Goto(j, n)
    PROVE  ThreadOK'
BY DEF TypeOK, ThreadOK, Goto

(* A thread that raises is in its exception handler.                       *)
LEMMA RaiseType ==
    ASSUME TypeOK, NEW j \in Jobs, NEW e \in Exceptions, Raise(j, e)
    PROVE  ThreadOK'
BY Names DEF TypeOK, ThreadOK, Raise

(* transition_before_submission keeps row and thread well-formed.          *)
LEMMA TransitionType ==
    ASSUME TypeOK, NEW j \in Jobs, NEW expected, NEW s \in Status, NEW p \in Nat, NEW n \in Pcs,
           Transition(j, expected, s, p, n)
    PROVE  RowOK' /\ ThreadOK'
<1>1. CASE MayTransition(j, expected)
  BY <1>1, RowType, GotoType, Values DEF Transition
<1>2. CASE ~MayTransition(j, expected)
  BY <1>2, StageType, GotoType, RaiseType, Names DEF Transition
<1> QED
  BY <1>1, <1>2

(* queue.put keeps the queue a sequence of items.                          *)
LEMMA EnqueueType ==
    ASSUME TypeOK, NEW j \in Jobs, NEW a \in Actions, Enqueue(j, a)
    PROVE  queue' \in Seq(Item)
BY DEF Enqueue, Item, TypeOK

(* So do the items startup recovery queues, at either end.                 *)
LEMMA RecoverType ==
    ASSUME TypeOK, NEW j \in Jobs, NEW a \in Actions, RecoverAs(j, a)
    PROVE  queue' \in Seq(Item)
<1>1. <<[job |-> j, action |-> a]>> \in Seq(Item)
  BY DEF Item
<1> QED
  BY <1>1 DEF RecoverAs, TypeOK

-----------------------------------------------------------------------------
(* Every step keeps the types *)

(* TypeOK is kept by the end of an assembly. *)
LEMMA HandlerType ==
    ASSUME TypeOK, NEW j \in Jobs, Handler(j)
    PROVE  TypeOK'
<1> USE DEF RowOK, ThreadOK, stage, rows, threads, files, durable, volatile, kaggle
<1>1. CASE AssemblyDone(j)
  <2>1. RowOK'
    BY <1>1, RowType, Names, Values DEF AssemblyDone
  <2>2. queue' \in Seq(Item)
    BY <1>1, EnqueueType, Names, Values DEF AssemblyDone, TypeOK
  <2> QED
    BY <1>1, <2>1, <2>2 DEF AssemblyDone, TypeOK
<1>2. CASE AssemblyUndone(j)
  <2>1. RowOK'
    BY <1>2, RowType, Names, Values DEF AssemblyUndone
  <2> QED
    BY <1>2, <2>1 DEF AssemblyUndone, TypeOK
<1> QED
  BY <1>1, <1>2 DEF Handler

(* TypeOK is kept by a request of a client. *)
LEMMA ClientType ==
    ASSUME TypeOK, NEW j \in Jobs, Client(j)
    PROVE  TypeOK'
<1> USE DEF RowOK, ThreadOK, stage, rows, threads, files, durable, volatile, kaggle
<1>1. CASE StartAssembly(j)
  <2>1. RowOK'
    BY <1>1, RowType, Names, Values DEF StartAssembly
  <2> QED
    BY <1>1, <2>1 DEF StartAssembly, TypeOK
<1>2. CASE ExpireUpload(j)
  <2>1. RowOK'
    BY <1>2, RowType, Names, Values DEF ExpireUpload
  <2> QED
    BY <1>2, <2>1 DEF ExpireUpload, TypeOK
<1>3. CASE Cancel(j)
  <2>1. RowOK'
    BY <1>3, RowType, Names, Values DEF Cancel
  <2> QED
    BY <1>3, <2>1 DEF Cancel, TypeOK
<1>4. CASE Callback(j)
  <2>1. PICK p \in {0, 60} :
           UpdateRow(j, IF IsTerminal(j) THEN status[j] ELSE KernelStatus(j, "waiting_kernel"),
                     Max2(progress[j], p), error[j])
    BY <1>4 DEF Callback
  <2>2. (IF IsTerminal(j) THEN status[j] ELSE KernelStatus(j, "waiting_kernel")) \in Status
    BY Names, Values DEF KernelStatus
  <2>3. Max2(progress[j], p) \in Nat
    BY Values
  <2>4. RowOK'
    BY <2>1, <2>2, <2>3, RowType, Values
  <2> QED
    BY <1>4, <2>4 DEF Callback, TypeOK
<1>5. CASE ResumeKernel(j)
  <2>1. RowOK'
    BY <1>5, RowType, Names, Values DEF ResumeKernel
  <2>2. queue' \in Seq(Item)
    BY <1>5, EnqueueType, Names, Values DEF ResumeKernel, TypeOK
  <2> QED
    BY <1>5, <2>1, <2>2 DEF ResumeKernel, TypeOK
<1>6. CASE RequestRecheck(j)
  <2>1. RowOK'
    BY <1>6, RowType, Names, Values DEF RequestRecheck, ClaimRecheck
  <2>2. queue' \in Seq(Item)
    BY <1>6, EnqueueType, Names, Values DEF RequestRecheck, ClaimRecheck, TypeOK
  <2> QED
    BY <1>6, <2>1, <2>2 DEF RequestRecheck, ClaimRecheck, TypeOK, Rechecks
<1> QED
  BY <1>1, <1>2, <1>3, <1>4, <1>5, <1>6 DEF Client

(* TypeOK is kept by the recheck scheduler. *)
LEMMA TickType ==
    ASSUME TypeOK, NEW j \in Jobs, Tick(j)
    PROVE  TypeOK'
<1> USE DEF RowOK, ThreadOK, stage, rows, threads, files, durable, volatile, kaggle
<1>1. CASE RecheckDue(j)
  <2>1. RowOK'
    BY <1>1, RowType, Names, Values DEF RecheckDue, ClaimRecheck
  <2>2. queue' \in Seq(Item)
    BY <1>1, EnqueueType, Names, Values DEF RecheckDue, ClaimRecheck, TypeOK
  <2> QED
    BY <1>1, <2>1, <2>2 DEF RecheckDue, ClaimRecheck, TypeOK, Rechecks
<1>2. CASE RecheckSettled(j)
  BY <1>2 DEF RecheckSettled, TypeOK, Rechecks
<1> QED
  BY <1>1, <1>2 DEF Tick

(* TypeOK is kept by process_job up to the kernel submission. *)
LEMMA SubmitType ==
    ASSUME TypeOK, NEW j \in Jobs, Submit(j)
    PROVE  TypeOK'
<1> USE DEF RowOK, ThreadOK, stage, rows, threads, files, durable, volatile, kaggle
<1>1. CASE Enter(j)
  <2>1. ThreadOK'
    BY <1>1, GotoType, RaiseType, Names DEF Enter
  <2> QED
    BY <1>1, <2>1 DEF Enter, OnlyThread, TypeOK
<1>2. CASE EnterFails(j)
  <2>1. ThreadOK'
    BY <1>2, RaiseType, Names DEF EnterFails
  <2> QED
    BY <1>2, <2>1 DEF EnterFails, OnlyThread, TypeOK
<1>3. CASE ToUploading(j)
  <2>1. RowOK'
    BY <1>3, TransitionType, Names, Values DEF ToUploading, ThreadAndRow
  <2>2. ThreadOK'
    BY <1>3, TransitionType, Names DEF ToUploading
  <2> QED
    BY <1>3, <2>1, <2>2 DEF ToUploading, ThreadAndRow, TypeOK
<1>4. CASE UploadAgain(j)
  <2>1. ThreadOK'
    BY <1>4, GotoType, RaiseType, Names DEF UploadAgain
  <2> QED
    BY <1>4, <2>1 DEF UploadAgain, OnlyThread, TypeOK
<1>5. CASE SpawnChild(j)
  <2>1. ThreadOK'
    BY <1>5, GotoType, Names DEF SpawnChild
  <2> QED
    BY <1>5, <2>1 DEF SpawnChild, TypeOK, Children
<1>6. CASE CollectChild(j)
  <2>1. ThreadOK'
    BY <1>6, GotoType, RaiseType, Names DEF CollectChild
  <2> QED
    BY <1>6, <2>1 DEF CollectChild, TypeOK, Children
<1>7. CASE KillChild(j)
  <2>1. ThreadOK'
    BY <1>7, RaiseType, Names DEF KillChild
  <2> QED
    BY <1>7, <2>1 DEF KillChild, TypeOK, Children
<1>8. CASE ToWaiting(j)
  <2>1. RowOK'
    BY <1>8, TransitionType, Names, Values DEF ToWaiting, ThreadAndRow
  <2>2. ThreadOK'
    BY <1>8, TransitionType, Names DEF ToWaiting
  <2> QED
    BY <1>8, <2>1, <2>2 DEF ToWaiting, ThreadAndRow, TypeOK
<1>9. CASE WaitDataset(j)
  <2>1. ThreadOK'
    BY <1>9, GotoType, Names DEF WaitDataset
  <2> QED
    BY <1>9, <2>1 DEF WaitDataset, OnlyThread, TypeOK
<1>10. CASE WaitDatasetStops(j)
  <2>1. ThreadOK'
    BY <1>10, GotoType, RaiseType, Names DEF WaitDatasetStops
  <2> QED
    BY <1>10, <2>1 DEF WaitDatasetStops, OnlyThread, TypeOK
<1>11. CASE Verified(j)
  <2>1. RowOK'
    BY <1>11, RowType, Names, Values DEF Verified
  <2>2. ThreadOK'
    BY <1>11, GotoType, RaiseType, Names DEF Verified
  <2>3. DatasetOf[j] \in Datasets
    BY ConstantsAssumption
  <2> QED
    BY <1>11, <2>1, <2>2, <2>3 DEF Verified, TypeOK, Rechecks
<1>12. CASE ToPush(j)
  <2>1. RowOK'
    BY <1>12, TransitionType, StageType, Names, Values DEF ToPush, ThreadAndRow
  <2>2. ThreadOK'
    BY <1>12, TransitionType, RaiseType, Names DEF ToPush
  <2> QED
    BY <1>12, <2>1, <2>2 DEF ToPush, ThreadAndRow, TypeOK
<1>13. CASE Push(j)
  <2>1. ThreadOK'
    BY <1>13, GotoType, RaiseType, Names DEF Push
  <2>2. kernel' \in [Jobs -> {"none", "running", "ok", "error"}]
    BY <1>13 DEF Push, TypeOK
  <2>3. pushes' \in [Jobs -> Nat]
    BY <1>13 DEF Push, TypeOK
  <2> QED
    BY <1>13, <2>1, <2>2, <2>3 DEF Push, TypeOK
<1>14. CASE PushFails(j)
  <2>1. ThreadOK'
    BY <1>14, RaiseType, Names DEF PushFails
  <2> QED
    BY <1>14, <2>1 DEF PushFails, OnlyThread, TypeOK
<1>15. CASE Pushed(j)
  <2>1. ThreadOK'
    BY <1>15, GotoType, Names DEF Pushed
  <2> QED
    BY <1>15, <2>1 DEF Pushed, TypeOK
<1> QED
  BY <1>1, <1>2, <1>3, <1>4, <1>5, <1>6, <1>7, <1>8, <1>9, <1>10, <1>11, <1>12, <1>13, <1>14,
       <1>15 DEF Submit

(* TypeOK is kept by finish_kernel_job. *)
LEMMA MonitorType ==
    ASSUME TypeOK, NEW j \in Jobs, Monitor(j)
    PROVE  TypeOK'
<1> USE DEF RowOK, ThreadOK, stage, rows, threads, files, durable, volatile, kaggle
<1>1. CASE Finish(j)
  <2>1. RowOK'
    BY <1>1, EnterStatusType, Names, Values DEF Finish, ThreadAndRow
  <2>2. ThreadOK'
    BY <1>1, GotoType, Names DEF Finish
  <2> QED
    BY <1>1, <2>1, <2>2 DEF Finish, ThreadAndRow, TypeOK
<1>2. CASE PollProgress(j)
  <2>1. RowOK'
    BY <1>2, EnterStatusType, Names, Values DEF PollProgress
  <2> QED
    BY <1>2, <2>1 DEF PollProgress, TypeOK
<1>3. CASE WaitKernel(j)
  <2>1. RowOK'
    BY <1>3, RowType, StageType, Names, Values DEF WaitKernel, ThreadAndRow
  <2>2. ThreadOK'
    BY <1>3, GotoType, RaiseType, Names DEF WaitKernel
  <2> QED
    BY <1>3, <2>1, <2>2 DEF WaitKernel, ThreadAndRow, TypeOK
<1>4. CASE KernelUnavailable(j)
  <2>1. RowOK'
    BY <1>4, RowType, Names, Values DEF KernelUnavailable, ThreadAndRow
  <2>2. ThreadOK'
    BY <1>4, GotoType, Names DEF KernelUnavailable
  <2> QED
    BY <1>4, <2>1, <2>2 DEF KernelUnavailable, ThreadAndRow, TypeOK
<1>5. CASE MarkUnknown(j)
  <2>1. RowOK'
    BY <1>5, RowType, Names, Values DEF MarkUnknown, ThreadAndRow
  <2>2. ThreadOK'
    BY <1>5, GotoType, Names DEF MarkUnknown
  <2> QED
    BY <1>5, <2>1, <2>2 DEF MarkUnknown, ThreadAndRow, TypeOK
<1>6. CASE Download(j)
  <2>1. RowOK'
    BY <1>6, EnterStatusType, Names, Values DEF Download, ThreadAndRow
  <2>2. ThreadOK'
    BY <1>6, GotoType, Names DEF Download
  <2> QED
    BY <1>6, <2>1, <2>2 DEF Download, ThreadAndRow, TypeOK
<1>7. CASE Package(j)
  <2>1. RowOK'
    BY <1>7, FinalizeType, Names, Values DEF Package, ThreadAndRow
  <2>2. ThreadOK'
    BY <1>7, GotoType, Names DEF Package
  <2> QED
    BY <1>7, <2>1, <2>2 DEF Package, ThreadAndRow, TypeOK
<1>8. CASE FinishFails(j)
  <2>1. ThreadOK'
    BY <1>8, RaiseType, Names DEF FinishFails
  <2> QED
    BY <1>8, <2>1 DEF FinishFails, OnlyThread, TypeOK
<1> QED
  BY <1>1, <1>2, <1>3, <1>4, <1>5, <1>6, <1>7, <1>8 DEF Monitor

(* TypeOK is kept by the exception handlers and the end of a thread. *)
LEMMA ExceptType ==
    ASSUME TypeOK, NEW j \in Jobs, Except(j)
    PROVE  TypeOK'
<1> USE DEF RowOK, ThreadOK, stage, rows, threads, files, durable, volatile, kaggle
<1>1. CASE HandleCanceled(j)
  <2>1. RowOK'
    BY <1>1, FinalizeType, Names, Values DEF HandleCanceled, ThreadAndRow
  <2>2. ThreadOK'
    BY <1>1, GotoType, Names DEF HandleCanceled
  <2> QED
    BY <1>1, <2>1, <2>2 DEF HandleCanceled, ThreadAndRow, TypeOK
<1>2. CASE HandleFailed(j)
  <2>1. RowOK'
    BY <1>2, FinalizeType, StageType, Names, Values DEF HandleFailed, ThreadAndRow
  <2>2. ThreadOK'
    BY <1>2, GotoType, Names DEF HandleFailed
  <2> QED
    BY <1>2, <2>1, <2>2 DEF HandleFailed, ThreadAndRow, TypeOK
<1>3. CASE Retain(j)
  <2>1. RowOK'
    BY <1>3, RowType, Names, Values DEF Retain, ThreadAndRow
  <2>2. ThreadOK'
    BY <1>3, GotoType, Names DEF Retain
  <2> QED
    BY <1>3, <2>1, <2>2 DEF Retain, ThreadAndRow, TypeOK
<1>4. CASE Schedule(j)
  <2>1. ThreadOK'
    BY <1>4, GotoType, Names DEF Schedule
  <2> QED
    BY <1>4, <2>1 DEF Schedule, TypeOK, Rechecks
<1>5. CASE ThreadDone(j)
  BY <1>5, Names DEF ThreadDone, TypeOK
<1> QED
  BY <1>1, <1>2, <1>3, <1>4, <1>5 DEF Except

(* TypeOK is kept by the SDK child process. *)
LEMMA ChildType ==
    ASSUME TypeOK, NEW j \in Jobs, Child(j)
    PROVE  TypeOK'
<1> USE DEF RowOK, ThreadOK, stage, rows, threads, files, durable, volatile, kaggle
<1>1. CASE ChildCheck(j)
  BY <1>1 DEF ChildCheck, ChildFrame, TypeOK, Children, Intents
<1>2. CASE ChildMutate(j)
  <2>1. child' \in [Jobs -> Children]
    BY <1>2 DEF ChildMutate, TypeOK, Children
  <2>2. intent' \in [Jobs -> Intents]
    BY <1>2 DEF ChildMutate, TypeOK, Intents
  <2>3. uploads' \in {uploads, [uploads EXCEPT ![j] = uploads[j] + 1]}
    BY <1>2 DEF ChildMutate
  <2>4. uploads' \in [Jobs -> Nat]
    BY <2>3 DEF TypeOK
  <2> QED
    BY <1>2, <2>1, <2>2, <2>4 DEF ChildMutate, ChildFrame, TypeOK
<1>3. CASE ChildRecord(j)
  BY <1>3 DEF ChildRecord, ChildFrame, TypeOK, Children, Intents
<1>4. CASE OrphanExits(j)
  BY <1>4 DEF OrphanExits, TypeOK, Children
<1> QED
  BY <1>1, <1>2, <1>3, <1>4 DEF Child

(* TypeOK is kept by startup recovery. *)
LEMMA RecoveryType ==
    ASSUME TypeOK, NEW j \in Jobs, Recover(j)
    PROVE  TypeOK'
<1> USE DEF RowOK, ThreadOK, stage, rows, threads, files, durable, volatile, kaggle
<1>1. CASE RecoverQueued(j)
  <2>1. queue' \in Seq(Item)
    BY <1>1, RecoverType, Names, Values DEF RecoverQueued, RecoverFrame, TypeOK
  <2> QED
    BY <1>1, <2>1 DEF RecoverQueued, RecoverFrame, TypeOK
<1>2. CASE RecoverKernel(j)
  <2>1. queue' \in Seq(Item)
    BY <1>2, RecoverType, Names, Values DEF RecoverKernel, RecoverFrame, TypeOK
  <2> QED
    BY <1>2, <2>1 DEF RecoverKernel, RecoverFrame, TypeOK
<1>3. CASE RecoverPushing(j)
  <2>1. RowOK'
    BY <1>3, RowType, StageType, Names, Values DEF RecoverPushing, RecoverFrame, FailRecovered
  <2>2. queue' \in Seq(Item)
    BY <1>3, RecoverType, Names, Values DEF RecoverPushing, RecoverFrame, FailRecovered, TypeOK
  <2> QED
    BY <1>3, <2>1, <2>2 DEF RecoverPushing, RecoverFrame, FailRecovered, TypeOK
<1>4. CASE RecoverCanceled(j)
  <2>1. RowOK'
    BY <1>4, RowType, StageType, Names, Values DEF RecoverCanceled, RecoverFrame, FailRecovered
  <2>2. queue' \in Seq(Item)
    BY <1>4, RecoverType, Names, Values DEF RecoverCanceled, RecoverFrame, FailRecovered, TypeOK
  <2> QED
    BY <1>4, <2>1, <2>2 DEF RecoverCanceled, RecoverFrame, FailRecovered, TypeOK
<1>5. CASE RecoverDataset(j)
  <2>1. RowOK'
    BY <1>5, RowType, StageType, Names, Values DEF RecoverDataset, RecoverFrame, FailRecovered
  <2>2. queue' \in Seq(Item)
    BY <1>5, RecoverType, Names, Values DEF RecoverDataset, RecoverFrame, FailRecovered, TypeOK
  <2> QED
    BY <1>5, <2>1, <2>2 DEF RecoverDataset, RecoverFrame, FailRecovered, TypeOK
<1>6. CASE RecoverAssembly(j)
  <2>1. RowOK'
    BY <1>6, RowType, Names, Values DEF RecoverAssembly, RecoverFrame, FailRecovered
  <2>2. queue' \in Seq(Item)
    BY <1>6, RecoverType, Names, Values DEF RecoverAssembly, RecoverFrame, FailRecovered, TypeOK
  <2> QED
    BY <1>6, <2>1, <2>2 DEF RecoverAssembly, RecoverFrame, FailRecovered, TypeOK
<1> QED
  BY <1>1, <1>2, <1>3, <1>4, <1>5, <1>6 DEF Recover

(* TypeOK is kept by the worker loop taking an item. *)
LEMMA DispatchType ==
    ASSUME TypeOK, Dispatch
    PROVE  TypeOK'
<1> DEFINE item == Head(queue)
<1>1. queue # <<>> /\ queue' = Tail(queue)
  BY DEF Dispatch, DropItem, StartThread, WorkerFree
<1>2. item \in Item /\ queue' \in Seq(Item)
  BY <1>1 DEF TypeOK
<1>3. item.job \in Jobs /\ item.action \in Actions
  BY <1>2 DEF Item
<1> HIDE DEF item
<1>4. CASE DropItem
  BY <1>2, <1>4 DEF DropItem, TypeOK, stage, rows, threads, files, durable, kaggle
<1>5. CASE StartThread
  <2>1. ThreadOK'
    BY <1>3, <1>5, Names DEF StartThread, ThreadOK, TypeOK, item
  <2> QED
    BY <1>2, <1>5, <2>1 DEF StartThread, ThreadOK, TypeOK, stage, rows, files, durable, kaggle
<1> QED
  BY <1>4, <1>5 DEF Dispatch

(* TypeOK is kept by a crash. *)
LEMMA CrashType ==
    ASSUME TypeOK, Crash
    PROVE  TypeOK'
<1>1. ThreadOK'
  BY Names DEF Crash, ThreadOK
<1>2. queue' \in Seq(Item)
  BY DEF Crash
<1>3. child' \in [Jobs -> Children]
  BY DEF Crash, TypeOK, Children
<1>4. handler' \subseteq Jobs /\ toRecover' \subseteq Jobs
  BY DEF Crash
<1> QED
  BY <1>1, <1>2, <1>3, <1>4 DEF Crash, ThreadOK, TypeOK, stage, rows, files, durable, kaggle

-----------------------------------------------------------------------------
(* A step of one job leaves the others alone *)

(* What the invariant of a job other than j reads is unchanged.            *)
Others(j) ==
    \A k \in Jobs \ {j} :
        /\ status'[k] = status[k] /\ error'[k] = error[k] /\ cancel'[k] = cancel[k]
        /\ pc'[k] = pc[k] /\ intent'[k] = intent[k] /\ child'[k] = child[k]
        /\ uploads'[k] = uploads[k] /\ pushes'[k] = pushes[k]
        /\ k \in early' <=> k \in early

(* The invariant of a job depends on nothing else.                         *)
LEMMA JobFrame ==
    ASSUME NEW j, NEW k \in Jobs \ {j}, Others(j), JobInv(k)
    PROVE  JobInv(k)'
BY DEF Others, JobInv, PushInv, UploadInv, ParkInv, CancelInv, At

(* A step of job j of any kind but a dispatch or a crash.                  *)
JobStep(j) == \/ Handler(j) \/ Client(j) \/ Tick(j) \/ ThreadStep(j)
              \/ Child(j) \/ KernelEnds(j) \/ Recover(j)

(* A step of job j changes only job j.                                     *)
LEMMA Locality ==
    ASSUME TypeOK, NEW j \in Jobs, JobStep(j)
    PROVE  Others(j)
<1> USE DEF TypeOK, Others, stage, rows, threads, files, durable, volatile, kaggle
<1>1. CASE Handler(j)
  BY <1>1 DEF Handler, AssemblyDone, UpdateRow, AssemblyUndone
<1>2. CASE Client(j)
  <2>1. CASE StartAssembly(j)
    BY <2>1 DEF StartAssembly, UpdateRow
  <2>2. CASE ExpireUpload(j)
    BY <2>2 DEF ExpireUpload, UpdateRow
  <2>3. CASE Cancel(j)
    BY <2>3 DEF Cancel, UpdateRow
  <2>4. CASE Callback(j)
    BY <2>4 DEF Callback, UpdateRow
  <2>5. CASE ResumeKernel(j)
    BY <2>5 DEF ResumeKernel, UpdateRow
  <2>6. CASE RequestRecheck(j)
    BY <2>6 DEF RequestRecheck, ClaimRecheck, UpdateRow
  <2> QED
    BY <1>2, <2>1, <2>2, <2>3, <2>4, <2>5, <2>6 DEF Client
<1>3. CASE Tick(j)
  BY <1>3 DEF Tick, RecheckDue, ClaimRecheck, UpdateRow, RecheckSettled
<1>4. CASE Submit(j)
  BY <1>4 DEF Submit, Enter, Goto, Raise, OnlyThread, EnterFails, ToUploading, Transition,
       ThreadAndRow, UpdateRow, UploadAgain, SpawnChild, CollectChild, KillChild, ToWaiting,
       WaitDataset, WaitDatasetStops, Verified, ToPush, Push, PushFails, Pushed
<1>5. CASE Monitor(j)
  <2>1. CASE Finish(j) \/ PollProgress(j) \/ Download(j)
    BY <2>1 DEF Finish, PollProgress, Download, EnterStatus, UpdateRow, Goto, ThreadAndRow
  <2>2. CASE WaitKernel(j)
    BY <2>2 DEF WaitKernel, UpdateRow, Goto, Raise, ThreadAndRow
  <2>3. CASE KernelUnavailable(j) \/ MarkUnknown(j)
    BY <2>3 DEF KernelUnavailable, MarkUnknown, UpdateRow, Goto, ThreadAndRow
  <2>4. CASE Package(j) \/ FinishFails(j)
    BY <2>4 DEF Package, FinishFails, Finalize, UpdateRow, Goto, Raise, ThreadAndRow, OnlyThread
  <2> QED
    BY <1>5, <2>1, <2>2, <2>3, <2>4 DEF Monitor
<1>6. CASE Except(j)
  BY <1>6 DEF Except, HandleCanceled, Finalize, Goto, ThreadAndRow, UpdateRow, HandleFailed,
       Retain, Schedule, ThreadDone
<1>7. CASE Child(j)
  BY <1>7 DEF Child, ChildCheck, ChildFrame, ChildMutate, ChildRecord, OrphanExits
<1>8. CASE Recover(j)
  BY <1>8 DEF Recover, RecoverQueued, RecoverFrame, RecoverKernel, RecoverPushing,
       FailRecovered, UpdateRow, RecoverCanceled, RecoverDataset, RecoverAssembly
<1>9. CASE KernelEnds(j)
  BY <1>9 DEF KernelEnds
<1> QED
  BY <1>1, <1>2, <1>3, <1>4, <1>5, <1>6, <1>7, <1>8, <1>9 DEF JobStep, ThreadStep

(* Handlers and threads run only once recovery is over.                    *)
LEMMA RecoveryStep ==
    ASSUME TypeOK, NEW j \in Jobs, RecoveryAlone, JobStep(j)
    PROVE  RecoveryAlone'
<1> USE DEF RecoveryAlone, Active, At, Serving, JobLockFree,
            TypeOK, stage, rows, threads, files, durable, volatile, kaggle
<1>1. CASE Handler(j)
  BY <1>1 DEF Handler, AssemblyDone, UpdateRow, AssemblyUndone
<1>2. CASE Client(j)
  BY <1>2 DEF Client, StartAssembly, UpdateRow, ExpireUpload, Cancel, Callback, ResumeKernel,
       RequestRecheck, ClaimRecheck
<1>3. CASE Tick(j)
  BY <1>3 DEF Tick, RecheckDue, Retainable, ClaimRecheck, UpdateRow, RecheckSettled
<1>4. CASE Submit(j)
  BY <1>4 DEF Submit, Enter, Goto, Raise, OnlyThread, EnterFails, ToUploading, Transition,
       ThreadAndRow, UpdateRow, UploadAgain, SpawnChild, CollectChild, KillChild, ToWaiting,
       WaitDataset, WaitDatasetStops, Verified, ToPush, Push, PushFails, Pushed
<1>5. CASE Monitor(j)
  <2>1. CASE Finish(j) \/ PollProgress(j) \/ Download(j)
    BY <2>1 DEF Finish, PollProgress, Download, EnterStatus, UpdateRow, Goto, ThreadAndRow
  <2>2. CASE WaitKernel(j)
    BY <2>2 DEF WaitKernel, UpdateRow, Goto, Raise, ThreadAndRow
  <2>3. CASE KernelUnavailable(j) \/ MarkUnknown(j)
    BY <2>3 DEF KernelUnavailable, MarkUnknown, UpdateRow, Goto, ThreadAndRow
  <2>4. CASE Package(j) \/ FinishFails(j)
    BY <2>4 DEF Package, FinishFails, Finalize, UpdateRow, Goto, Raise, ThreadAndRow, OnlyThread
  <2> QED
    BY <1>5, <2>1, <2>2, <2>3, <2>4 DEF Monitor
<1>6. CASE Except(j)
  BY <1>6 DEF Except, HandleCanceled, Finalize, Goto, ThreadAndRow, UpdateRow, HandleFailed,
       Retain, Schedule, ThreadDone
<1>7. CASE Child(j)
  BY <1>7 DEF Child, ChildCheck, ChildFrame, ChildMutate, ChildRecord, OrphanExits
<1>8. CASE Recover(j)
  BY <1>8 DEF Recover, RecoverQueued, RecoverFrame, RecoverKernel, RecoverPushing,
       FailRecovered, UpdateRow, RecoverCanceled, RecoverDataset, RecoverAssembly
<1>9. CASE KernelEnds(j)
  BY <1>9 DEF KernelEnds
<1> QED
  BY <1>1, <1>2, <1>3, <1>4, <1>5, <1>6, <1>7, <1>8, <1>9 DEF JobStep, ThreadStep

-----------------------------------------------------------------------------
(* The invariant of the job that takes the step *)

(* JobInv is kept by the end of an assembly. *)
LEMMA HandlerJob ==
    ASSUME TypeOK, RecoveryAlone, NEW j \in Jobs, JobInv(j), Handler(j)
    PROVE  JobInv(j)'
<1> USE DEF JobInv, PushInv, UploadInv, ParkInv, CancelInv, At, PrePush, Locked, BeforePush,
            Terminal, TypeOK, stage, rows, threads, files, durable, volatile, kaggle
<1>1. CASE AssemblyDone(j)
  BY <1>1 DEF AssemblyDone, UpdateRow
<1>2. CASE AssemblyUndone(j)
  BY <1>2 DEF AssemblyUndone, UpdateRow
<1> QED
  BY <1>1, <1>2 DEF Handler

(* JobInv is kept by a request of a client. *)
LEMMA ClientJob ==
    ASSUME TypeOK, RecoveryAlone, NEW j \in Jobs, JobInv(j), Client(j)
    PROVE  JobInv(j)'
<1> USE DEF JobInv, PushInv, UploadInv, ParkInv, CancelInv, At, PrePush, Locked, BeforePush,
            Terminal, TypeOK, stage, rows, threads, files, durable, volatile, kaggle
<1>1. CASE StartAssembly(j)
  BY <1>1 DEF StartAssembly, JobLockFree, UpdateRow, Serving
<1>2. CASE ExpireUpload(j)
  BY <1>2 DEF ExpireUpload, JobLockFree, UpdateRow, Serving
<1>3. CASE Cancel(j)
  BY <1>3 DEF Cancel, JobLockFree, UpdateRow, Serving
<1>4. CASE Callback(j)
  BY <1>4 DEF Callback, Serving, UpdateRow, IsTerminal, KernelStatus, CancelRequested
<1>5. CASE ResumeKernel(j)
  BY <1>5 DEF ResumeKernel, JobLockFree, Active, UpdateRow, Serving
<1>6. CASE RequestRecheck(j)
  BY <1>6 DEF RequestRecheck, JobLockFree, ClaimRecheck, Serving, MayTransition, Retained,
       UpdateRow
<1> QED
  BY <1>1, <1>2, <1>3, <1>4, <1>5, <1>6 DEF Client

(* JobInv is kept by the recheck scheduler. *)
LEMMA TickJob ==
    ASSUME TypeOK, RecoveryAlone, NEW j \in Jobs, JobInv(j), Tick(j)
    PROVE  JobInv(j)'
<1> USE DEF JobInv, PushInv, UploadInv, ParkInv, CancelInv, At, PrePush, Locked, BeforePush,
            Terminal, TypeOK, stage, rows, threads, files, durable, volatile, kaggle
<1>1. CASE RecheckDue(j)
  BY <1>1 DEF RecheckDue, Retainable, ClaimRecheck, JobLockFree, Active, MayTransition,
       Retained, UpdateRow, Serving
<1>2. CASE RecheckSettled(j)
  BY <1>2 DEF RecheckSettled, Retainable, JobLockFree, Active, MayTransition, Serving
<1> QED
  BY <1>1, <1>2 DEF Tick

(* JobInv is kept by process_job up to the kernel submission. *)
LEMMA SubmitJob ==
    ASSUME TypeOK, RecoveryAlone, NEW j \in Jobs, JobInv(j), Submit(j)
    PROVE  JobInv(j)'
<1> USE DEF JobInv, PushInv, UploadInv, ParkInv, CancelInv, At, PrePush, Locked, BeforePush,
            Terminal, TypeOK, stage, rows, threads, files, durable, volatile, kaggle
<1>1. CASE Enter(j)
  BY <1>1 DEF Enter, CancelRequested, Goto, Retained, Raise, OnlyThread
<1>2. CASE EnterFails(j)
  BY <1>2 DEF EnterFails, Raise, OnlyThread
<1>3. CASE ToUploading(j)
  BY <1>3 DEF ToUploading, Transition, ThreadAndRow, MayTransition, UpdateRow, Goto,
       CancelRequested, Raise
<1>4. CASE UploadAgain(j)
  BY <1>4 DEF UploadAgain, Retained, Goto, Raise, OnlyThread
<1>5. CASE SpawnChild(j)
  BY <1>5 DEF SpawnChild, MayUpload, Goto
<1>6. CASE CollectChild(j)
  BY <1>6 DEF CollectChild, Goto, Raise
<1>7. CASE KillChild(j)
  BY <1>7 DEF KillChild, Raise
<1>8. CASE ToWaiting(j)
  BY <1>8 DEF ToWaiting, Transition, ThreadAndRow, MayTransition, UpdateRow, Goto,
       CancelRequested, Raise
<1>9. CASE WaitDataset(j)
  BY <1>9 DEF WaitDataset, Goto, OnlyThread
<1>10. CASE WaitDatasetStops(j)
  BY <1>10 DEF WaitDatasetStops, CancelRequested, Goto, Raise, OnlyThread
<1>11. CASE Verified(j)
  BY <1>11 DEF Verified, UpdateRow, CancelRequested, Goto, Raise
<1>12. CASE ToPush(j)
  BY <1>12 DEF ToPush, Transition, Raise, ThreadAndRow, MayTransition, UpdateRow, Goto,
       CancelRequested
<1>13. CASE Push(j)
  BY <1>13 DEF Push, Goto, Raise
<1>14. CASE PushFails(j)
  BY <1>14 DEF PushFails, Raise, OnlyThread
<1>15. CASE Pushed(j)
  BY <1>15 DEF Pushed, Goto
<1> QED
  BY <1>1, <1>2, <1>3, <1>4, <1>5, <1>6, <1>7, <1>8, <1>9, <1>10, <1>11, <1>12, <1>13, <1>14,
       <1>15 DEF Submit

(* JobInv is kept by finish_kernel_job. *)
LEMMA MonitorJob ==
    ASSUME TypeOK, RecoveryAlone, NEW j \in Jobs, JobInv(j), Monitor(j)
    PROVE  JobInv(j)'
<1> USE DEF JobInv, PushInv, UploadInv, ParkInv, CancelInv, At, PrePush, Locked, BeforePush,
            Terminal, TypeOK, stage, rows, threads, files, durable, volatile, kaggle
<1>1. CASE Finish(j)
  <2>1. CASE IsTerminal(j)
    BY <1>1, <2>1 DEF Finish, EnterStatus, Goto, ThreadAndRow, IsTerminal, UpdateRow,
         KernelStatus, CancelRequested
  <2>2. CASE ~IsTerminal(j)
    <3>1. /\ status'[j] \in {"cancel_requested", "waiting_kernel"}
          /\ error'[j] = "none"
          /\ pc'[j] = "waitKernel"
      BY <1>1, <2>2 DEF Finish, EnterStatus, UpdateRow, KernelStatus, Goto
    <3>2. PushInv(j)' /\ UploadInv(j)'
      BY <1>1, <3>1 DEF Finish, ThreadAndRow
    <3>3. ParkInv(j)' /\ CancelInv(j)'
      BY <1>1, <3>1 DEF Finish, ThreadAndRow
    <3> QED
      BY <3>2, <3>3
  <2> QED
    BY <2>1, <2>2
<1>2. CASE PollProgress(j)
  BY <1>2 DEF PollProgress, EnterStatus, IsTerminal, UpdateRow, KernelStatus, CancelRequested
<1>3. CASE WaitKernel(j)
  BY <1>3 DEF WaitKernel, UpdateRow, Goto, Raise, ThreadAndRow
<1>4. CASE KernelUnavailable(j)
  BY <1>4 DEF KernelUnavailable, UpdateRow, IsTerminal, Goto, Resumes, ThreadAndRow
<1>5. CASE MarkUnknown(j)
  BY <1>5 DEF MarkUnknown, UpdateRow, IsTerminal, Goto, ThreadAndRow
<1>6. CASE Download(j)
  BY <1>6 DEF Download, EnterStatus, Goto, ThreadAndRow, IsTerminal, UpdateRow, KernelStatus,
       CancelRequested
<1>7. CASE Package(j)
  <2>1. CASE IsTerminal(j)
    BY <1>7, <2>1 DEF Package, Finalize, Goto, ThreadAndRow, IsTerminal, UpdateRow,
         CancelRequested
  <2>2. CASE ~IsTerminal(j)
    <3>1. /\ status'[j] \in {"canceled", "complete"}
          /\ status'[j] = "complete" => ~cancel[j]
          /\ error'[j] = "none"
          /\ pc'[j] = "done"
      BY <1>7, <2>2 DEF Package, Finalize, UpdateRow, CancelRequested, Goto
    <3>2. PushInv(j)' /\ UploadInv(j)'
      BY <1>7, <3>1 DEF Package, ThreadAndRow
    <3>3. ParkInv(j)' /\ CancelInv(j)'
      BY <1>7, <3>1 DEF Package, ThreadAndRow
    <3> QED
      BY <3>2, <3>3
  <2> QED
    BY <2>1, <2>2
<1>8. CASE FinishFails(j)
  BY <1>8 DEF FinishFails, Raise, OnlyThread
<1> QED
  BY <1>1, <1>2, <1>3, <1>4, <1>5, <1>6, <1>7, <1>8 DEF Monitor

(* JobInv is kept by the exception handlers and the end of a thread. *)
LEMMA ExceptJob ==
    ASSUME TypeOK, RecoveryAlone, NEW j \in Jobs, JobInv(j), Except(j)
    PROVE  JobInv(j)'
<1> USE DEF JobInv, PushInv, UploadInv, ParkInv, CancelInv, At, PrePush, Locked, BeforePush,
            Terminal, TypeOK, stage, rows, threads, files, durable, volatile, kaggle
<1>1. CASE HandleCanceled(j)
  BY <1>1 DEF HandleCanceled, Finalize, Goto, ThreadAndRow, IsTerminal, UpdateRow,
       CancelRequested
<1>2. CASE HandleFailed(j)
  BY <1>2 DEF HandleFailed, KeepsCandidate, Goto, Finalize, ThreadAndRow, Resumes, IsTerminal,
       UpdateRow, CancelRequested
<1>3. CASE Retain(j)
  BY <1>3 DEF Retain, UpdateRow, Goto, ThreadAndRow
<1>4. CASE Schedule(j)
  BY <1>4 DEF Schedule, MayTransition, Reschedules, Goto
<1>5. CASE ThreadDone(j)
  BY <1>5 DEF ThreadDone
<1> QED
  BY <1>1, <1>2, <1>3, <1>4, <1>5 DEF Except

(* JobInv is kept by the SDK child process. *)
LEMMA ChildJob ==
    ASSUME TypeOK, RecoveryAlone, NEW j \in Jobs, JobInv(j), Child(j)
    PROVE  JobInv(j)'
<1> USE DEF JobInv, PushInv, UploadInv, ParkInv, CancelInv, At, PrePush, Locked, BeforePush,
            Terminal, TypeOK, stage, rows, threads, files, durable, volatile, kaggle
<1>1. CASE ChildCheck(j)
  BY <1>1 DEF ChildCheck, ChildFrame
<1>2. CASE ChildMutate(j)
  BY <1>2 DEF ChildMutate, ChildFrame
<1>3. CASE ChildRecord(j)
  BY <1>3 DEF ChildRecord, ChildFrame
<1>4. CASE OrphanExits(j)
  BY <1>4 DEF OrphanExits
<1> QED
  BY <1>1, <1>2, <1>3, <1>4 DEF Child

(* JobInv is kept by startup recovery. *)
LEMMA RecoverJob ==
    ASSUME TypeOK, RecoveryAlone, NEW j \in Jobs, JobInv(j), Recover(j)
    PROVE  JobInv(j)'
<1> USE DEF JobInv, PushInv, UploadInv, ParkInv, CancelInv, At, PrePush, Locked, BeforePush,
            Terminal, TypeOK, stage, rows, threads, files, durable, volatile, kaggle
<1>1. CASE RecoverQueued(j)
  BY <1>1 DEF RecoverQueued, RecoverFrame, Recheck, RecoveryAlone, Active
<1>2. CASE RecoverKernel(j)
  BY <1>2 DEF RecoverKernel, RecoverFrame, RecoveryAlone, Active
<1>3. CASE RecoverPushing(j)
  BY <1>3 DEF RecoverPushing, RecoverFrame, FailRecovered, UpdateRow, RecoveryAlone, Active
<1>4. CASE RecoverCanceled(j)
  <2>1. pc[j] = "idle"
    BY <1>4 DEF RecoverCanceled, RecoverFrame, RecoveryAlone, Active
  <2>2. PushInv(j)'
    BY <1>4, <2>1 DEF RecoverCanceled, RecoverFrame, FailRecovered, UpdateRow
  <2>3. UploadInv(j)'
    BY <1>4, <2>1 DEF RecoverCanceled, RecoverFrame, FailRecovered, UpdateRow
  <2>4. ParkInv(j)'
    BY <1>4, <2>1 DEF RecoverCanceled, RecoverFrame, FailRecovered, UpdateRow
  <2>5. CancelInv(j)'
    BY <1>4, <2>1 DEF RecoverCanceled, RecoverFrame, FailRecovered, UpdateRow
  <2> QED
    BY <2>2, <2>3, <2>4, <2>5
<1>5. CASE RecoverDataset(j)
  <2>1. pc[j] = "idle"
    BY <1>5 DEF RecoverDataset, RecoverFrame, RecoveryAlone, Active
  <2>2. PushInv(j)'
    BY <1>5, <2>1 DEF RecoverDataset, HasCandidate, RecoverFrame, Parked,
         Retained, UpdateRow, Recheck, FailRecovered
  <2>3. UploadInv(j)'
    BY <1>5, <2>1 DEF RecoverDataset, HasCandidate, RecoverFrame, Parked,
         Retained, UpdateRow, Recheck, FailRecovered
  <2>4. ParkInv(j)'
    BY <1>5, <2>1 DEF RecoverDataset, HasCandidate, RecoverFrame, Parked,
         Retained, UpdateRow, Recheck, FailRecovered
  <2>5. CancelInv(j)'
    BY <1>5, <2>1 DEF RecoverDataset, HasCandidate, RecoverFrame, Parked,
         Retained, UpdateRow, Recheck, FailRecovered
  <2> QED
    BY <2>2, <2>3, <2>4, <2>5
<1>6. CASE RecoverAssembly(j)
  BY <1>6 DEF RecoverAssembly, RecoverFrame, UpdateRow, FailRecovered, RecoveryAlone, Active
<1> QED
  BY <1>1, <1>2, <1>3, <1>4, <1>5, <1>6 DEF Recover

(* JobInv is kept by the worker loop taking an item. *)
LEMMA DispatchJob ==
    ASSUME TypeOK, Dispatch, NEW k \in Jobs, JobInv(k)
    PROVE  JobInv(k)'
<1> USE DEF JobInv, PushInv, UploadInv, ParkInv, CancelInv, At, PrePush, Locked, BeforePush,
            stage, rows, threads, files, durable, volatile, kaggle
<1>1. CASE DropItem
  BY <1>1 DEF DropItem
<1>2. CASE StartThread
  <2> DEFINE j == Head(queue).job
             act == Head(queue).action
  <2>1. /\ status[j] \in ExpectedStatuses(act)
        /\ pc' = [pc EXCEPT ![j] = IF act \in Resumes THEN "finish" ELSE "enter"]
        /\ UNCHANGED <<durable, child, kaggle, early>>
    BY <1>2 DEF StartThread
  <2> HIDE DEF j, act
  <2>2. CASE k # j
    BY <2>1, <2>2 DEF TypeOK
  <2>3. CASE k = j
    BY <2>1, <2>3 DEF TypeOK, ExpectedStatuses
  <2> QED
    BY <2>2, <2>3
<1> QED
  BY <1>1, <1>2 DEF Dispatch

(* JobInv is kept by a crash. *)
LEMMA CrashJob ==
    ASSUME TypeOK, Crash, NEW k \in Jobs, JobInv(k)
    PROVE  JobInv(k)'
<1>1. pc'[k] = "idle" /\ child'[k] \in {child[k], "none"}
  BY DEF Crash
<1> QED
  BY <1>1 DEF Crash, JobInv, PushInv, UploadInv, ParkInv, CancelInv, At, PrePush, Locked,
              TypeOK, stage, rows, files, durable, kaggle

-----------------------------------------------------------------------------
(* The inductive invariant *)

(* A job whose archives are still to come satisfies it.                    *)
LEMMA FreshJob ==
    ASSUME NEW j \in Jobs, status[j] = "receiving", error[j] = "none", pc[j] = "idle",
           intent[j] = "none", child[j] = "none", uploads[j] = 0, pushes[j] = 0, j \notin early
    PROVE  JobInv(j)
<1>1. PushInv(j)
  BY DEF PushInv, At
<1>2. UploadInv(j)
  BY DEF UploadInv, At
<1>3. ParkInv(j) /\ CancelInv(j)
  BY DEF ParkInv, CancelInv, At
<1> QED
  BY <1>1, <1>2, <1>3 DEF JobInv

(* Init establishes it.                                                    *)
LEMMA InvInit == Init => Inv
<1> SUFFICES ASSUME Init PROVE Inv
  OBVIOUS
<1>1. TypeOK
  <2>1. queue = <<>>
    BY DEF Init
  <2>2. RowOK /\ ThreadOK
    BY Names DEF Init, RowOK, ThreadOK
  <2>3. /\ kernel \in [Jobs -> {"none", "running", "ok", "error"}]
        /\ uploads \in [Jobs -> Nat] /\ pushes \in [Jobs -> Nat]
    BY DEF Init
  <2>4. /\ recheck \in [Jobs -> Rechecks] /\ cancel \in [Jobs -> BOOLEAN]
        /\ intent \in [Jobs -> Intents] /\ child \in [Jobs -> Children]
    BY DEF Init, Rechecks, Intents, Children
  <2>5. queue \in Seq(Item)
    BY <2>1
  <2>6. cached = {} /\ pushLog = {} /\ handler = {} /\ toRecover = {} /\ early = {}
    BY DEF Init
  <2> QED
    BY <2>2, <2>3, <2>4, <2>5, <2>6 DEF TypeOK, RowOK, ThreadOK
<1>2. RecoveryAlone
  BY DEF Init, RecoveryAlone
<1>3. ASSUME NEW j \in Jobs PROVE JobInv(j)
  <2>1. /\ status[j] = "receiving" /\ error[j] = "none" /\ pc[j] = "idle" /\ intent[j] = "none"
        /\ child[j] = "none" /\ uploads[j] = 0 /\ pushes[j] = 0 /\ j \notin early
    BY DEF Init
  <2> QED
    BY <2>1, FreshJob
<1> QED
  BY <1>1, <1>2, <1>3 DEF Inv

(* Every step keeps it.                                                    *)
LEMMA InvStep ==
    ASSUME Inv, [Next]_vars
    PROVE  Inv'
<1> USE DEF Inv
<1>1. ASSUME NEW j \in Jobs, JobStep(j) PROVE Inv'
  <2>1. TypeOK'
    <3>1. CASE KernelEnds(j)
      BY <3>1 DEF KernelEnds, TypeOK, stage, rows, threads, files, durable, volatile
    <3> QED
      BY <1>1, <3>1, HandlerType, ClientType, TickType, SubmitType, MonitorType, ExceptType,
         ChildType, RecoveryType DEF JobStep, ThreadStep
  <2>2. RecoveryAlone'
    BY <1>1, RecoveryStep
  <2>3. JobInv(j)'
    <3>1. CASE KernelEnds(j)
      BY <3>1 DEF KernelEnds, JobInv, PushInv, UploadInv, ParkInv, CancelInv, At,
                  stage, rows, threads, files, durable, volatile
    <3> QED
      BY <1>1, <3>1, HandlerJob, ClientJob, TickJob, SubmitJob, MonitorJob, ExceptJob,
         ChildJob, RecoverJob DEF JobStep, ThreadStep
  <2>4. ASSUME NEW k \in Jobs \ {j} PROVE JobInv(k)'
    BY <1>1, Locality, JobFrame
  <2> QED
    BY <2>1, <2>2, <2>3, <2>4
<1>2. CASE Dispatch
  <2>1. RecoveryAlone'
    BY <1>2 DEF Dispatch, DropItem, StartThread, WorkerFree, Serving, RecoveryAlone
  <2> QED
    BY <1>2, <2>1, DispatchType, DispatchJob
<1>3. CASE Crash
  <2>1. RecoveryAlone'
    BY <1>3 DEF Crash, RecoveryAlone, Active
  <2> QED
    BY <1>3, <2>1, CrashType, CrashJob
<1>4. CASE UNCHANGED vars
  BY <1>4 DEF vars, stage, rows, threads, files, durable, volatile, kaggle, TypeOK, RecoveryAlone,
              Active, JobInv, PushInv, UploadInv, ParkInv, CancelInv, At
<1> QED
  BY <1>1, <1>2, <1>3, <1>4 DEF Next, JobStep

(* The invariant holds in every reachable state of the lifecycle.          *)
THEOREM Invariance == Spec => []Inv
<1>1. Init => Inv
  BY InvInit
<1>2. Inv /\ [Next]_vars => Inv'
  BY InvStep
<1> QED
  BY <1>1, <1>2, PTL DEF Spec

-----------------------------------------------------------------------------
(* What it implies *)

(* Every variable keeps its type.                                          *)
THEOREM TypeCorrect == Spec => []TypeOK
<1>1. Inv => TypeOK
  BY DEF Inv
<1> QED
  BY <1>1, Invariance, PTL

(* upload_dataset creates at most one dataset version for a job.           *)
THEOREM UploadsOnce == Spec => []SingleUpload
<1>1. Inv => SingleUpload
  BY DEF Inv, JobInv, UploadInv, SingleUpload
<1> QED
  BY <1>1, Invariance, PTL

(* No second SDK upload starts while an earlier one has yet to record its  *)
(* intent, even one that outlived a crash of the relay.                    *)
THEOREM OneUploader == Spec => []NoSecondUploader
<1>1. Inv => NoSecondUploader
  BY DEF Inv, JobInv, UploadInv, NoSecondUploader, At, PrePush, Locked
<1> QED
  BY <1>1, Invariance, PTL

(* push_kernel starts at most one run for a job.                           *)
THEOREM PushesOnce == Spec => []SinglePush
<1>1. Inv => SinglePush
  BY DEF Inv, JobInv, PushInv, SinglePush
<1> QED
  BY <1>1, Invariance, PTL

(* A cancel that request_job_cancel accepts before the push is claimed     *)
(* keeps the kernel from being started.                                    *)
THEOREM EarlyCancelWins == Spec => []EarlyCancelNeverPushes
<1>1. Inv => EarlyCancelNeverPushes
  BY DEF Inv, TypeOK, JobInv, CancelInv, EarlyCancelNeverPushes
<1> QED
  BY <1>1, Invariance, PTL

(* finalize_job never completes a canceled job.                            *)
THEOREM CanceledNeverComplete == Spec => []CancelNeverCompletes
<1>1. Inv => CancelNeverCompletes
  BY DEF Inv, JobInv, CancelInv, CancelNeverCompletes
<1> QED
  BY <1>1, Invariance, PTL

-----------------------------------------------------------------------------
(* A terminal status is final *)

(* No step of a job moves it out of a terminal status.                     *)
LEMMA TerminalStep ==
    ASSUME Inv, NEW j \in Jobs, JobStep(j), IsTerminal(j)
    PROVE  status'[j] = status[j]
<1> USE DEF Inv, TypeOK, IsTerminal, Terminal,
            stage, rows, threads, files, durable, volatile, kaggle
<1>1. CASE Handler(j)
  BY <1>1 DEF Handler, AssemblyDone, UpdateRow, AssemblyUndone
<1>2. CASE Client(j)
  <2>1. CASE StartAssembly(j)
    BY <2>1 DEF StartAssembly, UpdateRow
  <2>2. CASE ExpireUpload(j)
    BY <2>2 DEF ExpireUpload, UpdateRow
  <2>3. CASE Cancel(j)
    BY <2>3 DEF Cancel, UpdateRow
  <2>4. CASE Callback(j)
    BY <2>4 DEF Callback, UpdateRow
  <2>5. CASE ResumeKernel(j)
    BY <2>5 DEF ResumeKernel, UpdateRow
  <2>6. CASE RequestRecheck(j)
    BY <2>6 DEF RequestRecheck, ClaimRecheck, MayTransition, Retained, UpdateRow
  <2> QED
    BY <1>2, <2>1, <2>2, <2>3, <2>4, <2>5, <2>6 DEF Client
<1>3. CASE Tick(j)
  BY <1>3 DEF Tick, RecheckDue, Retainable, ClaimRecheck, Active, MayTransition, Retained,
       UpdateRow, RecheckSettled
<1>4. CASE Submit(j)
  BY <1>4 DEF Submit, Enter, At, CancelRequested, Goto, Retained, Raise, OnlyThread, EnterFails,
       ToUploading, Transition, ThreadAndRow, MayTransition, UpdateRow, UploadAgain, SpawnChild,
       CollectChild, KillChild, ToWaiting, WaitDataset, WaitDatasetStops, Verified, ToPush,
       Push, PushFails, Pushed
<1>5. CASE Monitor(j)
  BY <1>5 DEF Monitor, Finish, At, EnterStatus, Goto, ThreadAndRow, UpdateRow, KernelStatus,
       CancelRequested, PollProgress, WaitKernel, Raise, KernelUnavailable, Resumes,
       MarkUnknown, Download, Package, Finalize, FinishFails, OnlyThread
<1>6. CASE Except(j)
  BY <1>6 DEF Except, HandleCanceled, At, Finalize, Goto, ThreadAndRow, UpdateRow,
       CancelRequested, HandleFailed, KeepsCandidate, Resumes, Retain, Schedule, MayTransition,
       Reschedules, ThreadDone, JobInv, ParkInv
<1>7. CASE Child(j)
  BY <1>7 DEF Child, ChildCheck, ChildFrame, ChildMutate, ChildRecord, OrphanExits, At
<1>8. CASE Recover(j)
  BY <1>8 DEF Recover, RecoverQueued, RecoverFrame, Recheck, RecoverKernel, RecoverPushing,
       FailRecovered, UpdateRow, RecoverCanceled, RecoverDataset, Parked, Retained,
       RecoverAssembly
<1>9. CASE KernelEnds(j)
  BY <1>9 DEF KernelEnds
<1> QED
  BY <1>1, <1>2, <1>3, <1>4, <1>5, <1>6, <1>7, <1>8, <1>9 DEF JobStep, ThreadStep

(* No callback, retry, retained candidate or recovery moves a job out of   *)
(* a terminal status.                                                      *)
THEOREM TerminalIsFinal == Spec => TerminalStable
<1>1. ASSUME Inv, [Next]_vars, NEW k \in Jobs, IsTerminal(k)
      PROVE  status'[k] = status[k]
  <2>1. ASSUME NEW j \in Jobs, JobStep(j)
        PROVE  status'[k] = status[k]
    <3>1. CASE k = j
      BY <1>1, <2>1, <3>1, TerminalStep
    <3>2. CASE k # j
      BY <1>1, <2>1, <3>2, Locality DEF Inv, Others
    <3> QED
      BY <3>1, <3>2
  <2>2. CASE Dispatch
    BY <2>2 DEF Dispatch, DropItem, StartThread, durable, rows, stage
  <2>3. CASE Crash
    BY <2>3 DEF Crash, durable, rows, stage
  <2>4. CASE UNCHANGED vars
    BY <2>4 DEF vars, durable, rows, stage
  <2> QED
    BY <1>1, <2>1, <2>2, <2>3, <2>4 DEF Next, JobStep
<1>2. Inv /\ [Next]_vars => [TerminalStays]_status
  BY <1>1 DEF TerminalStays, IsTerminal
<1> QED
  BY <1>2, Invariance, PTL DEF Spec, TerminalStable

-----------------------------------------------------------------------------
(* Mutual exclusion on the dataset lock *)

(* Only Enter takes a thread inside the lock.                              *)
LEMMA LockStep ==
    ASSUME Inv, NEW j \in Jobs, JobStep(j), HoldsLock(j)'
    PROVE  HoldsLock(j) \/ LockFree(j)
<1> USE DEF Inv, TypeOK, HoldsLock, At, Locked,
            stage, rows, threads, files, durable, volatile, kaggle
<1>1. CASE Handler(j)
  BY <1>1 DEF Handler, AssemblyDone, AssemblyUndone
<1>2. CASE Client(j)
  BY <1>2 DEF Client, StartAssembly, ExpireUpload, Cancel, Callback, ResumeKernel,
       RequestRecheck, ClaimRecheck
<1>3. CASE Tick(j)
  BY <1>3 DEF Tick, RecheckDue, ClaimRecheck, RecheckSettled
<1>4. CASE Submit(j)
  BY <1>4 DEF Submit, Enter, Goto, Raise, OnlyThread, EnterFails, ToUploading, Transition,
       ThreadAndRow, UploadAgain, SpawnChild, CollectChild, KillChild, ToWaiting, WaitDataset,
       WaitDatasetStops, Verified, ToPush, Push, PushFails, Pushed
<1>5. CASE Monitor(j)
  BY <1>5 DEF Monitor, Finish, Goto, ThreadAndRow, PollProgress, WaitKernel, Raise,
       KernelUnavailable, MarkUnknown, Download, Package, FinishFails, OnlyThread
<1>6. CASE Except(j)
  BY <1>6 DEF Except, HandleCanceled, Goto, ThreadAndRow, HandleFailed, Retain, Schedule,
       ThreadDone
<1>7. CASE Child(j)
  BY <1>7 DEF Child, ChildCheck, ChildFrame, ChildMutate, ChildRecord, OrphanExits
<1>8. CASE Recover(j)
  BY <1>8 DEF Recover, RecoverQueued, RecoverFrame, RecoverKernel, RecoverPushing,
       RecoverCanceled, RecoverDataset, RecoverAssembly
<1>9. CASE KernelEnds(j)
  BY <1>9 DEF KernelEnds
<1> QED
  BY <1>1, <1>2, <1>3, <1>4, <1>5, <1>6, <1>7, <1>8, <1>9 DEF JobStep, ThreadStep

(* At most one worker thread is inside the submission lock of a dataset.   *)
THEOREM LockIsExclusive == Spec => []LockExclusive
<1>1. Init => LockExclusive
  BY DEF Init, LockExclusive, HoldsLock, Locked
<1>2. Inv /\ LockExclusive /\ [Next]_vars => LockExclusive'
  <2> SUFFICES ASSUME Inv, LockExclusive, [Next]_vars
               PROVE  LockExclusive'
    OBVIOUS
  <2>1. ASSUME NEW j \in Jobs, JobStep(j)
        PROVE  LockExclusive'
    <3>1. \A k \in Jobs \ {j} : HoldsLock(k)' <=> HoldsLock(k)
      BY <2>1, Locality DEF Inv, Others, HoldsLock
    <3>2. HoldsLock(j)' => HoldsLock(j) \/ LockFree(j)
      BY <2>1, LockStep
    <3> QED
      BY <3>1, <3>2 DEF LockExclusive, LockFree, SameRef
  <2>2. CASE Dispatch
    <3>1. \A k \in Jobs : HoldsLock(k)' => HoldsLock(k)
      BY <2>2 DEF Dispatch, DropItem, StartThread, Inv, TypeOK, HoldsLock, Locked, threads
    <3> QED
      BY <3>1 DEF LockExclusive
  <2>3. CASE Crash
    BY <2>3 DEF Crash, LockExclusive, HoldsLock, Locked
  <2>4. CASE UNCHANGED vars
    BY <2>4 DEF vars, volatile, threads, LockExclusive, HoldsLock
  <2> QED
    BY <2>1, <2>2, <2>3, <2>4 DEF Next, JobStep
<1> QED
  BY <1>1, <1>2, Invariance, PTL DEF Spec

-----------------------------------------------------------------------------
(* Kernels train on published data *)

(* Dataset versions are never taken back.                                  *)
LEMMA UploadsGrow ==
    ASSUME Inv, [Next]_vars, NEW k \in Jobs
    PROVE  uploads'[k] >= uploads[k]
<1>0. uploads \in [Jobs -> Nat]
  BY DEF Inv, TypeOK
<1>1. ASSUME NEW j \in Jobs, Child(j) PROVE uploads'[k] >= uploads[k]
  <2>1. uploads' \in {uploads, [uploads EXCEPT ![j] = uploads[j] + 1]}
    BY <1>1 DEF Child, ChildCheck, ChildMutate, ChildRecord, OrphanExits, kaggle
  <2>2. uploads'[k] \in {uploads[k], uploads[k] + 1}
    BY <1>0, <2>1
  <2> QED
    BY <1>0, <2>2
<1>2. ASSUME NEW j \in Jobs, JobStep(j), ~Child(j) PROVE UNCHANGED uploads
  BY <1>2 DEF JobStep, ThreadStep, Handler, Client, Tick, Submit, Monitor, Except, Recover,
       AssemblyDone, AssemblyUndone, StartAssembly, ExpireUpload, Cancel, Callback,
       ResumeKernel, RequestRecheck, ClaimRecheck, RecheckDue, RecheckSettled, Enter,
       OnlyThread, EnterFails, ToUploading, ThreadAndRow, UploadAgain, SpawnChild, CollectChild,
       KillChild, ToWaiting, WaitDataset, WaitDatasetStops, Verified, ToPush, Push, PushFails,
       Pushed, Finish, PollProgress, WaitKernel, KernelUnavailable, MarkUnknown, Download,
       Package, FinishFails, HandleCanceled, HandleFailed, Retain, Schedule, ThreadDone,
       RecoverQueued, RecoverFrame, RecoverKernel, RecoverPushing, RecoverCanceled,
       RecoverDataset, RecoverAssembly, KernelEnds, kaggle
<1>3. ASSUME Dispatch \/ Crash \/ UNCHANGED vars PROVE UNCHANGED uploads
  BY <1>3 DEF Dispatch, DropItem, StartThread, Crash, vars, kaggle
<1> QED
  BY <1>0, <1>1, <1>2, <1>3 DEF Next, JobStep

(* A step of process_job or finish_kernel_job establishes the data it      *)
(* needs: only WaitDataset leads past the verification.                    *)
LEMMA DataStep ==
    ASSUME Inv, DataInv, NEW j \in Jobs, JobStep(j),
           pc'[j] \in {"verified", "toPush", "push", "pushed"} \/ pushes'[j] > 0
    PROVE  Published(j)
<1> USE DEF Inv, TypeOK, DataInv, At, stage, rows, threads, files, durable, volatile, kaggle
<1>1. CASE Handler(j)
  BY <1>1 DEF Handler, AssemblyDone, AssemblyUndone
<1>2. CASE Client(j)
  BY <1>2 DEF Client, StartAssembly, ExpireUpload, Cancel, Callback, ResumeKernel,
       RequestRecheck, ClaimRecheck
<1>3. CASE Tick(j)
  BY <1>3 DEF Tick, RecheckDue, ClaimRecheck, RecheckSettled
<1>4. CASE Submit(j)
  BY <1>4 DEF Submit, Enter, Goto, Raise, OnlyThread, EnterFails, ToUploading, Transition,
       ThreadAndRow, UploadAgain, SpawnChild, CollectChild, KillChild, ToWaiting, WaitDataset,
       WaitDatasetStops, Verified, ToPush, Push, PushFails, Pushed
<1>5. CASE Monitor(j)
  BY <1>5 DEF Monitor, Finish, Goto, ThreadAndRow, PollProgress, WaitKernel, Raise,
       KernelUnavailable, MarkUnknown, Download, Package, FinishFails, OnlyThread
<1>6. CASE Except(j)
  BY <1>6 DEF Except, HandleCanceled, Goto, ThreadAndRow, HandleFailed, Retain, Schedule,
       ThreadDone
<1>7. CASE Child(j)
  BY <1>7 DEF Child, ChildCheck, ChildFrame, ChildMutate, ChildRecord, OrphanExits
<1>8. CASE Recover(j)
  BY <1>8 DEF Recover, RecoverQueued, RecoverFrame, RecoverKernel, RecoverPushing,
       RecoverCanceled, RecoverDataset, RecoverAssembly
<1>9. CASE KernelEnds(j)
  BY <1>9 DEF KernelEnds
<1> QED
  BY <1>1, <1>2, <1>3, <1>4, <1>5, <1>6, <1>7, <1>8, <1>9 DEF JobStep, ThreadStep

(* Past the verification, a thread holds data that Kaggle has.             *)
THEOREM DataInvariance == Spec => []DataInv
<1>1. Init => DataInv
  BY DEF Init, DataInv
<1>2. Inv /\ DataInv /\ [Next]_vars => DataInv'
  <2> SUFFICES ASSUME Inv, DataInv, [Next]_vars, NEW k \in Jobs,
                      pc'[k] \in {"verified", "toPush", "push", "pushed"} \/ pushes'[k] > 0
               PROVE  Published(k)'
    BY DEF DataInv
  <2>1. Published(k)
    <3>1. ASSUME NEW j \in Jobs, JobStep(j) PROVE Published(k)
      <4>1. CASE k = j
        BY <3>1, <4>1, DataStep
      <4>2. CASE k # j
        BY <3>1, <4>2, Locality DEF Inv, Others, DataInv
      <4> QED
        BY <4>1, <4>2
    <3>2. CASE Dispatch
      BY <3>2 DEF Dispatch, DropItem, StartThread, Inv, TypeOK, DataInv, threads, kaggle
    <3>3. CASE Crash
      BY <3>3 DEF Crash, DataInv, kaggle
    <3>4. CASE UNCHANGED vars
      BY <3>4 DEF vars, volatile, threads, kaggle, DataInv
    <3> QED
      BY <3>1, <3>2, <3>3, <3>4 DEF Next, JobStep
  <2>2. PICK i \in Jobs : DatasetOf[i] = DatasetOf[k] /\ uploads[i] > 0
    BY <2>1 DEF Published
  <2>3. uploads[i] \in Nat /\ uploads'[i] \in Nat /\ uploads'[i] >= uploads[i]
    BY UploadsGrow, InvStep DEF Inv, TypeOK
  <2> QED
    BY <2>2, <2>3 DEF Published
<1> QED
  BY <1>1, <1>2, Invariance, PTL DEF Spec

(* A kernel is only started on a dataset whose content Kaggle holds.       *)
THEOREM TrainsOnPublished == Spec => []TrainsOnPublishedData
<1>1. DataInv => TrainsOnPublishedData
  BY DEF DataInv, TrainsOnPublishedData
<1> QED
  BY <1>1, DataInvariance, PTL

-----------------------------------------------------------------------------
(* Artifacts come from the job's own run *)

(* A step of job j changes what Kaggle shows of no other kernel.           *)
LEMMA KernelLocal ==
    ASSUME Inv, NEW j \in Jobs, JobStep(j), NEW k \in Jobs \ {j}
    PROVE  kernel'[k] = kernel[k]
BY DEF JobStep, ThreadStep, Inv, TypeOK, kaggle, Handler, Client, Tick, Submit, Monitor, Except,
     Child, Recover, AssemblyDone, AssemblyUndone, StartAssembly, ExpireUpload, Cancel,
     Callback, ResumeKernel, RequestRecheck, ClaimRecheck, RecheckDue, RecheckSettled, Enter,
     OnlyThread, EnterFails, ToUploading, ThreadAndRow, UploadAgain, SpawnChild, CollectChild,
     KillChild, ToWaiting, WaitDataset, WaitDatasetStops, Verified, ToPush, Push, PushFails,
     Pushed, Finish, PollProgress, WaitKernel, KernelUnavailable, MarkUnknown, Download,
     Package, FinishFails, HandleCanceled, HandleFailed, Retain, Schedule, ThreadDone,
     ChildCheck, ChildFrame, ChildMutate, ChildRecord, OrphanExits, RecoverQueued, RecoverFrame,
     RecoverKernel, RecoverPushing, RecoverCanceled, RecoverDataset, RecoverAssembly, KernelEnds

(* Nothing but a push makes a kernel visible, and nothing but a visible    *)
(* kernel leads to a download.                                             *)
LEMMA RunStep ==
    ASSUME Inv, RunInv, NEW j \in Jobs \ PriorRun, JobStep(j),
           \/ kernel'[j] # "none" \/ pc'[j] \in {"download", "package"} \/ status'[j] = "complete"
    PROVE  pushes'[j] > 0
<1> USE DEF Inv, TypeOK, RunInv, At, stage, rows, threads, files, durable, volatile, kaggle
<1>1. CASE Handler(j)
  BY <1>1 DEF Handler, AssemblyDone, UpdateRow, AssemblyUndone
<1>2. CASE Client(j)
  BY <1>2 DEF Client, StartAssembly, UpdateRow, ExpireUpload, Cancel, Callback, KernelStatus,
       ResumeKernel, RequestRecheck, ClaimRecheck
<1>3. CASE Tick(j)
  BY <1>3 DEF Tick, RecheckDue, ClaimRecheck, UpdateRow, RecheckSettled
<1>4. CASE Submit(j)
  BY <1>4 DEF Submit, Enter, Goto, Raise, OnlyThread, EnterFails, ToUploading, Transition,
       ThreadAndRow, UpdateRow, UploadAgain, SpawnChild, CollectChild, KillChild, ToWaiting,
       WaitDataset, WaitDatasetStops, Verified, ToPush, Push, PushFails, Pushed
<1>5. CASE Monitor(j)
  <2>1. CASE Finish(j)
    BY <2>1 DEF Finish, EnterStatus, Goto, ThreadAndRow, UpdateRow, KernelStatus
  <2>2. CASE PollProgress(j)
    BY <2>2 DEF PollProgress, EnterStatus, UpdateRow, KernelStatus
  <2>3. CASE WaitKernel(j)
    BY <2>3 DEF WaitKernel, UpdateRow, Goto, Raise, ThreadAndRow
  <2>4. CASE KernelUnavailable(j)
    BY <2>4 DEF KernelUnavailable, UpdateRow, Goto, ThreadAndRow
  <2>5. CASE MarkUnknown(j)
    BY <2>5 DEF MarkUnknown, UpdateRow, Goto, ThreadAndRow
  <2>6. CASE Download(j)
    BY <2>6 DEF Download, EnterStatus, Goto, ThreadAndRow, UpdateRow, KernelStatus
  <2>7. CASE Package(j)
    BY <2>7 DEF Package, Finalize, Goto, ThreadAndRow, UpdateRow
  <2>8. CASE FinishFails(j)
    BY <2>8 DEF FinishFails, Raise, OnlyThread
  <2> QED
    BY <1>5, <2>1, <2>2, <2>3, <2>4, <2>5, <2>6, <2>7, <2>8 DEF Monitor
<1>6. CASE Except(j)
  BY <1>6 DEF Except, HandleCanceled, Finalize, Goto, ThreadAndRow, UpdateRow, HandleFailed,
       Retain, Schedule, ThreadDone
<1>7. CASE Child(j)
  BY <1>7 DEF Child, ChildCheck, ChildFrame, ChildMutate, ChildRecord, OrphanExits
<1>8. CASE Recover(j)
  BY <1>8 DEF Recover, RecoverQueued, RecoverFrame, RecoverKernel, RecoverPushing,
       FailRecovered, UpdateRow, RecoverCanceled, RecoverDataset, RecoverAssembly
<1>9. CASE KernelEnds(j)
  BY <1>9 DEF KernelEnds
<1> QED
  BY <1>1, <1>2, <1>3, <1>4, <1>5, <1>6, <1>7, <1>8, <1>9 DEF JobStep, ThreadStep

(* Unless its kernel_ref had a run before, whatever a job monitors and     *)
(* downloads is a run that it started.                                     *)
THEOREM RunInvariance == Spec => []RunInv
<1>1. Init => RunInv
  BY DEF Init, RunInv
<1>2. Inv /\ RunInv /\ [Next]_vars => RunInv'
  <2> SUFFICES ASSUME Inv, RunInv, [Next]_vars, NEW k \in Jobs \ PriorRun,
                      \/ kernel'[k] # "none" \/ pc'[k] \in {"download", "package"}
                      \/ status'[k] = "complete"
               PROVE  pushes'[k] > 0
    BY DEF RunInv
  <2>1. ASSUME NEW j \in Jobs, JobStep(j) PROVE pushes'[k] > 0
    <3>1. CASE k = j
      BY <2>1, <3>1, RunStep
    <3>2. CASE k # j
      <4>1. kernel'[k] = kernel[k]
        BY <2>1, <3>2, KernelLocal
      <4> QED
        BY <2>1, <3>2, <4>1, Locality DEF Inv, Others, RunInv
    <3> QED
      BY <3>1, <3>2
  <2>2. CASE Dispatch
    BY <2>2 DEF Dispatch, DropItem, StartThread, Inv, TypeOK, RunInv, durable, rows, stage,
                threads, kaggle
  <2>3. CASE Crash
    BY <2>3 DEF Crash, RunInv, durable, rows, stage, kaggle
  <2>4. CASE UNCHANGED vars
    BY <2>4 DEF vars, durable, rows, stage, volatile, threads, kaggle, RunInv
  <2> QED
    BY <2>1, <2>2, <2>3, <2>4 DEF Next, JobStep
<1> QED
  BY <1>1, <1>2, Invariance, PTL DEF Spec

(* When no kernel_ref had a run before, a complete job has started the one *)
(* run its artifacts come from.                                            *)
THEOREM CompletesOwnRun ==
    ASSUME PriorRun = {}
    PROVE  Spec => []CompleteMeansOwnRun
<1>1. Inv /\ RunInv => CompleteMeansOwnRun
  BY DEF Inv, TypeOK, JobInv, PushInv, RunInv, CompleteMeansOwnRun
<1> QED
  BY <1>1, Invariance, RunInvariance, PTL

=============================================================================
