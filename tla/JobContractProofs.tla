------------------------- MODULE JobContractProofs --------------------------
(***************************************************************************)
(* JobLifecycle implements JobContract, for any set of jobs: each step of  *)
(* a job asks, publishes, starts, ends, or shows the client nothing.       *)
(***************************************************************************)
EXTENDS JobLifecycleProofs

-----------------------------------------------------------------------------
(* A job is only canceled on request *)

(* A step that leads job j towards "canceled" was asked for.               *)
LEMMA CancelingJob ==
    ASSUME Inv, AskedInv, NEW j \in Jobs, JobStep(j), Canceling(j)'
    PROVE  cancel'[j]
<1> USE DEF Inv, TypeOK, AskedInv, Canceling, At,
            stage, rows, threads, files, durable, volatile, kaggle
<1>1. CASE Handler(j)
  BY <1>1 DEF Handler, AssemblyDone, UpdateRow, AssemblyUndone
<1>2. CASE Client(j)
  <2>1. CASE StartAssembly(j) \/ ExpireUpload(j)
    BY <2>1 DEF StartAssembly, ExpireUpload, UpdateRow
  <2>2. CASE Cancel(j)
    BY <2>2 DEF Cancel, UpdateRow
  <2>3. CASE Callback(j)
    BY <2>3 DEF Callback, UpdateRow, KernelStatus, CancelRequested, IsTerminal, Terminal
  <2>4. CASE ResumeKernel(j)
    BY <2>4 DEF ResumeKernel, UpdateRow
  <2>5. CASE RequestRecheck(j)
    BY <2>5 DEF RequestRecheck, ClaimRecheck, UpdateRow
  <2> QED
    BY <1>2, <2>1, <2>2, <2>3, <2>4, <2>5 DEF Client
<1>3. CASE Tick(j)
  BY <1>3 DEF Tick, RecheckDue, ClaimRecheck, UpdateRow, RecheckSettled
<1>4. CASE Submit(j)
  BY <1>4 DEF Submit, Enter, CancelRequested, Goto, Raise, OnlyThread, EnterFails, ToUploading,
       Transition, ThreadAndRow, UpdateRow, UploadAgain, SpawnChild, CollectChild, KillChild,
       ToWaiting, WaitDataset, WaitDatasetStops, Verified, ToPush, Push, PushFails, Pushed
<1>5. CASE Monitor(j)
  <2>1. CASE Finish(j) \/ PollProgress(j) \/ Download(j)
    BY <2>1 DEF Finish, PollProgress, Download, EnterStatus, KernelStatus, CancelRequested,
         IsTerminal, Terminal, UpdateRow, Goto, ThreadAndRow
  <2>2. CASE WaitKernel(j) \/ FinishFails(j)
    BY <2>2 DEF WaitKernel, FinishFails, UpdateRow, Goto, Raise, ThreadAndRow, OnlyThread
  <2>3. CASE KernelUnavailable(j) \/ MarkUnknown(j)
    BY <2>3 DEF KernelUnavailable, MarkUnknown, UpdateRow, Goto, ThreadAndRow
  <2>4. CASE Package(j)
    BY <2>4 DEF Package, Finalize, CancelRequested, UpdateRow, Goto, ThreadAndRow
  <2> QED
    BY <1>5, <2>1, <2>2, <2>3, <2>4 DEF Monitor
<1>6. CASE Except(j)
  BY <1>6 DEF Except, HandleCanceled, Finalize, CancelRequested, Goto, ThreadAndRow, UpdateRow,
       HandleFailed, Retain, Schedule, ThreadDone
<1>7. CASE Child(j)
  BY <1>7 DEF Child, ChildCheck, ChildFrame, ChildMutate, ChildRecord, OrphanExits
<1>8. CASE Recover(j)
  BY <1>8 DEF Recover, RecoverQueued, RecoverFrame, RecoverKernel, RecoverPushing,
       FailRecovered, UpdateRow, RecoverCanceled, RecoverDataset, RecoverAssembly
<1>9. CASE KernelEnds(j)
  BY <1>9 DEF KernelEnds
<1> QED
  BY <1>1, <1>2, <1>3, <1>4, <1>5, <1>6, <1>7, <1>8, <1>9 DEF JobStep, ThreadStep

(* The item that a step of job j puts into the queue.                      *)
Puts(j, act) ==
    LET item == [job |-> j, action |-> act]
    IN  queue' \in {Append(queue, item), queue \o <<item>>, <<item>> \o queue}

(* A step of job j queues at most one item, a canceling one on request.    *)
LEMMA QueueJob ==
    ASSUME Inv, AskedInv, NEW j \in Jobs, JobStep(j)
    PROVE  queue' = queue \/ \E act \in Actions : Puts(j, act)
                                /\ (act = "resume_canceled" => cancel[j])
<1> USE Names DEF Inv, TypeOK, AskedInv, Canceling, Puts,
            stage, rows, threads, files, durable, volatile, kaggle
<1>1. CASE Handler(j)
  BY <1>1 DEF Handler, AssemblyDone, AssemblyUndone, Enqueue
<1>2. CASE Client(j)
  BY <1>2 DEF Client, StartAssembly, ExpireUpload, Cancel, Callback, ResumeKernel,
       RequestRecheck, ClaimRecheck, Enqueue
<1>3. CASE Tick(j)
  BY <1>3 DEF Tick, RecheckDue, ClaimRecheck, Enqueue, RecheckSettled
<1>4. CASE Submit(j)
  BY <1>4 DEF Submit, Enter, OnlyThread, EnterFails, ToUploading, ThreadAndRow, UploadAgain,
       SpawnChild, CollectChild, KillChild, ToWaiting, WaitDataset, WaitDatasetStops, Verified,
       ToPush, Push, PushFails, Pushed
<1>5. CASE Monitor(j)
  BY <1>5 DEF Monitor, Finish, ThreadAndRow, PollProgress, WaitKernel, KernelUnavailable,
       MarkUnknown, Download, Package, FinishFails, OnlyThread
<1>6. CASE Except(j)
  BY <1>6 DEF Except, HandleCanceled, ThreadAndRow, HandleFailed, Retain, Schedule, ThreadDone
<1>7. CASE Child(j)
  BY <1>7 DEF Child, ChildCheck, ChildFrame, ChildMutate, ChildRecord, OrphanExits
<1>8. CASE Recover(j)
  BY <1>8 DEF Recover, RecoverQueued, RecoverFrame, RecoverKernel, RecoverPushing,
       FailRecovered, RecoverCanceled, RecoverDataset, RecoverAssembly, RecoverAs, Recheck
<1>9. CASE KernelEnds(j)
  BY <1>9 DEF KernelEnds
<1> QED
  BY <1>1, <1>2, <1>3, <1>4, <1>5, <1>6, <1>7, <1>8, <1>9 DEF JobStep, ThreadStep

(* A cancel, once accepted, is never taken back.                           *)
LEMMA CancelStays ==
    ASSUME Inv, NEW j \in Jobs, JobStep(j), cancel[j]
    PROVE  cancel'[j]
BY DEF JobStep, ThreadStep, Inv, TypeOK, Handler, Client, Tick, Submit, Monitor, Except,
     Child, Recover, AssemblyDone, AssemblyUndone, StartAssembly, ExpireUpload, Cancel,
     Callback, ResumeKernel, RequestRecheck, ClaimRecheck, RecheckDue, RecheckSettled, Enter,
     OnlyThread, EnterFails, ToUploading, ThreadAndRow, UploadAgain, SpawnChild, CollectChild,
     KillChild, ToWaiting, WaitDataset, WaitDatasetStops, Verified, ToPush, Push, PushFails,
     Pushed, Finish, PollProgress, WaitKernel, KernelUnavailable, MarkUnknown, Download,
     Package, FinishFails, HandleCanceled, HandleFailed, Retain, Schedule, ThreadDone,
     ChildCheck, ChildFrame, ChildMutate, ChildRecord, OrphanExits, RecoverQueued, RecoverFrame,
     RecoverKernel, RecoverPushing, RecoverCanceled, RecoverDataset, RecoverAssembly, KernelEnds,
     rows, durable

(* A step of job j changes the action of no other thread.                  *)
LEMMA ActionLocal ==
    ASSUME Inv, NEW j \in Jobs, JobStep(j), NEW k \in Jobs \ {j}
    PROVE  action'[k] = action[k]
BY DEF JobStep, ThreadStep, Inv, TypeOK, Handler, Client, Tick, Submit, Monitor, Except,
     Child, Recover, AssemblyDone, AssemblyUndone, StartAssembly, ExpireUpload, Cancel,
     Callback, ResumeKernel, RequestRecheck, ClaimRecheck, RecheckDue, RecheckSettled, Enter,
     OnlyThread, EnterFails, ToUploading, ThreadAndRow, UploadAgain, SpawnChild, CollectChild,
     KillChild, ToWaiting, WaitDataset, WaitDatasetStops, Verified, ToPush, Push, PushFails,
     Pushed, Finish, PollProgress, WaitKernel, KernelUnavailable, MarkUnknown, Download,
     Package, FinishFails, HandleCanceled, HandleFailed, Retain, Schedule, ThreadDone,
     ChildCheck, ChildFrame, ChildMutate, ChildRecord, OrphanExits, RecoverQueued, RecoverFrame,
     RecoverKernel, RecoverPushing, RecoverCanceled, RecoverDataset, RecoverAssembly, KernelEnds,
     Goto, Raise, Transition, threads, volatile

(* An item put at either end of the queue leaves the other items as they   *)
(* were.                                                                   *)
LEMMA PutItem ==
    ASSUME TypeOK, NEW j \in Jobs, NEW act \in Actions, Puts(j, act), NEW i \in 1..Len(queue')
    PROVE  \/ queue'[i] = [job |-> j, action |-> act]
           \/ \E n \in 1..Len(queue) : queue'[i] = queue[n]
<1> DEFINE item == [job |-> j, action |-> act]
<1>1. queue \in Seq(Item) /\ item \in Item
  BY DEF TypeOK, Item
<1>2. CASE queue' = Append(queue, item)
  BY <1>1, <1>2
<1>3. CASE queue' = queue \o <<item>>
  BY <1>1, <1>3
<1>4. CASE queue' = <<item>> \o queue
  <2>1. Len(queue') = Len(queue) + 1 /\ queue'[1] = item
    BY <1>1, <1>4
  <2>2. i # 1 => i - 1 \in 1..Len(queue) /\ queue'[i] = queue[i - 1]
    BY <1>1, <1>4, <2>1
  <2> QED
    BY <2>1, <2>2
<1> QED
  BY <1>2, <1>3, <1>4 DEF Puts

(* Canceled jobs, canceling threads and canceling items are asked for.     *)
THEOREM AskedInvariance == Spec => []AskedInv
<1>1. Init => AskedInv
  BY DEF Init, AskedInv, Canceling, At
<1>2. Inv /\ AskedInv /\ [Next]_vars => AskedInv'
  <2> SUFFICES ASSUME Inv, AskedInv, [Next]_vars
               PROVE  AskedInv'
    OBVIOUS
  <2>1. ASSUME NEW j \in Jobs, JobStep(j)
        PROVE  AskedInv'
    <3>1. \A k \in Jobs : cancel[k] => cancel'[k]
      BY <2>1, CancelStays, Locality DEF Inv, Others
    <3>2. ASSUME NEW k \in Jobs, Canceling(k)' PROVE cancel'[k]
      <4>1. CASE k = j
        BY <2>1, <3>2, <4>1, CancelingJob
      <4>2. CASE k # j
        BY <2>1, <3>1, <3>2, <4>2, Locality, ActionLocal DEF Inv, Others, AskedInv, Canceling, At
      <4> QED
        BY <4>1, <4>2
    <3>3. ASSUME NEW i \in 1..Len(queue'), queue'[i].action = "resume_canceled"
          PROVE  cancel'[queue'[i].job]
      <4>1. \A n \in 1..Len(queue) : queue[n].job \in Jobs
        <5>1. queue \in Seq(Item)
          BY DEF Inv, TypeOK
        <5>2. \A n \in 1..Len(queue) : queue[n] \in Item
          BY <5>1
        <5> QED
          BY <5>2 DEF Item
      <4>2. \A n \in 1..Len(queue) : queue[n].action = "resume_canceled" => cancel'[queue[n].job]
        BY <3>1, <4>1 DEF AskedInv
      <4>3. CASE queue' = queue
        BY <3>3, <4>2, <4>3
      <4>4. ASSUME NEW act \in Actions, Puts(j, act), act = "resume_canceled" => cancel[j]
            PROVE  cancel'[queue'[i].job]
        <5>1. CASE queue'[i] = [job |-> j, action |-> act]
          <6>1. queue'[i].job = j /\ queue'[i].action = act
            BY <5>1
          <6> QED
            BY <3>1, <3>3, <4>4, <6>1
        <5>2. ASSUME NEW n \in 1..Len(queue), queue'[i] = queue[n]
              PROVE  cancel'[queue'[i].job]
          BY <3>3, <4>2, <5>2
        <5> QED
          BY <3>3, <4>4, <5>1, <5>2, PutItem DEF Inv
      <4> QED
        BY <2>1, <4>3, <4>4, QueueJob
    <3> QED
      BY <3>2, <3>3 DEF AskedInv
  <2>2. CASE Dispatch
    <3>1. queue \in Seq(Item) /\ queue # <<>> /\ queue' = Tail(queue)
      BY <2>2 DEF Dispatch, DropItem, StartThread, WorkerFree, Inv, TypeOK
    <3>2. \A i \in 1..Len(queue') : i + 1 \in 1..Len(queue) /\ queue'[i] = queue[i + 1]
      BY <3>1
    <3>3. UNCHANGED <<status, cancel>>
      BY <2>2 DEF Dispatch, DropItem, StartThread, durable, rows, stage
    <3>4. 1 \in 1..Len(queue) /\ Head(queue) = queue[1]
      BY <3>1
    <3>5. ASSUME NEW k \in Jobs, Canceling(k)' PROVE cancel[k]
      <4>1. CASE DropItem
        BY <3>3, <3>5, <4>1 DEF DropItem, AskedInv, Canceling, At, threads
      <4>2. CASE StartThread
        BY <3>3, <3>4, <3>5, <4>2 DEF StartThread, AskedInv, Canceling, At, Inv, TypeOK
      <4> QED
        BY <2>2, <4>1, <4>2 DEF Dispatch
    <3> QED
      BY <3>2, <3>3, <3>5 DEF AskedInv
  <2>3. CASE Crash
    BY <2>3 DEF Crash, AskedInv, Canceling, At, durable, rows, stage
  <2>4. CASE UNCHANGED vars
    BY <2>4 DEF vars, durable, rows, stage, volatile, threads, AskedInv, Canceling, At
  <2> QED
    BY <2>1, <2>2, <2>3, <2>4 DEF Next, JobStep
<1> QED
  BY <1>1, <1>2, Invariance, PTL DEF Spec

-----------------------------------------------------------------------------
(* A job that is about to be pushed is open *)

(* Only a cancel reaches the row of a job whose thread is about to push.   *)
LEMMA LiveJob ==
    ASSUME Inv, LiveInv, NEW j \in Jobs, JobStep(j), At(j, "push")'
    PROVE  status'[j] \in {"pushing_kernel", "cancel_requested"}
<1> USE DEF Inv, TypeOK, LiveInv, At, stage, rows, threads, files, durable, volatile, kaggle
<1>1. CASE Handler(j)
  BY <1>1 DEF Handler, AssemblyDone, UpdateRow, AssemblyUndone
<1>2. CASE Client(j)
  <2>1. CASE StartAssembly(j) \/ ExpireUpload(j) \/ Cancel(j) \/ ResumeKernel(j)
    BY <2>1 DEF StartAssembly, ExpireUpload, Cancel, ResumeKernel, Active, UpdateRow
  <2>2. CASE Callback(j)
    <3>1. At(j, "push") /\ pushes[j] > 0
      BY <2>2 DEF Callback
    <3>2. pushes[j] = 0
      BY <3>1 DEF JobInv, PushInv, PrePush, Locked
    <3> QED
      BY <3>1, <3>2
  <2>3. CASE RequestRecheck(j)
    BY <2>3 DEF RequestRecheck, ClaimRecheck, MayTransition
  <2> QED
    BY <1>2, <2>1, <2>2, <2>3 DEF Client
<1>3. CASE Tick(j)
  BY <1>3 DEF Tick, RecheckDue, Retainable, Active, ClaimRecheck, UpdateRow, RecheckSettled
<1>4. CASE Submit(j)
  BY <1>4 DEF Submit, Enter, Goto, Raise, OnlyThread, EnterFails, ToUploading, Transition,
       ThreadAndRow, UpdateRow, UploadAgain, SpawnChild, CollectChild, KillChild, ToWaiting,
       WaitDataset, WaitDatasetStops, Verified, ToPush, Push, PushFails, Pushed
<1>5. CASE Monitor(j)
  BY <1>5 DEF Monitor, Finish, Goto, ThreadAndRow, PollProgress, WaitKernel, Raise,
       KernelUnavailable, MarkUnknown, Download, Package, FinishFails, OnlyThread
<1>6. CASE Except(j)
  BY <1>6 DEF Except, HandleCanceled, Goto, ThreadAndRow, HandleFailed, Retain, Schedule,
       ThreadDone
<1>7. CASE Child(j)
  BY <1>7 DEF Child, ChildCheck, ChildFrame, ChildMutate, ChildRecord, OrphanExits
<1>8. CASE Recover(j)
  BY <1>8 DEF Recover, RecoverQueued, RecoverFrame, RecoverKernel, RecoverPushing,
       RecoverCanceled, RecoverDataset, RecoverAssembly, RecoveryAlone, Active
<1>9. CASE KernelEnds(j)
  BY <1>9 DEF KernelEnds
<1> QED
  BY <1>1, <1>2, <1>3, <1>4, <1>5, <1>6, <1>7, <1>8, <1>9 DEF JobStep, ThreadStep

(* No job ends while its thread is about to push its kernel.               *)
THEOREM LiveInvariance == Spec => []LiveInv
<1>1. Init => LiveInv
  BY DEF Init, LiveInv, At
<1>2. Inv /\ LiveInv /\ [Next]_vars => LiveInv'
  <2> SUFFICES ASSUME Inv, LiveInv, [Next]_vars, NEW k \in Jobs, At(k, "push")'
               PROVE  status'[k] \in {"pushing_kernel", "cancel_requested"}
    BY DEF LiveInv
  <2>1. ASSUME NEW j \in Jobs, JobStep(j)
        PROVE  status'[k] \in {"pushing_kernel", "cancel_requested"}
    <3>1. CASE k = j
      BY <2>1, <3>1, LiveJob
    <3>2. CASE k # j
      BY <2>1, <3>2, Locality DEF Inv, Others, LiveInv, At
    <3> QED
      BY <3>1, <3>2
  <2>2. CASE Dispatch
    BY <2>2 DEF Dispatch, DropItem, StartThread, LiveInv, At, Inv, TypeOK,
                durable, rows, stage, threads
  <2>3. CASE Crash
    BY <2>3 DEF Crash, At
  <2>4. CASE UNCHANGED vars
    BY <2>4 DEF vars, durable, rows, stage, volatile, threads, LiveInv, At
  <2> QED
    BY <2>1, <2>2, <2>3, <2>4 DEF Next, JobStep
<1> QED
  BY <1>1, <1>2, Invariance, PTL DEF Spec

-----------------------------------------------------------------------------
(* Each step of a job is a step of the contract *)

Sees(k) == <<Outcome[k], cancel[k], k \in early, uploads[k], pushes[k]>>

(* The kinds of steps of a job j, as its client sees them.                 *)
Quiet(j) == Sees(j)' = Sees(j)

Asks(j) ==
    /\ ~IsTerminal(j) /\ cancel'[j]
    /\ \/ pushes[j] = 0 /\ j \in early' /\ status'[j] \notin {"complete", "failed"}
       \/ (j \in early' <=> j \in early) /\ ~IsTerminal(j)'
    /\ uploads'[j] = uploads[j] /\ pushes'[j] = pushes[j]

Publishes(j) ==
    /\ uploads[j] = 0 /\ uploads'[j] = 1
    /\ status'[j] = status[j] /\ cancel'[j] = cancel[j] /\ (j \in early' <=> j \in early)
    /\ pushes'[j] = pushes[j]

Starts(j) ==
    /\ ~IsTerminal(j) /\ j \notin early /\ pushes[j] = 0 /\ pushes'[j] = 1 /\ Published(j)
    /\ status'[j] = status[j] /\ cancel'[j] = cancel[j] /\ (j \in early' <=> j \in early)
    /\ uploads'[j] = uploads[j]

Ends(j) ==
    /\ ~IsTerminal(j) /\ IsTerminal(j)'
    /\ status'[j] = "complete" => ~cancel[j] /\ (pushes[j] = 1 \/ j \in PriorRun)
    /\ status'[j] = "canceled" => cancel[j]
    /\ cancel'[j] = cancel[j] /\ (j \in early' <=> j \in early)
    /\ uploads'[j] = uploads[j] /\ pushes'[j] = pushes[j]

(* What a row, a cancel or a push leaves as it was.                        *)
Otherwise(j) ==
    /\ cancel'[j] = cancel[j] /\ (j \in early' <=> j \in early)
    /\ uploads'[j] = uploads[j] /\ pushes'[j] = pushes[j]

(* A step that changes only the row ends the job or shows nothing: the     *)
(* invariants after the step say how it may have ended.                    *)
LEMMA RowStep ==
    ASSUME Inv, Inv', RunInv', AskedInv', NEW j \in Jobs, JobStep(j), Otherwise(j)
    PROVE  Quiet(j) \/ Ends(j)
<1>1. IsTerminal(j) => status'[j] = status[j]
  BY TerminalStep
<1>2. status'[j] = "complete" => ~cancel'[j] /\ (j \notin PriorRun => pushes'[j] > 0)
  BY DEF Inv, JobInv, CancelInv, RunInv
<1>3. status'[j] = "canceled" => cancel'[j]
  BY DEF AskedInv, Canceling
<1>4. pushes'[j] \in Nat /\ pushes'[j] <= 1 /\ cancel'[j] \in BOOLEAN /\ cancel[j] \in BOOLEAN
  BY DEF Inv, TypeOK, JobInv, PushInv
<1>5. CASE IsTerminal(j) <=> IsTerminal(j)'
  BY <1>1, <1>5 DEF Otherwise, Quiet, Sees, Outcome, IsTerminal
<1>6. CASE ~(IsTerminal(j) <=> IsTerminal(j)')
  BY <1>1, <1>2, <1>3, <1>4, <1>6 DEF Otherwise, Ends, IsTerminal
<1> QED
  BY <1>5, <1>6

(* Only a cancel, an upload and a push do more than change the row.        *)
LEMMA JobView ==
    ASSUME Inv, Inv', DataInv, LiveInv, RunInv', AskedInv', NEW j \in Jobs, JobStep(j)
    PROVE  Quiet(j) \/ Asks(j) \/ Publishes(j) \/ Starts(j) \/ Ends(j)
<1> USE DEF Inv, TypeOK, Otherwise,
            stage, rows, threads, files, durable, volatile, kaggle
<1>1. CASE Cancel(j)
  <2>1. ~IsTerminal(j) /\ cancel'[j] /\ uploads' = uploads /\ pushes' = pushes
    BY <1>1 DEF Cancel, IsTerminal
  <2>2. CASE status[j] \in BeforePush
    <3>1. pushes[j] = 0 /\ j \in early'
      BY <1>1, <2>2 DEF Cancel, JobInv, PushInv
    <3>2. status'[j] \notin {"complete", "failed"}
      BY <1>1 DEF Cancel, UpdateRow
    <3> QED
      BY <2>1, <3>1, <3>2 DEF Asks
  <2>3. CASE status[j] \notin BeforePush
    <3>1. early' = early /\ status'[j] = "cancel_requested"
      BY <1>1, <2>3 DEF Cancel, BeforePush, UpdateRow
    <3> QED
      BY <2>1, <3>1 DEF Asks, IsTerminal, Terminal
  <2> QED
    BY <2>2, <2>3
<1>2. CASE Push(j)
  <2>1. Published(j)
    BY <1>2 DEF Push, At, DataInv
  <2>2. pushes[j] = 0 /\ j \notin early
    BY <1>2 DEF Push, At, JobInv, PushInv, PrePush, Locked, CancelInv
  <2>3. pushes'[j] = 1 /\ UNCHANGED <<status, cancel, early, uploads>>
    BY <1>2, <2>2 DEF Push
  <2>4. ~IsTerminal(j)
    BY <1>2 DEF Push, LiveInv, IsTerminal, Terminal
  <2> QED
    BY <2>1, <2>2, <2>3, <2>4 DEF Starts
<1>3. CASE ChildMutate(j)
  <2>1. uploads[j] = 0
    BY <1>3 DEF ChildMutate, JobInv, UploadInv
  <2>2. uploads' = uploads \/ uploads'[j] = 1
    BY <1>3, <2>1 DEF ChildMutate
  <2>3. UNCHANGED <<status, cancel, early, pushes>>
    BY <1>3 DEF ChildMutate, ChildFrame
  <2> QED
    BY <2>1, <2>2, <2>3 DEF Publishes, Quiet, Sees, Outcome, IsTerminal
<1>4. CASE ~Cancel(j) /\ ~Push(j) /\ ~ChildMutate(j)
  <2>1. Otherwise(j)
    BY <1>4 DEF JobStep, ThreadStep, Handler, Client, Tick, Submit, Monitor, Except,
     Child, Recover, AssemblyDone, AssemblyUndone, StartAssembly, ExpireUpload,
     Callback, ResumeKernel, RequestRecheck, ClaimRecheck, RecheckDue, RecheckSettled, Enter,
     OnlyThread, EnterFails, ToUploading, ThreadAndRow, UploadAgain, SpawnChild, CollectChild,
     KillChild, ToWaiting, WaitDataset, WaitDatasetStops, Verified, ToPush, PushFails,
     Pushed, Finish, PollProgress, WaitKernel, KernelUnavailable, MarkUnknown, Download,
     Package, FinishFails, HandleCanceled, HandleFailed, Retain, Schedule, ThreadDone,
     ChildCheck, ChildFrame, ChildRecord, OrphanExits, RecoverQueued, RecoverFrame,
     RecoverKernel, RecoverPushing, RecoverCanceled, RecoverDataset, RecoverAssembly, KernelEnds
  <2> QED
    BY <2>1, RowStep
<1> QED
  BY <1>1, <1>2, <1>3, <1>4

(* A step seen on one job only is a step of the contract.                  *)
LEMMA JobRefines ==
    ASSUME Inv, Inv', DataInv, LiveInv, RunInv', AskedInv', NEW j \in Jobs, JobStep(j)
    PROVE  [Contract!Next]_(Contract!view)
<1> USE DEF Inv, TypeOK
<1>1. ASSUME NEW k \in Jobs \ {j}
      PROVE  /\ Outcome'[k] = Outcome[k] /\ cancel'[k] = cancel[k]
             /\ (k \in early' <=> k \in early)
             /\ uploads'[k] = uploads[k] /\ pushes'[k] = pushes[k]
  BY Locality DEF Others, Outcome, IsTerminal
<1>2. /\ Outcome \in [Jobs -> {"open"} \cup Terminal] /\ Outcome' \in [Jobs -> {"open"} \cup Terminal]
      /\ (Outcome[j] = "open" <=> ~IsTerminal(j)) /\ (Outcome'[j] = "open" <=> ~IsTerminal(j)')
      /\ (IsTerminal(j)' => Outcome'[j] = status'[j])
  BY DEF Outcome, IsTerminal, Terminal
<1>3. /\ Asked \subseteq Jobs /\ Asked' \subseteq Jobs /\ early \subseteq Jobs /\ early' \subseteq Jobs
      /\ \A k \in Jobs : (k \in Asked <=> cancel[k]) /\ (k \in Asked' <=> cancel'[k])
  BY DEF Asked
<1>4. (cancel'[j] = cancel[j]) => Asked' = Asked
  BY <1>1, <1>3
<1>5. cancel'[j] => Asked' = Asked \cup {j}
  BY <1>1, <1>3, CancelStays
<1>6. ASSUME j \in early' <=> j \in early
      PROVE  early' = early
  <2>1. \A k \in Jobs : k \in early' <=> k \in early
    BY <1>1, <1>6
  <2> QED
    BY <1>3, <2>1
<1>7. (uploads'[j] = uploads[j] => uploads' = uploads) /\ (pushes'[j] = pushes[j] => pushes' = pushes)
  <2>1. /\ uploads \in [Jobs -> Nat] /\ uploads' \in [Jobs -> Nat]
        /\ pushes \in [Jobs -> Nat] /\ pushes' \in [Jobs -> Nat]
    OBVIOUS
  <2>2. uploads'[j] = uploads[j] => uploads' = uploads
    BY <1>1, <2>1
  <2>3. pushes'[j] = pushes[j] => pushes' = pushes
    BY <1>1, <2>1
  <2> QED
    BY <2>2, <2>3
<1>8. Outcome'[j] = Outcome[j] => Outcome' = Outcome
  BY <1>1, <1>2
<1>9. Outcome' = [Outcome EXCEPT ![j] = Outcome'[j]]
  BY <1>1, <1>2
<1>10. CASE Quiet(j)
  BY <1>4, <1>6, <1>7, <1>8, <1>10 DEF Quiet, Sees, Contract!view
<1>11. CASE Asks(j)
  <2>1. Outcome[j] = "open" /\ Asked' = Asked \cup {j} /\ uploads' = uploads /\ pushes' = pushes
    BY <1>2, <1>5, <1>7, <1>11 DEF Asks
  <2>2. CASE pushes[j] = 0 /\ j \in early' /\ status'[j] \notin {"complete", "failed"}
    <3>1. early' = early \cup {j}
      BY <1>1, <1>3, <2>2
    <3>2. Outcome'[j] \in {"open", "canceled"}
      BY <1>2, <2>2 DEF IsTerminal, Terminal
    <3>3. Outcome' = Outcome \/ Outcome' = [Outcome EXCEPT ![j] = "canceled"]
      BY <1>8, <1>9, <2>1, <3>2
    <3> QED
      BY <2>1, <2>2, <3>1, <3>3 DEF Contract!Next, Contract!Ask
  <2>3. CASE (j \in early' <=> j \in early) /\ ~IsTerminal(j)'
    BY <1>2, <1>6, <1>8, <2>1, <2>3 DEF Contract!Next, Contract!Ask
  <2> QED
    BY <1>11, <2>2, <2>3 DEF Asks
<1>12. CASE Publishes(j)
  <2>1. Outcome' = Outcome /\ Asked' = Asked /\ early' = early /\ pushes' = pushes
    BY <1>4, <1>6, <1>7, <1>8, <1>12 DEF Publishes, Outcome, IsTerminal
  <2>2. uploads' = [uploads EXCEPT ![j] = 1]
    BY <1>1, <1>12 DEF Publishes
  <2> QED
    BY <1>12, <2>1, <2>2 DEF Publishes, Contract!Next, Contract!Publish
<1>13. CASE Starts(j)
  <2>1. Outcome' = Outcome /\ Asked' = Asked /\ early' = early /\ uploads' = uploads
    BY <1>4, <1>6, <1>7, <1>8, <1>13 DEF Starts, Outcome, IsTerminal
  <2>2. pushes' = [pushes EXCEPT ![j] = 1]
    BY <1>1, <1>13 DEF Starts
  <2>3. \E k \in Jobs : DatasetOf[k] = DatasetOf[j] /\ uploads[k] = 1
    BY <1>13 DEF Starts, Published, JobInv, UploadInv
  <2> QED
    BY <1>2, <1>13, <2>1, <2>2, <2>3 DEF Starts, Contract!Next, Contract!Start
<1>14. CASE Ends(j)
  <2>1. Asked' = Asked /\ early' = early /\ uploads' = uploads /\ pushes' = pushes
    BY <1>4, <1>6, <1>7, <1>14 DEF Ends
  <2>2. Outcome[j] = "open" /\ Outcome'[j] \in Terminal /\ Outcome'[j] = status'[j]
    BY <1>2, <1>14 DEF Ends, IsTerminal
  <2>3. \/ j \notin Asked /\ (pushes[j] = 1 \/ j \in PriorRun) /\ Outcome'[j] = "complete"
        \/ j \in Asked /\ Outcome'[j] = "canceled"
        \/ Outcome'[j] = "failed"
    BY <1>3, <1>14, <2>2 DEF Ends, Terminal
  <2> QED
    BY <1>9, <2>1, <2>2, <2>3 DEF Contract!Next, Contract!End
<1> QED
  BY <1>10, <1>11, <1>12, <1>13, <1>14, JobView

(* Whatever crashes, races or is lost, the relay keeps its contract with   *)
(* the clients: JobLifecycle implements JobContract.                       *)
THEOREM ContractIsKept == Spec => KeepsContract
<1>1. Init => Contract!Init
  BY DEF Init, Contract!Init, Outcome, Asked, IsTerminal, Terminal
<1>2. /\ Inv /\ Inv' /\ DataInv /\ LiveInv /\ RunInv' /\ AskedInv' /\ [Next]_vars
      => [Contract!Next]_(Contract!view)
  <2> SUFFICES ASSUME Inv, Inv', DataInv, LiveInv, RunInv', AskedInv', [Next]_vars
               PROVE  [Contract!Next]_(Contract!view)
    OBVIOUS
  <2>1. ASSUME NEW j \in Jobs, JobStep(j) PROVE [Contract!Next]_(Contract!view)
    BY <2>1, JobRefines
  <2>2. CASE Dispatch \/ Crash \/ UNCHANGED vars
    BY <2>2 DEF Dispatch, DropItem, StartThread, Crash, vars, durable, rows, stage, kaggle,
                Contract!view, Outcome, Asked, IsTerminal
  <2> QED
    BY <2>1, <2>2 DEF Next, JobStep
<1> QED
  BY <1>1, <1>2, Invariance, DataInvariance, LiveInvariance, RunInvariance, AskedInvariance, PTL
     DEF Spec, KeepsContract, Contract!Spec

=============================================================================
