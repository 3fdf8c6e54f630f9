------------------------- MODULE AccountSlotsProofs -------------------------
(* Proofs of the account limits, for any number of jobs, accounts, slots   *)
(* and workers.                                                            *)
EXTENDS AccountSlots, FiniteSetTheorems, SequenceTheorems, TLAPS

(* Sets of jobs are finite, and smaller than the sets that contain them.   *)
LEMMA JobSets ==
    ASSUME NEW T \in SUBSET Jobs, NEW S \in SUBSET T
    PROVE  /\ IsFiniteSet(T) /\ Cardinality(T) \in Nat
           /\ IsFiniteSet(S) /\ Cardinality(S) \in Nat
           /\ Cardinality(S) <= Cardinality(T)
<1>1. IsFiniteSet(T)
  BY SlotsAssumption, FS_Subset
<1>2. IsFiniteSet(S) /\ Cardinality(S) <= Cardinality(T)
  BY <1>1, FS_Subset
<1> QED
  BY <1>1, <1>2, FS_CardinalityType

LEMMA InitInv == Init => Inv
<1> SUFFICES ASSUME Init PROVE Inv
  OBVIOUS
<1> USE SlotsAssumption DEF Init
<1>1. TypeOK
  BY DEF TypeOK, Status
<1>2. Assigned
  BY DEF Assigned
<1>3. NoLostWakeup
  BY DEF NoLostWakeup
<1>4. \A a : active \cap On(a) = {} /\ (active \ resumed) \cap On(a) = {}
  OBVIOUS
<1>5. SlotsExact /\ SubmissionLimit
  BY <1>4, FS_EmptySet DEF SlotsExact, SubmissionLimit
<1>6. \A a : Occupied(a) \cap Dynamic = {}
  BY DEF Occupied, Occupying, On
<1>7. DynamicLimit
  <2>1. Cardinality({}) = 0 /\ 0 <= Concurrency
    BY FS_EmptySet
  <2> QED
    BY <1>6, <2>1 DEF DynamicLimit
<1> QED
  BY <1>1, <1>2, <1>3, <1>5, <1>7 DEF Inv

-----------------------------------------------------------------------------
(* Types and assignment                                                    *)

(* Items of bound jobs stay items of bound jobs as more jobs are bound.    *)
LEMMA Monotone ==
    ASSUME TypeOK, bound \subseteq bound', NEW s \in Seq(BoundItem)
    PROVE  s \in Seq(BoundItem')
<1>1. BoundItem \subseteq BoundItem'
  BY DEF BoundItem
<1> QED
  BY <1>1, SeqMonotonic

(* The queue after a put.                                                  *)
LEMMA PutType ==
    ASSUME TypeOK, Assigned, bound \subseteq bound', NEW j \in bound', NEW x \in BOOLEAN, Put(j, x)
    PROVE  queue' \in Seq(BoundItem')
<1>1. queue \in Seq(BoundItem')
  BY Monotone DEF Assigned
<1>2. ItemOf(j, x) \in BoundItem'
  BY DEF ItemOf, BoundItem
<1>3. queue' = Append(queue, ItemOf(j, x))
  BY DEF Put
<1> QED
  BY <1>1, <1>2, <1>3

(* The head of a non-empty queue is an item of a bound job.                *)
LEMMA HeadType ==
    ASSUME TypeOK, Assigned, queue # <<>>
    PROVE  /\ Head(queue) \in BoundItem /\ Tail(queue) \in Seq(BoundItem)
           /\ Head(queue).job \in bound /\ Head(queue).job \in Jobs
           /\ Head(queue).resume \in BOOLEAN
           /\ account[Head(queue).job] \in Accounts
<1>1. queue \in Seq(BoundItem)
  BY DEF Assigned
<1>2. Head(queue) \in BoundItem /\ Tail(queue) \in Seq(BoundItem)
  BY <1>1, HeadTailProperties
<1> QED
  BY <1>2 DEF BoundItem, TypeOK

(* Items of bound jobs are items.                                          *)
LEMMA ItemTypes ==
    ASSUME NEW B \in SUBSET Jobs,
           NEW q \in Seq([job : B, resume : BOOLEAN]),
           NEW w \in [Accounts -> Seq([job : B, resume : BOOLEAN])]
    PROVE  q \in Seq(Item) /\ w \in [Accounts -> Seq(Item)]
<1>1. [job : B, resume : BOOLEAN] \subseteq Item
  BY DEF Item
<1>2. \A s \in Seq([job : B, resume : BOOLEAN]) : s \in Seq(Item)
  BY <1>1, SeqMonotonic
<1> QED
  BY <1>2

(* The items that recovery puts.                                           *)
LEMMA RecoveredType ==
    ASSUME TypeOK, Restart
    PROVE  queue' \in Seq(BoundItem)
<1>1. ASSUME NEW s, NEW x \in BOOLEAN, NEW q \in Recovered(s, x)
      PROVE  q \in Seq(BoundItem)
  <2> DEFINE T == {j \in bound : status'[j] = s}
  <2>1. PICK f \in Orders(T) : q = [i \in DOMAIN f |-> ItemOf(f[i], x)]
    BY <1>1 DEF Recovered
  <2>2. Cardinality(T) \in Nat
    BY JobSets DEF TypeOK
  <2>3. f \in [1..Cardinality(T) -> T]
    BY <2>1 DEF Orders
  <2>4. q \in [1..Cardinality(T) -> BoundItem]
    BY <2>1, <2>3 DEF ItemOf, BoundItem
  <2>5. PICK n \in Nat : n = Cardinality(T)
    BY <2>2
  <2>6. q \in [1..n -> BoundItem]
    BY <2>4, <2>5
  <2> HIDE DEF T
  <2> QED
    BY <2>6, SeqDef
<1>2. PICK first \in Recovered("kernel", TRUE), rest \in Recovered("queued", FALSE) :
          queue' = first \o rest
  BY DEF Restart
<1>3. first \in Seq(BoundItem) /\ rest \in Seq(BoundItem)
  BY <1>1, <1>2
<1> QED
  BY <1>2, <1>3, ConcatProperties

(* A step of one job, a handler or the scheduler that leaves accounts and  *)
(* slots alone.                                                            *)
LEMMA AssignedQuiet ==
    ASSUME Inv, NEW j \in Jobs,
           Handlers(j) \/ Recheck(j) \/ Unauthorized(j) \/ ThreadStep(j)
    PROVE  TypeOK' /\ Assigned'
<1> USE SlotsAssumption DEF Inv
<1>1. /\ UNCHANGED <<bound, account, waiting, active, slots, resumed>>
      /\ \E s \in Status \ {"receiving"} :
            /\ SetStatus(j, s)
            /\ j \notin bound => s \in {"queued", "ended"}
  BY DEF Handlers, Submit, Cancel, ResumeKernel, Recheck, Unauthorized, ThreadStep, Status, Assigned
<1>2. queue' = queue \/ (j \in bound /\ \E x \in BOOLEAN : Put(j, x))
  BY DEF Handlers, Submit, Cancel, ResumeKernel, Recheck, Unauthorized, ThreadStep, Awaiting, Assigned
<1>3. queue' \in Seq(BoundItem')
  BY <1>1, <1>2, PutType, Monotone DEF Assigned
<1>4. waiting' \in [Accounts -> Seq(BoundItem')]
  BY <1>1 DEF Assigned, BoundItem
<1>5. Assigned'
  BY <1>1, <1>3, <1>4 DEF Assigned, SetStatus, TypeOK
<1>6. queue' \in Seq(Item) /\ waiting' \in [Accounts -> Seq(Item)]
  BY <1>1, <1>5, ItemTypes DEF TypeOK, Assigned, BoundItem
<1> QED
  BY <1>1, <1>5, <1>6 DEF TypeOK, SetStatus

LEMMA AssignedBind ==
    ASSUME Inv, NEW j \in Jobs, Bind(j)
    PROVE  TypeOK' /\ Assigned'
<1> USE SlotsAssumption DEF Inv
<1>1. /\ bound' = bound \cup {j} /\ bound' \subseteq Jobs
      /\ Put(j, FALSE)
      /\ status[j] = "queued"
      /\ UNCHANGED <<status, waiting, active, slots, resumed>>
  BY DEF Bind, TypeOK
<1>2. account' \in [Jobs -> Accounts]
  BY DEF Bind, TypeOK
<1>3. queue' \in Seq(BoundItem')
  BY <1>1, PutType
<1>4. waiting' \in [Accounts -> Seq(BoundItem')]
  <2>1. ASSUME NEW a \in Accounts PROVE waiting[a] \in Seq(BoundItem')
    BY <1>1, Monotone DEF Assigned
  <2> QED
    BY <1>1, <2>1 DEF Assigned
<1>5. Assigned'
  BY <1>1, <1>3, <1>4 DEF Assigned
<1>6. queue' \in Seq(Item) /\ waiting' \in [Accounts -> Seq(Item)]
  BY <1>1, <1>5, ItemTypes DEF Assigned, BoundItem
<1> QED
  BY <1>1, <1>2, <1>5, <1>6 DEF TypeOK

LEMMA AssignedDispatch ==
    ASSUME Inv, Dispatch
    PROVE  TypeOK' /\ Assigned'
<1> USE SlotsAssumption DEF Inv
<1>1. /\ UNCHANGED durable
      /\ queue # <<>>
      /\ queue' = Tail(queue)
  BY DEF Dispatch, DropItem, ParkItem, StartItem, HasWork
<1> DEFINE i == Head(queue)
<1>2. /\ i \in BoundItem /\ queue' \in Seq(BoundItem)
      /\ i.job \in bound /\ i.job \in Jobs /\ account[i.job] \in Accounts
  BY <1>1, HeadType
<1>3. BoundItem' = BoundItem
  BY <1>1 DEF BoundItem, durable
<1>4. waiting' \in [Accounts -> Seq(BoundItem)]
  <2>1. CASE UNCHANGED waiting
    BY <2>1 DEF Assigned
  <2>2. CASE waiting' = [waiting EXCEPT ![account[i.job]] = Append(@, i)]
    <3>1. Append(waiting[account[i.job]], i) \in Seq(BoundItem)
      BY <1>2 DEF Assigned
    <3> QED
      BY <2>2, <3>1, <1>2 DEF Assigned
  <2> QED
    BY <2>1, <2>2 DEF Dispatch, DropItem, ParkItem, StartItem
<1>5. /\ active' \subseteq bound /\ active' \subseteq Jobs
      /\ slots' \in [Accounts -> Nat]
      /\ resumed' \subseteq active'
  <2>1. CASE UNCHANGED <<active, slots, resumed>>
    BY <2>1 DEF Assigned, TypeOK
  <2>2. CASE StartItem
    BY <2>2, <1>2 DEF StartItem, Assigned, TypeOK
  <2> QED
    BY <2>1, <2>2 DEF Dispatch, DropItem, ParkItem
<1>6. Assigned'
  BY <1>1, <1>2, <1>3, <1>4, <1>5 DEF Assigned, durable
<1>7. queue' \in Seq(Item) /\ waiting' \in [Accounts -> Seq(Item)]
  BY <1>1, <1>6, ItemTypes DEF durable, TypeOK, Assigned, BoundItem
<1> QED
  BY <1>1, <1>5, <1>6, <1>7 DEF TypeOK, durable

(* The account of a running thread holds a slot.                           *)
LEMMA SlotHeld ==
    ASSUME Inv, NEW j \in active
    PROVE  slots[account[j]] \in Nat \ {0} /\ account[j] \in Accounts /\ j \in Jobs
<1>1. j \in Jobs /\ account[j] \in Accounts
  BY DEF Inv, TypeOK
<1> DEFINE S == active \cap On(account[j])
<1>2. j \in S /\ S \in SUBSET Jobs
  BY <1>1 DEF On
<1>3. Cardinality(S) \in Nat /\ IsFiniteSet(S)
  BY <1>2, JobSets
<1>4. Cardinality(S) # 0
  BY <1>2, <1>3, FS_EmptySet
<1> QED
  BY <1>1, <1>3, <1>4 DEF Inv, SlotsExact

LEMMA AssignedEnd ==
    ASSUME Inv, NEW j \in Jobs, ThreadEnds(j)
    PROVE  TypeOK' /\ Assigned'
<1> USE SlotsAssumption DEF Inv
<1>1. /\ j \in active
      /\ UNCHANGED <<bound, account>>
      /\ \E s \in Status \ {"receiving"} : SetStatus(j, s)
      /\ active' = active \ {j} /\ resumed' = resumed \ {j}
      /\ slots' = [slots EXCEPT ![account[j]] = @ - 1]
      /\ queue' = queue \o waiting[account[j]]
      /\ waiting' = [waiting EXCEPT ![account[j]] = <<>>]
  BY DEF ThreadEnds, ReleaseSlot, Status
<1>2. slots' \in [Accounts -> Nat]
  BY <1>1, SlotHeld DEF TypeOK
<1>3. BoundItem' = BoundItem
  BY <1>1 DEF BoundItem
<1>4. queue' \in Seq(BoundItem)
  BY <1>1, SlotHeld, ConcatProperties DEF Assigned
<1>5. waiting' \in [Accounts -> Seq(BoundItem)]
  <2>1. <<>> \in Seq(BoundItem)
    OBVIOUS
  <2> QED
    BY <1>1, <2>1 DEF Assigned
<1>6. Assigned'
  BY <1>1, <1>3, <1>4, <1>5 DEF Assigned, SetStatus, TypeOK
<1>7. queue' \in Seq(Item) /\ waiting' \in [Accounts -> Seq(Item)]
  BY <1>1, <1>6, ItemTypes DEF TypeOK, Assigned, BoundItem
<1> QED
  BY <1>1, <1>2, <1>6, <1>7 DEF TypeOK, SetStatus

(* What recovery does to the status of a job.                              *)
LEMMA RestartStatus ==
    ASSUME Inv, Restart
    PROVE  /\ status' \in [Jobs -> Status]
           /\ \A j \in Jobs : status'[j] = "receiving" <=> status[j] = "receiving"
           /\ \A j \in Jobs : status[j] \in {"receiving", "queued", "ended"} => status'[j] = status[j]
<1>1. PICK to \in [Submitting -> {"queued", "kernel", "ended"}] :
         status' = [j \in Jobs |-> IF j \in Submitting THEN to[j] ELSE RecoveredStatus(status[j])]
  BY DEF Restart
<1>2. \A j \in Jobs : status[j] \in Status
  BY DEF Inv, TypeOK
<1>3. \A s \in Status : RecoveredStatus(s) \in Status
  BY DEF RecoveredStatus, Status
<1>4. \A s \in {"receiving", "queued", "ended"} : RecoveredStatus(s) = s
  BY DEF RecoveredStatus
<1>5. \A s \in Status \ {"receiving"} : RecoveredStatus(s) # "receiving"
  BY DEF RecoveredStatus
<1>6. \A j \in Submitting : to[j] \in Status \ {"receiving"} /\ status[j] = "submitting"
  BY <1>1 DEF Status, Submitting
<1> QED
  BY <1>1, <1>2, <1>3, <1>4, <1>5, <1>6

LEMMA AssignedRestart ==
    ASSUME Inv, Restart
    PROVE  TypeOK' /\ Assigned'
<1> USE SlotsAssumption DEF Inv
<1>1. /\ UNCHANGED <<bound, account>>
      /\ waiting' = [a \in Accounts |-> <<>>]
      /\ active' = {} /\ resumed' = {}
      /\ slots' = [a \in Accounts |-> 0]
  BY DEF Restart
<1>2. BoundItem' = BoundItem
  BY <1>1 DEF BoundItem
<1>3. queue' \in Seq(BoundItem)
  BY RecoveredType
<1>4. Assigned'
  <2>1. waiting' \in [Accounts -> Seq(BoundItem)]
    BY <1>1
  <2> QED
    BY <1>1, <1>2, <1>3, <2>1, RestartStatus DEF Assigned
<1>5. queue' \in Seq(Item) /\ waiting' \in [Accounts -> Seq(Item)]
  BY <1>1, <1>4, ItemTypes DEF TypeOK, Assigned, BoundItem
<1> QED
  BY <1>1, <1>4, <1>5, RestartStatus DEF TypeOK

-----------------------------------------------------------------------------
(* Slots and wakeups                                                       *)

Slots == SlotsExact /\ NoLostWakeup /\ SubmissionLimit

LEMMA SlotsQuiet ==
    ASSUME Inv, UNCHANGED <<account, waiting, active, slots, resumed>>
    PROVE  Slots'
BY DEF Inv, Slots, SlotsExact, NoLostWakeup, SubmissionLimit, On

(* Binding moves only a job that has no thread.                            *)
LEMMA SlotsBind ==
    ASSUME Inv, NEW j \in Jobs, Bind(j)
    PROVE  Slots'
<1>1. /\ j \notin active
      /\ UNCHANGED <<waiting, active, slots, resumed>>
      /\ active \subseteq Jobs
      /\ \A k \in Jobs \ {j} : account'[k] = account[k]
  BY DEF Bind, Awaiting, Inv, Assigned, TypeOK
<1>2. ASSUME NEW a PROVE active' \cap On(a)' = active \cap On(a)
  BY <1>1 DEF On
<1>3. ASSUME NEW a PROVE ((active \ resumed) \cap On(a))' = (active \ resumed) \cap On(a)
  BY <1>1 DEF On
<1> QED
  BY <1>1, <1>2, <1>3 DEF Slots, Inv, SlotsExact, NoLostWakeup, SubmissionLimit

(* An item is parked only while its account has running threads.           *)
LEMMA SlotsPark ==
    ASSUME Inv, ParkItem
    PROVE  Slots'
<1> DEFINE b == account[Head(queue).job]
<1>1. b \in Accounts
  BY HeadType DEF ParkItem, HasWork, Inv
<1>2. /\ slots[b] >= Concurrency
      /\ UNCHANGED <<account, active, slots, resumed>>
      /\ \A a \in Accounts \ {b} : waiting'[a] = waiting[a]
  BY <1>1 DEF ParkItem, MustWait, Full, durable, Inv, TypeOK
<1>3. slots[b] > 0
  BY <1>1, <1>2, SlotsAssumption DEF Inv, TypeOK
<1> QED
  BY <1>1, <1>2, <1>3 DEF Slots, Inv, SlotsExact, NoLostWakeup, SubmissionLimit, On

LEMMA SlotsStart ==
    ASSUME Inv, StartItem
    PROVE  Slots'
<1>0. PICK j \in Jobs : j = Head(queue).job
  BY HeadType DEF StartItem, HasWork, Inv
<1>1. /\ account[j] \in Accounts
      /\ j \notin active
      /\ UNCHANGED <<account, waiting>>
      /\ active' = active \cup {j}
      /\ slots' = [slots EXCEPT ![account[j]] = @ + 1]
  BY <1>0 DEF StartItem, Stale, durable, Inv, TypeOK
<1>2. \/ resumed' = resumed \cup {j}
      \/ resumed' = resumed /\ ~(slots[account[j]] >= Concurrency)
  BY <1>0 DEF StartItem, MustWait, Full
<1>3. active \subseteq Jobs /\ resumed \subseteq active /\ slots \in [Accounts -> Nat]
  BY DEF Inv, TypeOK
<1>4. ASSUME NEW a \in Accounts
      PROVE  /\ slots'[a] = Cardinality((active \cap On(a))')
             /\ waiting'[a] # <<>> => slots'[a] > 0
             /\ Cardinality(((active \ resumed) \cap On(a))') <= Concurrency
  <2> DEFINE S == active \cap On(a)
             N == (active \ resumed) \cap On(a)
  <2>1. /\ IsFiniteSet(S) /\ IsFiniteSet(N)
        /\ Cardinality(S) \in Nat /\ Cardinality(N) \in Nat
        /\ Cardinality(N) <= Cardinality(S)
    <3>1. S \in SUBSET Jobs /\ N \in SUBSET S
      BY <1>3
    <3> QED
      BY <3>1, JobSets
  <2>2. /\ slots[a] = Cardinality(S) /\ Cardinality(N) <= Concurrency
        /\ waiting[a] # <<>> => slots[a] > 0
    BY DEF Inv, SlotsExact, SubmissionLimit, NoLostWakeup
  <2>3. CASE a # account[j]
    <3>1. (active \cap On(a))' = S /\ ((active \ resumed) \cap On(a))' = N
      BY <1>1, <1>2, <2>3 DEF On
    <3>2. slots'[a] = slots[a] /\ waiting'[a] = waiting[a]
      BY <1>1, <1>3, <2>3
    <3> QED
      BY <2>2, <3>1, <3>2
  <2>4. CASE a = account[j]
    <3>1. (active \cap On(a))' = S \cup {j} /\ j \notin S /\ j \notin N
      BY <1>1, <2>4 DEF On
    <3>2. Cardinality(S \cup {j}) = Cardinality(S) + 1
      BY <2>1, <3>1, FS_AddElement
    <3>3. slots'[a] = slots[a] + 1 /\ slots'[a] > 0
      BY <1>1, <1>3, <2>1, <2>2, <2>4
    <3>4. Cardinality(((active \ resumed) \cap On(a))') <= Concurrency
      <4>1. CASE resumed' = resumed \cup {j}
        <5>1. ((active \ resumed) \cap On(a))' = N
          BY <1>1, <4>1, <3>1, <1>3 DEF On
        <5> QED
          BY <5>1, <2>2
      <4>2. CASE resumed' = resumed /\ ~(slots[account[j]] >= Concurrency)
        <5>1. ((active \ resumed) \cap On(a))' = N \cup {j}
          BY <1>1, <4>2, <2>4, <1>3 DEF On
        <5>2. Cardinality(N \cup {j}) = Cardinality(N) + 1
          BY <2>1, <3>1, FS_AddElement
        <5> QED
          <6>1. ~(Cardinality(S) >= Concurrency) /\ Concurrency \in Nat
            BY <4>2, <2>4, <2>2, SlotsAssumption
          <6> HIDE DEF S, N
          <6>2. Cardinality(N) + 1 <= Concurrency
            BY <6>1, <2>1
          <6> QED
            BY <5>1, <5>2, <6>2
      <4> QED
        BY <4>1, <4>2, <1>2
    <3> QED
      BY <2>2, <3>1, <3>2, <3>3, <3>4
  <2> QED
    BY <2>3, <2>4
<1> QED
  BY <1>4 DEF Slots, SlotsExact, NoLostWakeup, SubmissionLimit

LEMMA SlotsEnd ==
    ASSUME Inv, NEW j \in Jobs, ThreadEnds(j)
    PROVE  Slots'
<1>1. /\ j \in active
      /\ UNCHANGED account
      /\ active' = active \ {j} /\ resumed' = resumed \ {j}
      /\ slots' = [slots EXCEPT ![account[j]] = @ - 1]
      /\ waiting' = [waiting EXCEPT ![account[j]] = <<>>]
  BY DEF ThreadEnds, ReleaseSlot
<1>2. /\ active \subseteq Jobs /\ slots \in [Accounts -> Nat]
      /\ \E X : waiting \in [Accounts -> X]
  BY DEF Inv, TypeOK
<1>3. ASSUME NEW a \in Accounts
      PROVE  /\ slots'[a] = Cardinality((active \cap On(a))')
             /\ waiting'[a] # <<>> => slots'[a] > 0
             /\ Cardinality(((active \ resumed) \cap On(a))') <= Concurrency
  <2> DEFINE S == active \cap On(a)
             N == (active \ resumed) \cap On(a)
  <2>1. /\ IsFiniteSet(S) /\ Cardinality(S) \in Nat
    BY <1>2, JobSets
  <2>2. /\ slots[a] = Cardinality(S) /\ Cardinality(N) <= Concurrency
        /\ waiting[a] # <<>> => slots[a] > 0
    BY DEF Inv, SlotsExact, SubmissionLimit, NoLostWakeup
  <2>3. Cardinality(((active \ resumed) \cap On(a))') <= Concurrency
    <3>1. PICK R : R = ((active \ resumed) \cap On(a))'
      OBVIOUS
    <3>2. N \in SUBSET Jobs /\ R \in SUBSET N
      BY <1>1, <1>2, <3>1 DEF On
    <3>3. Cardinality(N) \in Nat /\ Cardinality(R) \in Nat /\ Cardinality(R) <= Cardinality(N)
      BY <3>2, JobSets
    <3> QED
      BY <3>1, <3>3, <2>2, SlotsAssumption
  <2>4. CASE a # account[j]
    <3>1. (active \cap On(a))' = S
      BY <1>1, <2>4 DEF On
    <3>2. slots'[a] = slots[a] /\ waiting'[a] = waiting[a]
      BY <1>1, <1>2, <2>4
    <3> QED
      BY <2>2, <2>3, <3>1, <3>2
  <2>5. CASE a = account[j]
    <3>1. (active \cap On(a))' = S \ {j} /\ j \in S
      BY <1>1, <2>5 DEF On
    <3>2. Cardinality(S \ {j}) = Cardinality(S) - 1
      BY <2>1, <3>1, FS_RemoveElement
    <3>3. slots'[a] = slots[a] - 1 /\ waiting'[a] = <<>>
      BY <1>1, <1>2, <2>5
    <3> QED
      BY <2>2, <2>3, <3>1, <3>2, <3>3
  <2> QED
    BY <2>4, <2>5
<1> QED
  BY <1>3 DEF Slots, SlotsExact, NoLostWakeup, SubmissionLimit

LEMMA SlotsRestart ==
    ASSUME Restart
    PROVE  Slots'
<1>1. /\ waiting' = [a \in Accounts |-> <<>>]
      /\ active' = {} /\ slots' = [a \in Accounts |-> 0]
  BY DEF Restart
<1>2. ASSUME NEW a
      PROVE  (active \cap On(a))' = {} /\ ((active \ resumed) \cap On(a))' = {}
  BY <1>1
<1> QED
  BY <1>1, <1>2, FS_EmptySet, SlotsAssumption
  DEF Slots, SlotsExact, NoLostWakeup, SubmissionLimit

-----------------------------------------------------------------------------
(* What the scheduler gives an account                                     *)

Held(a) == Occupied(a) \cap Dynamic

(* A step that adds no dynamic job to an account keeps the limit.          *)
LEMMA HeldShrinks ==
    ASSUME Inv, \A a \in Accounts : Held(a)' \subseteq Held(a)
    PROVE  DynamicLimit'
<1>1. ASSUME NEW a \in Accounts PROVE Cardinality(Held(a)') <= Concurrency
  <2>1. PICK R : R = Held(a)'
    OBVIOUS
  <2>2. R \in SUBSET Held(a) /\ Held(a) \in SUBSET Jobs
    BY <2>1 DEF Held, Occupied, On
  <2>3. Cardinality(R) \in Nat /\ Cardinality(Held(a)) \in Nat /\ Cardinality(R) <= Cardinality(Held(a))
    BY <2>2, JobSets
  <2>4. Cardinality(Held(a)) <= Concurrency
    BY DEF Inv, DynamicLimit, Held
  <2> QED
    BY <2>1, <2>3, <2>4, SlotsAssumption
<1> QED
  BY <1>1 DEF DynamicLimit, Held

(* No job but a new one enters the occupying statuses.                     *)
LEMMA DynamicQuiet ==
    ASSUME Inv, UNCHANGED <<bound, account>>,
           \A j \in Jobs : status'[j] \in Occupying =>
                 status[j] \in Occupying \/ status[j] = "receiving"
    PROVE  DynamicLimit'
<1>1. ASSUME NEW a \in Accounts PROVE Held(a)' \subseteq Held(a)
  BY DEF Held, Occupied, On, Awaiting, Inv, Assigned
<1> QED
  BY <1>1, HeldShrinks

LEMMA DynamicStatus ==
    ASSUME Inv, NEW j \in Jobs, Handlers(j) \/ Recheck(j) \/ Unauthorized(j) \/ Thread(j)
    PROVE  DynamicLimit'
<1>1. /\ UNCHANGED <<bound, account>>
      /\ \E s \in Status : SetStatus(j, s) /\ (s = "ended" \/ status[j] # "ended")
  BY DEF Handlers, Submit, Cancel, ResumeKernel, Recheck, Unauthorized, Thread, ThreadStep,
         ThreadEnds, Status
<1>2. \A k \in Jobs : status'[k] \in Occupying =>
                 status[k] \in Occupying \/ status[k] = "receiving"
  BY <1>1 DEF SetStatus, Inv, TypeOK, Occupying
<1> QED
  BY <1>1, <1>2, DynamicQuiet

(* The account a job is bound to had a free slot.                          *)
LEMMA DynamicBind ==
    ASSUME Inv, NEW j \in Jobs, Bind(j)
    PROVE  DynamicLimit'
<1>1. PICK b \in Accounts : /\ Cardinality(Occupied(b)) < Concurrency
                            /\ account' = [account EXCEPT ![j] = b]
  BY SlotsAssumption DEF Bind
<1>2. bound' = bound \cup {j} /\ j \notin bound /\ UNCHANGED status
  BY DEF Bind, Awaiting
<1>3. ASSUME NEW a \in Accounts PROVE Cardinality(Held(a)') <= Concurrency
  <2>1. PICK R : R = Held(a)'
    OBVIOUS
  <2>2. Held(a) \in SUBSET Occupied(a) /\ Occupied(a) \in SUBSET Jobs
    BY DEF Held, Occupied, On
  <2>3. /\ IsFiniteSet(Held(a)) /\ Cardinality(Held(a)) \in Nat
        /\ Cardinality(Occupied(a)) \in Nat
        /\ Cardinality(Held(a)) <= Cardinality(Occupied(a))
    BY <2>2, JobSets
  <2>4. Cardinality(Held(a)) <= Concurrency
    BY DEF Inv, DynamicLimit, Held
  <2>5. CASE a # b
    <3>1. R \in SUBSET Held(a) /\ Held(a) \in SUBSET Jobs
      BY <1>1, <1>2, <2>1, <2>5 DEF Held, Occupied, On, Awaiting, Inv, TypeOK
    <3>2. Cardinality(R) \in Nat /\ Cardinality(R) <= Cardinality(Held(a))
      BY <3>1, JobSets
    <3> QED
      BY <2>1, <2>3, <2>4, <3>2, SlotsAssumption
  <2>6. CASE a = b
    <3>1. R \in SUBSET (Held(a) \cup {j}) /\ (Held(a) \cup {j}) \in SUBSET Jobs
      BY <1>1, <1>2, <2>1, <2>6 DEF Held, Occupied, On, Awaiting, Inv, TypeOK
    <3>2. Cardinality(R) \in Nat /\ Cardinality(R) <= Cardinality(Held(a) \cup {j})
      BY <3>1, JobSets
    <3>3. Cardinality(Held(a) \cup {j}) <= Cardinality(Held(a)) + 1
      <4>1. PICK H : H = Held(a)
        OBVIOUS
      <4>2. Cardinality(H \cup {j}) \in {Cardinality(H), Cardinality(H) + 1}
        BY <2>3, <4>1, FS_AddElement
      <4> QED
        BY <2>3, <4>1, <4>2
    <3>4. Cardinality(Held(a)) + 1 <= Concurrency
      BY <1>1, <2>3, <2>6, SlotsAssumption
    <3>5. Cardinality(Held(a) \cup {j}) \in Nat
      BY <3>1, JobSets
    <3> QED
      BY <2>1, <2>3, <3>2, <3>3, <3>4, <3>5, SlotsAssumption
  <2> QED
    BY <2>5, <2>6
<1> QED
  BY <1>3 DEF DynamicLimit, Held

-----------------------------------------------------------------------------
(* The theorems                                                            *)

LEMMA StepInv == Inv /\ [Next]_vars => Inv'
<1> SUFFICES ASSUME Inv, [Next]_vars PROVE Inv'
  OBVIOUS
<1>1. ASSUME NEW j \in Jobs, Handlers(j) \/ Recheck(j) \/ Unauthorized(j) \/ ThreadStep(j)
      PROVE  Inv'
  <2>1. TypeOK' /\ Assigned'
    BY <1>1, AssignedQuiet
  <2>2. UNCHANGED <<account, waiting, active, slots, resumed>>
    BY <1>1 DEF Handlers, Submit, Cancel, ResumeKernel, Recheck, Unauthorized, ThreadStep
  <2>3. Slots'
    BY <2>2, SlotsQuiet
  <2>4. DynamicLimit'
    BY <1>1, DynamicStatus DEF Thread
  <2> QED
    BY <2>1, <2>3, <2>4 DEF Inv, Slots
<1>2. ASSUME NEW j \in Jobs, Bind(j) PROVE Inv'
  BY <1>2, AssignedBind, SlotsBind, DynamicBind DEF Inv, Slots
<1>3. ASSUME NEW j \in Jobs, ThreadEnds(j) PROVE Inv'
  BY <1>3, AssignedEnd, SlotsEnd, DynamicStatus DEF Inv, Slots, Thread
<1>4. CASE Dispatch
  <2>1. TypeOK' /\ Assigned'
    BY <1>4, AssignedDispatch
  <2>2. Slots'
    <3>1. CASE DropItem
      <4>1. UNCHANGED <<account, waiting, active, slots, resumed>>
        BY <3>1 DEF DropItem, durable
      <4> QED
        BY <4>1, SlotsQuiet
    <3> QED
      BY <1>4, <3>1, SlotsPark, SlotsStart DEF Dispatch
  <2>3. UNCHANGED <<status, bound, account>>
    BY <1>4 DEF Dispatch, DropItem, ParkItem, StartItem, durable
  <2>4. DynamicLimit'
    BY <2>3, DynamicQuiet
  <2> QED
    BY <2>1, <2>2, <2>4 DEF Inv, Slots
<1>5. CASE Restart
  <2>1. UNCHANGED <<bound, account>>
    BY <1>5 DEF Restart
  <2>2. \A j \in Jobs : status'[j] \in Occupying =>
                 status[j] \in Occupying \/ status[j] = "receiving"
    BY <1>5, RestartStatus DEF Occupying, Inv, TypeOK
  <2>3. DynamicLimit'
    BY <2>1, <2>2, DynamicQuiet
  <2> QED
    BY <1>5, <2>3, AssignedRestart, SlotsRestart DEF Inv, Slots
<1>6. CASE UNCHANGED vars
  BY <1>6 DEF vars, durable, Inv, TypeOK, Assigned, BoundItem, SlotsExact, NoLostWakeup,
              SubmissionLimit, DynamicLimit, Occupied, Awaiting, On
<1> QED
  BY <1>1, <1>2, <1>3, <1>4, <1>5, <1>6 DEF Next, Scheduler, Thread

(* The relay's bookkeeping of accounts: Inv holds of every behaviour of    *)
(* worker_loop and the scheduler.                                          *)
THEOREM Invariance == Spec => []Inv
BY InitInv, StepInv, PTL DEF Spec

(* The queue, the parked items and the slot counters keep their types: no  *)
(* counter goes below zero on any way a thread or the relay ends.          *)
THEOREM TypeCorrect == Spec => []TypeOK
BY Invariance, PTL DEF Inv

(* active_accounts counts the running threads of each account exactly, on  *)
(* every path of worker_loop.                                              *)
THEOREM SlotsAreExact == Spec => []SlotsExact
BY Invariance, PTL DEF Inv

(* An item in account_pending always has a running thread of its account   *)
(* whose end requeues it.                                                  *)
THEOREM WakeupsAreKept == Spec => []NoLostWakeup
BY Invariance, PTL DEF Inv

(* worker_loop starts no new submission beyond the account's concurrency.  *)
THEOREM SubmissionsLimited == Spec => []SubmissionLimit
BY Invariance, PTL DEF Inv

(* schedule_pending_jobs never binds more dynamic jobs to an account than  *)
(* it may run, although it awaits quotas between counting and binding.     *)
THEOREM DynamicJobsLimited == Spec => []DynamicLimit
BY Invariance, PTL DEF Inv

-----------------------------------------------------------------------------
(* Where the items are                                                     *)

(* The items of a queue have its items' type.                              *)
LEMMA ItemsIn ==
    ASSUME NEW S, NEW s \in Seq(S), NEW i \in Items(s)
    PROVE  i \in S
BY ElementOfSeq DEF Items

(* An item at the end of a queue, at its head, and a queue behind another. *)
LEMMA ItemsAppend ==
    ASSUME NEW s \in Seq(Item), NEW i \in Item
    PROVE  /\ Items(Append(s, i)) = Items(s) \cup {i}
           /\ NoRepeat(s) /\ i.job \notin JobsIn(s) => NoRepeat(Append(s, i))
<1> DEFINE t == Append(s, i)
<1>1. /\ Len(t) = Len(s) + 1 /\ Len(s) \in Nat /\ t[Len(s) + 1] = i
      /\ \A x \in 1..Len(s) : t[x] = s[x]
  OBVIOUS
<1> HIDE DEF t
<1>2. Items(t) = Items(s) \cup {i}
  BY <1>1 DEF Items
<1>3. ASSUME NoRepeat(s), i.job \notin JobsIn(s), NEW x \in 1..Len(t), NEW y \in 1..Len(t),
             t[x].job = t[y].job
      PROVE  x = y
  <2>1. \A z \in 1..Len(s) : s[z].job # i.job
    BY <1>3 DEF JobsIn, Items
  <2>2. x \in 1..Len(s) \/ x = Len(s) + 1
    BY <1>1
  <2>3. y \in 1..Len(s) \/ y = Len(s) + 1
    BY <1>1
  <2> QED
    BY <1>1, <1>3, <2>1, <2>2, <2>3 DEF NoRepeat
<1> QED
  BY <1>2, <1>3 DEF NoRepeat, t

LEMMA ItemsTail ==
    ASSUME NEW s \in Seq(Item), s # <<>>, NoRepeat(s)
    PROVE  /\ Items(s) = Items(Tail(s)) \cup {Head(s)}
           /\ NoRepeat(Tail(s)) /\ Head(s).job \notin JobsIn(Tail(s))
<1> DEFINE t == Tail(s)
<1>1. /\ Len(t) = Len(s) - 1 /\ Len(s) \in Nat \ {0} /\ Head(s) = s[1]
      /\ \A x \in 1..Len(t) : t[x] = s[x + 1]
  BY HeadTailProperties, EmptySeq
<1> HIDE DEF t
<1>2. Items(s) = Items(t) \cup {Head(s)}
  <2>1. ASSUME NEW x \in 1..Len(s) PROVE s[x] \in Items(t) \cup {Head(s)}
    <3>1. CASE x = 1
      BY <3>1, <1>1
    <3>2. CASE x # 1
      <4>1. x - 1 \in 1..Len(t) /\ t[x - 1] = s[x]
        BY <3>2, <1>1
      <4> QED
        BY <4>1 DEF Items
    <3> QED
      BY <3>1, <3>2
  <2>2. ASSUME NEW x \in 1..Len(t) PROVE t[x] \in Items(s)
    <3>1. x + 1 \in 1..Len(s) /\ t[x] = s[x + 1]
      BY <1>1
    <3> QED
      BY <3>1 DEF Items
  <2>3. Head(s) \in Items(s)
    BY <1>1 DEF Items
  <2> QED
    BY <2>1, <2>2, <2>3 DEF Items
<1>3. NoRepeat(t)
  <2> SUFFICES ASSUME NEW x \in 1..Len(t), NEW y \in 1..Len(t), t[x].job = t[y].job
               PROVE  x = y
    BY DEF NoRepeat
  <2>1. x + 1 \in 1..Len(s) /\ y + 1 \in 1..Len(s) /\ s[x + 1].job = s[y + 1].job
    BY <1>1
  <2>2. x + 1 = y + 1
    BY <2>1 DEF NoRepeat
  <2> QED
    BY <2>2
<1>4. ASSUME NEW x \in 1..Len(t), t[x].job = Head(s).job PROVE FALSE
  <2>1. x + 1 \in 1..Len(s) /\ 1 \in 1..Len(s) /\ s[x + 1].job = s[1].job
    BY <1>1, <1>4
  <2>2. x + 1 = 1
    BY <2>1 DEF NoRepeat
  <2> QED
    BY <2>2
<1> QED
  BY <1>2, <1>3, <1>4 DEF JobsIn, Items, t

LEMMA ItemsConcat ==
    ASSUME NEW s \in Seq(Item), NEW t \in Seq(Item)
    PROVE  /\ Items(s \o t) = Items(s) \cup Items(t)
           /\ NoRepeat(s) /\ NoRepeat(t) /\ JobsIn(s) \cap JobsIn(t) = {} => NoRepeat(s \o t)
<1> DEFINE u == s \o t
<1>1. /\ Len(u) = Len(s) + Len(t) /\ Len(s) \in Nat /\ Len(t) \in Nat
      /\ \A x \in 1..Len(u) : u[x] = IF x <= Len(s) THEN s[x] ELSE t[x - Len(s)]
  BY ConcatProperties
<1> HIDE DEF u
<1>2. ASSUME NEW x \in 1..Len(u)
      PROVE  \/ x \in 1..Len(s) /\ u[x] = s[x]
             \/ x - Len(s) \in 1..Len(t) /\ u[x] = t[x - Len(s)]
  BY <1>1
<1>3. ASSUME NEW x \in 1..Len(s) PROVE x \in 1..Len(u) /\ u[x] = s[x]
  BY <1>1
<1>4. ASSUME NEW x \in 1..Len(t) PROVE x + Len(s) \in 1..Len(u) /\ u[x + Len(s)] = t[x]
  BY <1>1
<1>5. Items(u) = Items(s) \cup Items(t)
  <2>1. ASSUME NEW i \in Items(u) PROVE i \in Items(s) \cup Items(t)
    BY <1>2 DEF Items
  <2>2. ASSUME NEW i \in Items(s) PROVE i \in Items(u)
    BY <1>3 DEF Items
  <2>3. ASSUME NEW i \in Items(t) PROVE i \in Items(u)
    BY <1>4 DEF Items
  <2> QED
    BY <2>1, <2>2, <2>3
<1>6. ASSUME NoRepeat(s), NoRepeat(t), JobsIn(s) \cap JobsIn(t) = {},
             NEW x \in 1..Len(u), NEW y \in 1..Len(u), u[x].job = u[y].job
      PROVE  x = y
  <2>1. \A z \in 1..Len(s), w \in 1..Len(t) : s[z].job # t[w].job
    BY <1>6 DEF JobsIn, Items
  <2>2. CASE x \in 1..Len(s) /\ u[x] = s[x]
    BY <1>2, <1>6, <2>1, <2>2 DEF NoRepeat
  <2>3. CASE x - Len(s) \in 1..Len(t) /\ u[x] = t[x - Len(s)]
    <3>1. y - Len(s) \in 1..Len(t) /\ u[y] = t[y - Len(s)]
      BY <1>2, <1>6, <2>1, <2>3
    <3>2. x - Len(s) = y - Len(s)
      BY <1>6, <2>3, <3>1 DEF NoRepeat
    <3> QED
      BY <3>2, <1>1
  <2> QED
    BY <1>2, <2>2, <2>3
<1> QED
  BY <1>5, <1>6 DEF NoRepeat, u

(* A queue in which no job repeats has one item of a job or none.          *)
LEMMA OneMatch ==
    ASSUME NEW s \in Seq(Item), NoRepeat(s), NEW j
    PROVE  Cardinality({x \in 1..Len(s) : s[x].job = j}) = IF j \in JobsIn(s) THEN 1 ELSE 0
<1> DEFINE M == {x \in 1..Len(s) : s[x].job = j}
<1>1. CASE j \in JobsIn(s)
  <2>1. PICK x \in 1..Len(s) : s[x].job = j
    BY <1>1 DEF JobsIn, Items
  <2>2. M = {x}
    BY <2>1 DEF NoRepeat
  <2> QED
    BY <1>1, <2>2, FS_Singleton
<1>2. CASE j \notin JobsIn(s)
  <2>1. M = {}
    BY <1>2 DEF JobsIn, Items
  <2> QED
    BY <1>2, <2>1, FS_EmptySet
<1> QED
  BY <1>1, <1>2

(* Placed is what OnePlace counts.                                         *)
LEMMA PlacedCounts ==
    ASSUME Inv, Placed
    PROVE  OnePlace
<1> SUFFICES ASSUME NEW j \in bound, status[j] = "queued"
             PROVE  Cardinality(InQueue(j)) + Cardinality(InWaiting(j))
                       + (IF j \in active THEN 1 ELSE 0) = 1
  BY DEF OnePlace
<1> DEFINE a == account[j]
<1>1. a \in Accounts /\ queue \in Seq(Item) /\ waiting[a] \in Seq(Item)
  BY DEF Inv, TypeOK
<1>2. NoRepeat(queue) /\ NoRepeat(waiting[a])
  BY <1>1 DEF Placed, QueueOK, WaitingOK
<1>3. Cardinality(InQueue(j)) = IF j \in JobsIn(queue) THEN 1 ELSE 0
  BY <1>1, <1>2, OneMatch DEF InQueue
<1>4. Cardinality(InWaiting(j)) = IF j \in JobsIn(waiting[a]) THEN 1 ELSE 0
  BY <1>1, <1>2, OneMatch DEF InWaiting
<1>5. j \in active \/ j \in JobsIn(queue) \/ j \in JobsIn(waiting[a])
  BY DEF Placed, Owned, Known
<1>6. ~(j \in JobsIn(queue) /\ j \in JobsIn(waiting[a]))
  BY <1>1 DEF Placed, WaitingOK
<1>7. ~(j \in JobsIn(queue) /\ j \in active) /\ ~(j \in JobsIn(waiting[a]) /\ j \in active)
  BY <1>1 DEF Placed, QueueOK, WaitingOK, Pending, JobsIn
<1> QED
  BY <1>3, <1>4, <1>5, <1>6, <1>7

(* Only bound jobs that are to run, or were canceled, have items.          *)
LEMMA NoItem ==
    ASSUME Inv, Placed, NEW j,
           j \notin bound \/ status[j] \notin {"queued", "kernel", "ended"} \/ j \in active
    PROVE  /\ j \notin JobsIn(queue)
           /\ \A a \in Accounts : j \notin JobsIn(waiting[a])
<1>1. ASSUME NEW s \in Seq(BoundItem), NEW i \in Items(s) PROVE i.job \in bound
  <2>1. i \in BoundItem
    BY <1>1, ItemsIn
  <2> QED
    BY <2>1 DEF BoundItem
<1>2. ASSUME NEW i, Pending(i), i.job = j PROVE status[j] \in {"queued", "kernel", "ended"} /\ j \notin active
  BY <1>2 DEF Pending
<1>3. \A i \in Items(queue) : i.job \in bound /\ Pending(i)
  BY <1>1 DEF Inv, Assigned, Placed, QueueOK
<1>4. \A a \in Accounts : \A i \in Items(waiting[a]) : i.job \in bound /\ Pending(i)
  BY <1>1 DEF Inv, Assigned, Placed, WaitingOK
<1> QED
  BY <1>2, <1>3, <1>4 DEF JobsIn

(* A new status keeps the items of the job useful and the job owned.       *)
LEMMA PlacedStatus ==
    ASSUME Inv, Placed, NEW j \in Jobs, NEW s, SetStatus(j, s),
           UNCHANGED <<bound, account, queue, waiting, active>>,
           \A i : i.job = j /\ Pending(i) => Pending(i)',
           j \in bound /\ s \in {"queued", "kernel"} => Known(j),
           s = "submitting" => j \in active,
           j \in active => s \in {"queued", "submitting", "kernel", "ended"}
    PROVE  Placed'
<1>1. status'[j] = s /\ \A k \in Jobs \ {j} : status'[k] = status[k]
  BY DEF SetStatus, Inv, TypeOK
<1>2. ASSUME NEW q \in Seq(Item), NEW i \in Items(q), Pending(i) PROVE Pending(i)'
  <2>0. i \in Item
    BY <1>2, ItemsIn
  <2>1. i.job \in Jobs
    BY <2>0 DEF Item
  <2>2. CASE i.job # j
    BY <1>1, <1>2, <2>1, <2>2 DEF Pending
  <2> QED
    BY <1>2, <2>2
<1>3. QueueOK'
  BY <1>2 DEF Inv, TypeOK, Placed, QueueOK
<1>4. WaitingOK'
  BY <1>2 DEF Inv, TypeOK, Placed, WaitingOK
<1>5. Owned'
  BY <1>1 DEF Inv, TypeOK, Placed, Owned, Known
<1> QED
  BY <1>3, <1>4, <1>5 DEF Placed

(* An item is put for a job that has none.                                 *)
LEMMA PlacedPut ==
    ASSUME Inv, Placed, NEW j \in Jobs, NEW x \in BOOLEAN, Put(j, x),
           UNCHANGED <<waiting, active>>,
           bound' \subseteq bound \cup {j},
           \A k \in Jobs \ {j} : status'[k] = status[k] /\ account'[k] = account[k],
           status'[j] = IF x THEN "kernel" ELSE "queued",
           j \notin active, j \notin JobsIn(queue),
           \A a \in Accounts : j \notin JobsIn(waiting[a])
    PROVE  Placed'
<1> DEFINE i == ItemOf(j, x)
<1>1. i \in Item /\ i.job = j /\ i.resume = x
  BY DEF ItemOf, Item
<1>2. queue' = Append(queue, i) /\ queue \in Seq(Item)
  BY DEF Put, Inv, TypeOK
<1> HIDE DEF i
<1>3. Items(queue') = Items(queue) \cup {i} /\ NoRepeat(queue')
  BY <1>1, <1>2, ItemsAppend DEF Placed, QueueOK
<1>4. JobsIn(queue') = JobsIn(queue) \cup {j}
  BY <1>1, <1>3 DEF JobsIn
<1>5. ASSUME NEW q \in Seq(Item), NEW k \in Items(q), j \notin JobsIn(q)
      PROVE  /\ Pending(k) => Pending(k)'
             /\ account'[k.job] = account[k.job]
  <2>0. k \in Item
    BY <1>5, ItemsIn
  <2>1. k.job \in Jobs \ {j}
    BY <1>5, <2>0 DEF Item, JobsIn
  <2> QED
    BY <2>1 DEF Pending
<1>6. Pending(i)'
  BY <1>1 DEF Pending
<1>7. QueueOK'
  BY <1>2, <1>3, <1>5, <1>6 DEF Placed, QueueOK
<1>8. WaitingOK'
  BY <1>4, <1>5 DEF Inv, TypeOK, Placed, WaitingOK
<1>9. Owned'
  BY <1>4 DEF Inv, TypeOK, Assigned, Placed, Owned, Known
<1> QED
  BY <1>7, <1>8, <1>9 DEF Placed

(* A step of a job that leaves accounts and slots alone.                   *)
LEMMA PlacedQuiet ==
    ASSUME Inv, Placed, NEW j \in Jobs,
           Handlers(j) \/ Scheduler(j) \/ ThreadStep(j)
    PROVE  Placed'
<1>0. status \in [Jobs -> Status] /\ account \in [Jobs -> Accounts]
  BY DEF Inv, TypeOK
<1>1. CASE ThreadStep(j)
  <2>1. PICK s \in {"submitting", "kernel"} : SetStatus(j, s)
    BY <1>1 DEF ThreadStep
  <2>2. j \in active /\ UNCHANGED <<bound, account, queue, waiting, active>>
    BY <1>1 DEF ThreadStep
  <2>3. \A i : i.job = j => ~Pending(i)
    BY <2>2 DEF Pending
  <2>4. Known(j)
    BY <2>2 DEF Known
  <2> QED
    BY <2>1, <2>2, <2>3, <2>4, PlacedStatus
<1>2. CASE Cancel(j) \/ Unauthorized(j)
  <2>1. PICK s \in Status : SetStatus(j, s)
    BY <1>2 DEF Cancel, Unauthorized, Status
  <2>2. /\ UNCHANGED <<bound, account, queue, waiting, active>>
        /\ \/ s = "ended" /\ status[j] \in {"receiving", "queued"}
           \/ s \in {"parkedCanceled", "unknownCanceled"} /\ status[j] \in {"parked", "unknown"}
    BY <1>2, <2>1, <1>0 DEF Cancel, Unauthorized, SetStatus
  <2>3. \A i : i.job = j /\ Pending(i) => Pending(i)'
    BY <2>1, <2>2, <1>0 DEF Pending, SetStatus
  <2>4. j \in active => s = "ended"
    BY <2>2 DEF Placed, Owned
  <2> QED
    BY <2>1, <2>2, <2>3, <2>4, PlacedStatus
<1>3. CASE Submit(j) /\ Awaiting(j)
  <2>1. /\ SetStatus(j, "queued") /\ status[j] = "receiving" /\ j \notin bound
        /\ UNCHANGED <<bound, account, queue, waiting, active>>
    BY <1>3 DEF Submit, Awaiting
  <2>2. \A i : i.job = j => ~Pending(i)
    BY <2>1 DEF Pending
  <2> QED
    BY <2>1, <2>2, PlacedStatus
<1>4. CASE Bind(j)
  <2>1. /\ j \notin bound /\ status[j] = "queued" /\ Put(j, FALSE)
        /\ bound' = bound \cup {j} /\ UNCHANGED <<status, waiting, active>>
        /\ \A k \in Jobs \ {j} : account'[k] = account[k]
    BY <1>4, <1>0 DEF Bind, Awaiting
  <2>2. j \notin active
    BY <2>1 DEF Inv, Assigned
  <2> QED
    BY <2>1, <2>2, NoItem, PlacedPut
<1>5. CASE (Submit(j) /\ ~Awaiting(j)) \/ ResumeKernel(j) \/ Recheck(j)
  <2>1. PICK x \in BOOLEAN : Put(j, x) /\ SetStatus(j, IF x THEN "kernel" ELSE "queued")
    BY <1>5 DEF Submit, ResumeKernel, Recheck
  <2>2. /\ status[j] \in {"receiving", "unknown", "parked"}
        /\ UNCHANGED <<bound, account, waiting, active>>
    BY <1>5 DEF Submit, ResumeKernel, Recheck
  <2>3. j \notin active
    BY <2>2 DEF Placed, Owned
  <2>4. /\ status'[j] = IF x THEN "kernel" ELSE "queued"
        /\ \A k \in Jobs \ {j} : status'[k] = status[k]
    BY <2>1, <1>0 DEF SetStatus
  <2> QED
    BY <2>1, <2>2, <2>3, <2>4, NoItem, PlacedPut
<1> QED
  BY <1>1, <1>2, <1>3, <1>4, <1>5 DEF Handlers, Scheduler

(* The loop takes the head of the queue: a canceled job's item is dropped, *)
(* the others are parked or become a thread.                               *)
LEMMA PlacedDispatch ==
    ASSUME Inv, Placed, Dispatch
    PROVE  Placed'
<1> DEFINE h == Head(queue)
           b == account[h.job]
           rest == Tail(queue)
<1>1. /\ queue # <<>> /\ queue' = rest /\ UNCHANGED <<status, bound, account>>
      /\ queue \in Seq(Item) /\ queue \in Seq(BoundItem)
      /\ waiting \in [Accounts -> Seq(Item)]
  BY DEF Dispatch, DropItem, ParkItem, StartItem, HasWork, durable, Inv, TypeOK, Assigned
<1>2. h \in Item /\ h.job \in bound /\ h.job \in Jobs /\ h.resume \in BOOLEAN /\ b \in Accounts
  <2>1. h \in Item
    BY <1>1, HeadTailProperties
  <2> QED
    BY <1>1, <2>1, HeadType DEF Inv
<1>3. NoRepeat(queue) /\ \A i \in Items(queue) : Pending(i)
  BY DEF Placed, QueueOK
<1> HIDE DEF h, rest
<1>4. /\ Items(queue) = Items(rest) \cup {h}
      /\ NoRepeat(rest) /\ h.job \notin JobsIn(rest)
  BY <1>1, <1>3, ItemsTail DEF h, rest
<1>5. JobsIn(queue) = JobsIn(rest) \cup {h.job}
  BY <1>4 DEF JobsIn
<1>6. Pending(h) /\ \A i \in Items(rest) : Pending(i) /\ i.job # h.job
  BY <1>3, <1>4 DEF JobsIn
<1>7. \A a \in Accounts : h.job \notin JobsIn(waiting[a])
  BY <1>5 DEF Placed, WaitingOK
<1>8. CASE DropItem
  <2>1. UNCHANGED <<waiting, active>> /\ status[h.job] \notin {"queued", "kernel"}
    <3>1. Stale(h) /\ UNCHANGED <<waiting, active>>
      BY <1>8 DEF DropItem, h
    <3> QED
      BY <3>1, <1>6, <1>2 DEF Stale, Pending
  <2>2. QueueOK'
    BY <1>1, <1>4, <1>6, <2>1 DEF QueueOK, Pending
  <2>3. WaitingOK'
    BY <1>1, <1>5, <2>1 DEF WaitingOK, Placed, Pending
  <2>4. Owned'
    BY <1>1, <1>5, <2>1 DEF Owned, Placed, Known
  <2> QED
    BY <2>2, <2>3, <2>4 DEF Placed
<1>9. CASE ParkItem
  <2>1. /\ ~h.resume /\ UNCHANGED active
        /\ waiting' = [waiting EXCEPT ![b] = Append(@, h)]
    BY <1>9 DEF ParkItem, MustWait, h
  <2>2. /\ waiting'[b] = Append(waiting[b], h) /\ waiting[b] \in Seq(Item)
        /\ \A a \in Accounts \ {b} : waiting'[a] = waiting[a]
    BY <1>1, <1>2, <2>1
  <2>3. /\ Items(waiting'[b]) = Items(waiting[b]) \cup {h}
        /\ NoRepeat(waiting'[b])
    BY <1>2, <1>7, <2>2, ItemsAppend DEF Placed, WaitingOK
  <2>4. JobsIn(waiting'[b]) = JobsIn(waiting[b]) \cup {h.job}
    BY <2>3 DEF JobsIn
  <2>5. QueueOK'
    BY <1>1, <1>4, <1>6, <2>1 DEF QueueOK, Pending
  <2>6. \A i : Pending(i)' <=> Pending(i)
    BY <1>1, <2>1 DEF Pending
  <2>7. WaitingOK'
    <3> SUFFICES ASSUME NEW a \in Accounts
                 PROVE  /\ NoRepeat(waiting'[a])
                        /\ \A i \in Items(waiting'[a]) :
                              Pending(i) /\ ~i.resume /\ account[i.job] = a
                        /\ JobsIn(rest) \cap JobsIn(waiting'[a]) = {}
      BY <1>1, <2>6 DEF WaitingOK
    <3>1. /\ NoRepeat(waiting[a])
          /\ \A i \in Items(waiting[a]) : Pending(i) /\ ~i.resume /\ account[i.job] = a
          /\ JobsIn(rest) \cap JobsIn(waiting[a]) = {}
      BY <1>5 DEF Placed, WaitingOK
    <3>2. CASE a # b
      BY <2>2, <3>1, <3>2
    <3>3. CASE a = b
      BY <1>4, <1>6, <2>1, <2>3, <2>4, <3>1, <3>3
    <3> QED
      BY <3>2, <3>3
  <2>8. Owned'
    <3>1. ASSUME NEW k \in bound, Known(k) PROVE Known(k)'
      <4>1. account[k] \in Accounts
        BY DEF Inv, TypeOK
      <4>2. CASE k = h.job
        BY <1>1, <2>4, <4>2 DEF Known
      <4>3. CASE k # h.job
        <5>1. k \in JobsIn(waiting[account[k]]) => k \in JobsIn(waiting'[account[k]])
          BY <2>2, <2>4, <4>1
        <5> QED
          BY <1>1, <1>5, <2>1, <3>1, <4>3, <5>1 DEF Known
      <4> QED
        BY <4>2, <4>3
    <3> QED
      BY <1>1, <2>1, <3>1 DEF Owned, Placed
  <2> QED
    BY <2>5, <2>7, <2>8 DEF Placed
<1>10. CASE StartItem
  <2>1. /\ active' = active \cup {h.job} /\ UNCHANGED waiting
        /\ status[h.job] \in {"queued", "kernel"}
    <3>1. active' = active \cup {h.job} /\ UNCHANGED waiting /\ ~Stale(h)
      BY <1>10 DEF StartItem, h
    <3> QED
      BY <3>1, <1>6, <1>2 DEF Stale, Pending
  <2>2. \A i : i.job # h.job /\ Pending(i) => Pending(i)'
    BY <1>1, <2>1 DEF Pending
  <2>3. QueueOK'
    BY <1>1, <1>4, <1>6, <2>2 DEF QueueOK
  <2>4. WaitingOK'
    <3>1. \A a \in Accounts : \A i \in Items(waiting[a]) : i.job # h.job
      BY <1>7 DEF JobsIn
    <3> QED
      BY <1>1, <1>5, <2>1, <2>2, <3>1 DEF WaitingOK, Placed
  <2>5. Owned'
    BY <1>1, <1>5, <2>1 DEF Owned, Placed, Known
  <2> QED
    BY <2>3, <2>4, <2>5 DEF Placed
<1> QED
  BY <1>8, <1>9, <1>10 DEF Dispatch

(* The end of a thread moves the items that wait for its account to the    *)
(* queue.                                                                  *)
LEMMA PlacedEnd ==
    ASSUME Inv, Placed, NEW j \in Jobs, ThreadEnds(j)
    PROVE  Placed'
<1> DEFINE b == account[j]
<1>1. /\ j \in active /\ UNCHANGED <<bound, account>>
      /\ active' = active \ {j}
      /\ queue' = queue \o waiting[b]
      /\ waiting' = [waiting EXCEPT ![b] = <<>>]
  BY DEF ThreadEnds, ReleaseSlot
<1>2. /\ b \in Accounts /\ queue \in Seq(Item) /\ waiting \in [Accounts -> Seq(Item)]
      /\ account \in [Jobs -> Accounts] /\ bound \subseteq Jobs
  BY DEF Inv, TypeOK
<1>3. /\ status'[j] \in {"ended", "parked", "unknown"}
      /\ \A k \in Jobs \ {j} : status'[k] = status[k]
  BY DEF ThreadEnds, SetStatus, Inv, TypeOK
<1>4. /\ NoRepeat(queue) /\ \A i \in Items(queue) : Pending(i)
      /\ \A a \in Accounts :
            /\ NoRepeat(waiting[a])
            /\ \A i \in Items(waiting[a]) : Pending(i) /\ ~i.resume /\ account[i.job] = a
            /\ JobsIn(queue) \cap JobsIn(waiting[a]) = {}
  BY DEF Placed, QueueOK, WaitingOK
<1>5. Items(queue') = Items(queue) \cup Items(waiting[b]) /\ NoRepeat(queue')
  BY <1>1, <1>2, <1>4, ItemsConcat
<1>6. JobsIn(queue') = JobsIn(queue) \cup JobsIn(waiting[b])
  BY <1>5 DEF JobsIn
<1>7. waiting'[b] = <<>> /\ \A a \in Accounts \ {b} : waiting'[a] = waiting[a]
  BY <1>1, <1>2
<1>8. ASSUME NEW i, i.job \in Jobs, Pending(i) PROVE Pending(i)'
  <2>1. i.job # j
    BY <1>1, <1>8 DEF Pending
  <2> QED
    BY <2>1, <1>1, <1>3, <1>8 DEF Pending
<1>9. QueueOK'
  <2>1. ASSUME NEW i \in Items(queue') PROVE Pending(i)'
    <3>1. i \in Item /\ Pending(i)
      BY <1>2, <1>4, <1>5, ItemsIn
    <3>2. i.job \in Jobs
      BY <3>1 DEF Item
    <3> QED
      BY <3>1, <3>2, <1>8
  <2> QED
    BY <1>5, <2>1 DEF QueueOK
<1>10. WaitingOK'
  <2> SUFFICES ASSUME NEW a \in Accounts
               PROVE  /\ NoRepeat(waiting'[a])
                      /\ \A i \in Items(waiting'[a]) :
                            Pending(i)' /\ ~i.resume /\ account[i.job] = a
                      /\ JobsIn(queue') \cap JobsIn(waiting'[a]) = {}
    BY <1>1 DEF WaitingOK
  <2>1. CASE a = b
    BY <1>7, <2>1 DEF NoRepeat, JobsIn, Items
  <2>2. CASE a # b
    <3>1. \A i \in Items(waiting[a]) : i \in Item
      BY <1>2, ItemsIn
    <3>2. \A i \in Items(waiting[a]) : i.job \in Jobs
      BY <3>1 DEF Item
    <3>3. \A i \in Items(waiting[a]) : Pending(i)' /\ ~i.resume /\ account[i.job] = a
      BY <1>4, <1>8, <3>2
    <3>4. \A i \in Items(waiting[b]) : account[i.job] = b
      BY <1>2, <1>4
    <3>5. JobsIn(waiting[a]) \cap JobsIn(waiting[b]) = {}
      BY <2>2, <3>3, <3>4 DEF JobsIn
    <3> QED
      BY <1>4, <1>6, <1>7, <2>2, <3>3, <3>5
  <2> QED
    BY <2>1, <2>2
<1>11. Owned'
  <2>1. ASSUME NEW k \in bound \ {j}, Known(k) PROVE Known(k)'
    <3>1. account[k] \in Accounts
      BY <1>2
    <3>2. CASE account[k] = b
      BY <1>1, <1>6, <2>1, <3>2 DEF Known
    <3>3. CASE account[k] # b
      BY <1>1, <1>6, <1>7, <2>1, <3>1, <3>3 DEF Known
    <3> QED
      BY <3>2, <3>3
  <2>2. ASSUME NEW k \in bound, status'[k] \in {"queued", "kernel"} PROVE Known(k)'
    <3>1. k # j /\ status[k] \in {"queued", "kernel"}
      BY <1>2, <1>3, <2>2
    <3> QED
      BY <2>1, <3>1 DEF Placed, Owned
  <2>3. ASSUME NEW k \in Jobs, status'[k] = "submitting" PROVE k \in active'
    BY <1>1, <1>3, <2>3 DEF Placed, Owned
  <2>4. ASSUME NEW k \in active'
        PROVE  status'[k] \in {"queued", "submitting", "kernel", "ended"}
    BY <1>1, <1>3, <2>4 DEF Placed, Owned, Inv, TypeOK
  <2> QED
    BY <1>1, <2>2, <2>3, <2>4 DEF Owned
<1> QED
  BY <1>9, <1>10, <1>11 DEF Placed

(* Recovery puts one item for each of the jobs it is to put.               *)
LEMMA RecoveredItems ==
    ASSUME TypeOK, NEW s, NEW x \in BOOLEAN, NEW q \in Recovered(s, x)
    PROVE  /\ q \in Seq(Item) /\ NoRepeat(q)
           /\ JobsIn(q) = {j \in bound : status'[j] = s}
           /\ \A i \in Items(q) : i.resume = x
<1> DEFINE T == {j \in bound : status'[j] = s}
<1>1. PICK f \in Orders(T) : q = [i \in DOMAIN f |-> ItemOf(f[i], x)]
  BY DEF Recovered
<1>2. PICK n \in Nat : n = Cardinality(T) /\ IsFiniteSet(T)
  BY JobSets DEF TypeOK
<1>3. f \in [1..n -> T] /\ \A y, z \in 1..n : f[y] = f[z] => y = z
  BY <1>1, <1>2 DEF Orders
<1>4. T \subseteq Jobs
  BY DEF TypeOK
<1> HIDE DEF T
<1>5. f \in Surjection(1..n, T)
  <2>1. f \in Injection(1..n, T)
    BY <1>3 DEF Injection, IsInjective
  <2>2. Cardinality(1..n) = n
    BY <1>2, FS_Interval
  <2> QED
    BY <1>2, <2>1, <2>2, FS_Injection
<1>6. q \in [1..n -> Item] /\ \A y \in 1..n : q[y].job = f[y] /\ q[y].resume = x
  BY <1>1, <1>3, <1>4 DEF ItemOf, Item
<1>7. q \in Seq(Item) /\ Len(q) = n
  BY <1>6, SeqDef
<1>8. NoRepeat(q)
  BY <1>3, <1>6, <1>7 DEF NoRepeat
<1>9. JobsIn(q) = T
  <2>1. ASSUME NEW j \in T PROVE j \in JobsIn(q)
    <3>1. PICK y \in 1..n : f[y] = j
      BY <1>5 DEF Surjection
    <3> QED
      BY <3>1, <1>6, <1>7 DEF JobsIn, Items
  <2>2. ASSUME NEW j \in JobsIn(q) PROVE j \in T
    <3>1. PICK y \in 1..n : j = q[y].job
      BY <1>7 DEF JobsIn, Items
    <3> QED
      BY <3>1, <1>3, <1>6
  <2> QED
    BY <2>1, <2>2
<1> QED
  BY <1>6, <1>7, <1>8, <1>9 DEF Items, T

(* A restart forgets every item and thread, and puts one item for each     *)
(* bound job that is to run.                                               *)
LEMMA PlacedRestart ==
    ASSUME Inv, Placed, Restart
    PROVE  Placed'
<1>1. /\ waiting' = [a \in Accounts |-> <<>>] /\ active' = {}
      /\ UNCHANGED <<bound, account>> /\ TypeOK
  BY DEF Restart, Inv
<1>2. PICK first \in Recovered("kernel", TRUE), rest \in Recovered("queued", FALSE) :
          queue' = first \o rest
  BY DEF Restart
<1>3. /\ first \in Seq(Item) /\ NoRepeat(first) /\ \A i \in Items(first) : i.resume = TRUE
      /\ JobsIn(first) = {j \in bound : status'[j] = "kernel"}
  BY <1>1, <1>2, RecoveredItems
<1>4. /\ rest \in Seq(Item) /\ NoRepeat(rest) /\ \A i \in Items(rest) : i.resume = FALSE
      /\ JobsIn(rest) = {j \in bound : status'[j] = "queued"}
  BY <1>1, <1>2, RecoveredItems
<1>5. Items(queue') = Items(first) \cup Items(rest) /\ NoRepeat(queue')
  BY <1>2, <1>3, <1>4, ItemsConcat
<1>6. JobsIn(queue') = {j \in bound : status'[j] \in {"queued", "kernel"}}
  BY <1>3, <1>4, <1>5 DEF JobsIn
<1>7. QueueOK'
  BY <1>1, <1>3, <1>4, <1>5 DEF QueueOK, Pending, JobsIn
<1>8. WaitingOK'
  BY <1>1 DEF WaitingOK, NoRepeat, JobsIn, Items
<1>9. \A j \in Jobs : status'[j] # "submitting"
  BY DEF Restart, Submitting, RecoveredStatus, Inv, TypeOK, Status
<1>10. Owned'
  BY <1>1, <1>6, <1>9 DEF Owned, Known
<1> QED
  BY <1>7, <1>8, <1>10 DEF Placed

LEMMA StepPlaced == Inv /\ Placed /\ [Next]_vars => Placed'
<1> SUFFICES ASSUME Inv, Placed, [Next]_vars PROVE Placed'
  OBVIOUS
<1>1. CASE UNCHANGED vars
  BY <1>1 DEF vars, durable, Placed, QueueOK, WaitingOK, Owned, Known, Pending
<1> QED
  BY <1>1, PlacedQuiet, PlacedEnd, PlacedDispatch, PlacedRestart DEF Next, Thread

(* Every item, thread and parked item of every job is where it belongs.    *)
THEOREM PlacedInvariance == Spec => []Placed
<1>1. Init => Placed
  BY DEF Init, Placed, QueueOK, WaitingOK, Owned, NoRepeat, JobsIn, Items
<1> QED
  BY <1>1, StepPlaced, Invariance, PTL DEF Spec

(* A bound job that is to run is in the queue, among the items waiting for *)
(* its account, or run by a thread: in one of them, and once.              *)
THEOREM OnePlaceHolds == Spec => []OnePlace
BY Invariance, PlacedInvariance, PlacedCounts, PTL

=============================================================================
