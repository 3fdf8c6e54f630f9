------------------------- MODULE ChunkUploadProofs --------------------------
(* Proofs about chunk uploads, assembly and removal, for any number of     *)
(* jobs, tokens, requests and chunks.                                      *)
EXTENDS ChunkUpload, FiniteSetTheorems, TLAPS

LEMMA InitInv == Init => Inv
<1> SUFFICES ASSUME Init PROVE Inv
  OBVIOUS
<1> USE UploadAssumption DEF Init
<1>1. TypeOK
  BY DEF TypeOK, Status, Holder, Empty
<1>2. SlotsExact
  <2>1. Streams = {} /\ \A u : StreamsBy(u) = {} /\ \A j : StreamsOf(j) = {}
    BY DEF Streams, StreamsBy, StreamsOf
  <2>2. Cardinality(Streams) = 0 /\ \A u : Cardinality(StreamsBy(u)) = 0
        /\ \A j : Cardinality(StreamsOf(j)) = 0
    BY <2>1, FS_EmptySet
  <2> QED
    BY <2>2 DEF SlotsExact
<1>3. LockOwners /\ StageReserves
  BY DEF LockOwners, StageReserves, Assembling
<1>4. PartsMatch /\ AssemblyInputs /\ ReservationsSettle
  BY DEF PartsMatch, AssemblyInputs, ReservationsSettle, Empty
<1> QED
  BY <1>1, <1>2, <1>3, <1>4 DEF Inv

-----------------------------------------------------------------------------
(* Slots                                                                   *)

(* What a step may do to the slots: nothing, take one for a new stream,    *)
(* give back the one of a stream that ends, or lose them all.              *)
Takes(r, u, j, i, c) ==
    /\ stream[r] = None
    /\ SlotsLeft(u)
    /\ stream' = [stream EXCEPT ![r] = [user |-> u, job |-> j, chunk |-> i, sha |-> c]]
    /\ upload_count' = upload_count + 1
    /\ user_uploads' = [user_uploads EXCEPT ![u] = @ + 1]
    /\ active_uploads' = [active_uploads EXCEPT ![j] = @ + 1]

Loses ==
    /\ stream' = [r \in Requests |-> None]
    /\ upload_count' = 0
    /\ user_uploads' = [u \in Users |-> 0]
    /\ active_uploads' = [j \in Jobs |-> 0]

LEMMA SlotSteps ==
    ASSUME Next
    PROVE  \/ UNCHANGED uploads
           \/ \E r \in Requests, u \in Users, j \in Jobs, i \in Chunks, c \in Contents :
                Takes(r, u, j, i, c)
           \/ \E r \in Requests : stream[r] # None /\ EndStream(r)
           \/ Loses
<1>1. ASSUME NEW j \in Jobs, Upload(j)
      PROVE  \/ UNCHANGED uploads
             \/ \E r \in Requests, u \in Users, i \in Chunks, c \in Contents : Takes(r, u, j, i, c)
  BY <1>1 DEF Upload, RefuseLate, ChunkAgain, BeginChunk, Takes
<1>2. ASSUME NEW j \in Jobs, Client(j), ~Upload(j)
      PROVE  UNCHANGED uploads
  BY <1>2 DEF Client, CreateJob, Complete, Cancel, Download, Delete
<1>3. ASSUME NEW j \in Jobs, Assembly(j) \/ Worker(j) \/ DownloadEnds(j)
      PROVE  UNCHANGED uploads
  BY <1>3 DEF Assembly, AbandonSlot, NoSpace, BackToReceiving, StartAssembly, AssembleDataset,
              AssembleKernel, Extract, AssemblyFails, SubmitJob, Worker, WorkerTakes, WorkerEnds,
              WorkerLeaves, DownloadEnds
<1>4. ASSUME NEW j \in Jobs, ScanJob(j) \/ Removal(j) \/ World(j)
      PROVE  UNCHANGED uploads
  BY <1>4 DEF ScanJob, Removal, RemoveFile, DeleteDone, CleanDone, RemovalFails, World,
              DeadlinePasses, LeaseRunsOut, CacheChanges
<1>5. ASSUME NEW r \in Requests, EndOfBody(r)
      PROVE  stream[r] # None /\ EndStream(r)
  BY <1>5 DEF EndOfBody, StreamFails, StreamTooLate, CommitChunk, ChunkSuperseded
<1>6. StartScan => UNCHANGED uploads
  BY DEF StartScan
<1>7. Restart => Loses
  BY DEF Restart, Loses
<1> QED
  BY <1>1, <1>2, <1>3, <1>4, <1>5, <1>6, <1>7 DEF Next

(* Streams are finite sets.                                                *)
LEMMA StreamSets ==
    ASSUME NEW S \in SUBSET Requests
    PROVE  /\ IsFiniteSet(S) /\ Cardinality(S) \in Nat
           /\ \A r \in S : Cardinality(S \ {r}) = Cardinality(S) - 1
           /\ \A r \in Requests \ S : Cardinality(S \cup {r}) = Cardinality(S) + 1
<1>1. IsFiniteSet(S)
  BY UploadAssumption, FS_Subset
<1>2. Cardinality(S) \in Nat
  BY <1>1, FS_CardinalityType
<1>3. \A r \in S : Cardinality(S \ {r}) = Cardinality(S) - 1
  BY <1>1, FS_RemoveElement
<1>4. \A r \in Requests \ S : Cardinality(S \cup {r}) = Cardinality(S) + 1
  BY <1>1, FS_AddElement
<1> QED
  BY <1>1, <1>2, <1>3, <1>4

LEMMA TakesExact ==
    ASSUME TypeOK, SlotsExact, NEW r \in Requests, NEW u \in Users, NEW j \in Jobs,
           NEW i \in Chunks, NEW c \in Contents, Takes(r, u, j, i, c)
    PROVE  SlotsExact'
<1> DEFINE s == [user |-> u, job |-> j, chunk |-> i, sha |-> c]
<1>1. s \in Stream /\ s # None
  BY UploadAssumption DEF Stream
<1>2. stream' = [stream EXCEPT ![r] = s] /\ stream[r] = None /\ stream \in [Requests -> Stream \cup {None}]
  BY DEF Takes, TypeOK
<1>3. r \notin Streams /\ Streams' = Streams \cup {r}
  BY <1>1, <1>2 DEF Streams
<1>4. ASSUME NEW v \in Users
      PROVE  /\ r \notin StreamsBy(v)
             /\ StreamsBy(v)' = IF v = u THEN StreamsBy(v) \cup {r} ELSE StreamsBy(v)
  BY <1>1, <1>2, <1>3 DEF StreamsBy, Streams
<1>5. ASSUME NEW k \in Jobs
      PROVE  /\ r \notin StreamsOf(k)
             /\ StreamsOf(k)' = IF k = j THEN StreamsOf(k) \cup {r} ELSE StreamsOf(k)
  BY <1>1, <1>2, <1>3 DEF StreamsOf, Streams
<1>6. \A S \in SUBSET Requests : r \notin S => Cardinality(S \cup {r}) = Cardinality(S) + 1
  BY StreamSets
<1>7. Streams \subseteq Requests /\ (\A v : StreamsBy(v) \subseteq Requests)
      /\ \A k : StreamsOf(k) \subseteq Requests
  BY DEF Streams, StreamsBy, StreamsOf
<1>8. /\ Cardinality(Streams') = Cardinality(Streams) + 1
      /\ \A v \in Users : Cardinality(StreamsBy(v)') =
            IF v = u THEN Cardinality(StreamsBy(v)) + 1 ELSE Cardinality(StreamsBy(v))
      /\ \A k \in Jobs : Cardinality(StreamsOf(k)') =
            IF k = j THEN Cardinality(StreamsOf(k)) + 1 ELSE Cardinality(StreamsOf(k))
  BY <1>3, <1>4, <1>5, <1>6, <1>7
<1>9. /\ upload_count' = upload_count + 1 /\ upload_count < MaxParallelUploads
      /\ user_uploads' = [user_uploads EXCEPT ![u] = @ + 1]
      /\ user_uploads[u] < MaxParallelUploadsPerUser
      /\ active_uploads' = [active_uploads EXCEPT ![j] = @ + 1]
  BY DEF Takes, SlotsLeft
<1> HIDE DEF s
<1> QED
  BY <1>8, <1>9, UploadAssumption DEF SlotsExact, TypeOK

LEMMA GivesBackExact ==
    ASSUME TypeOK, SlotsExact, NEW r \in Requests, stream[r] # None, EndStream(r)
    PROVE  SlotsExact'
<1>1. /\ stream[r].user \in Users /\ stream[r].job \in Jobs
      /\ stream \in [Requests -> Stream \cup {None}]
      /\ stream' = [stream EXCEPT ![r] = None]
  BY DEF TypeOK, Stream, EndStream
<1>2. r \in Streams /\ Streams' = Streams \ {r}
  BY <1>1 DEF Streams
<1>3. ASSUME NEW v \in Users
      PROVE  /\ r \in StreamsBy(v) <=> v = stream[r].user
             /\ StreamsBy(v)' = StreamsBy(v) \ {r}
  BY <1>1, <1>2 DEF StreamsBy, Streams
<1>4. ASSUME NEW k \in Jobs
      PROVE  /\ r \in StreamsOf(k) <=> k = stream[r].job
             /\ StreamsOf(k)' = StreamsOf(k) \ {r}
  BY <1>1, <1>2 DEF StreamsOf, Streams
<1>5. \A S \in SUBSET Requests :
        Cardinality(S \ {r}) = IF r \in S THEN Cardinality(S) - 1 ELSE Cardinality(S)
  <2>1. \A S : r \notin S => S \ {r} = S
    OBVIOUS
  <2> QED
    BY <2>1, StreamSets
<1>6. Streams \subseteq Requests /\ (\A v : StreamsBy(v) \subseteq Requests)
      /\ \A k : StreamsOf(k) \subseteq Requests
  BY DEF Streams, StreamsBy, StreamsOf
<1>7. /\ Cardinality(Streams') = Cardinality(Streams) - 1
      /\ \A v \in Users : Cardinality(StreamsBy(v)') =
            IF v = stream[r].user THEN Cardinality(StreamsBy(v)) - 1 ELSE Cardinality(StreamsBy(v))
      /\ \A k \in Jobs : Cardinality(StreamsOf(k)') =
            IF k = stream[r].job THEN Cardinality(StreamsOf(k)) - 1 ELSE Cardinality(StreamsOf(k))
  BY <1>2, <1>3, <1>4, <1>5, <1>6
<1> QED
  BY <1>1, <1>7, UploadAssumption DEF SlotsExact, TypeOK, EndStream

LEMMA LosesExact == Loses => SlotsExact'
<1> SUFFICES ASSUME Loses PROVE SlotsExact'
  OBVIOUS
<1>1. Streams' = {} /\ (\A u : StreamsBy(u)' = {}) /\ \A j : StreamsOf(j)' = {}
  BY DEF Loses, Streams, StreamsBy, StreamsOf
<1>2. Cardinality(Streams') = 0 /\ (\A u : Cardinality(StreamsBy(u)') = 0)
      /\ \A j : Cardinality(StreamsOf(j)') = 0
  BY <1>1, FS_EmptySet
<1> QED
  BY <1>2, UploadAssumption DEF Loses, SlotsExact

LEMMA NextSlots ==
    ASSUME TypeOK, SlotsExact, Next
    PROVE  SlotsExact'
<1>1. UNCHANGED uploads => SlotsExact'
  BY DEF uploads, SlotsExact, Streams, StreamsBy, StreamsOf
<1> QED
  BY <1>1, SlotSteps, TakesExact, GivesBackExact, LosesExact

(* Each counter stays a natural number: it counts a finite set.            *)
LEMMA SlotTypes ==
    ASSUME TypeOK, SlotsExact, Next
    PROVE  /\ stream' \in [Requests -> Stream \cup {None}]
           /\ upload_count' \in Nat
           /\ user_uploads' \in [Users -> Nat]
           /\ active_uploads' \in [Jobs -> Nat]
<1>1. CASE UNCHANGED uploads
  BY <1>1 DEF uploads, TypeOK
<1>2. ASSUME NEW r \in Requests, NEW u \in Users, NEW j \in Jobs, NEW i \in Chunks,
             NEW c \in Contents, Takes(r, u, j, i, c)
      PROVE  /\ stream' \in [Requests -> Stream \cup {None}]
             /\ upload_count' \in Nat
             /\ user_uploads' \in [Users -> Nat]
             /\ active_uploads' \in [Jobs -> Nat]
  BY <1>2 DEF Takes, TypeOK, Stream
<1>3. ASSUME NEW r \in Requests, stream[r] # None, EndStream(r)
      PROVE  /\ stream' \in [Requests -> Stream \cup {None}]
             /\ upload_count' \in Nat
             /\ user_uploads' \in [Users -> Nat]
             /\ active_uploads' \in [Jobs -> Nat]
  <2>1. /\ r \in Streams
        /\ stream[r].user \in Users /\ r \in StreamsBy(stream[r].user)
        /\ stream[r].job \in Jobs /\ r \in StreamsOf(stream[r].job)
    BY <1>3 DEF TypeOK, Stream, Streams, StreamsBy, StreamsOf
  <2>2. \A S \in SUBSET Requests : r \in S => Cardinality(S) \in Nat /\ Cardinality(S) - 1 \in Nat
    <3> TAKE S \in SUBSET Requests
    <3>1. Cardinality(S) \in Nat /\ Cardinality(S \ {r}) \in Nat
      BY StreamSets
    <3> QED
      BY <3>1, StreamSets
  <2>3. Streams \subseteq Requests /\ (\A v : StreamsBy(v) \subseteq Requests)
        /\ \A k : StreamsOf(k) \subseteq Requests
    BY DEF Streams, StreamsBy, StreamsOf
  <2>4. /\ upload_count - 1 \in Nat
        /\ user_uploads[stream[r].user] - 1 \in Nat
        /\ active_uploads[stream[r].job] - 1 \in Nat
    BY <2>1, <2>2, <2>3 DEF SlotsExact
  <2> QED
    BY <1>3, <2>1, <2>4 DEF EndStream, TypeOK
<1>4. CASE Loses
  BY <1>4 DEF Loses
<1> QED
  BY <1>1, <1>2, <1>3, <1>4, SlotSteps

-----------------------------------------------------------------------------
(* Types                                                                   *)

(* Writes to the row: reservations stay natural numbers.                   *)
LEMMA RowTypes ==
    ASSUME TypeOK, NEW j \in Jobs, NEW n \in Nat
    PROVE  /\ Reserve(j, n) => reserved' \in [Jobs -> Nat]
           /\ Consume(j, n) => reserved' \in [Jobs -> Nat]
           /\ \A s \in Status : SetStatus(j, s) => /\ status' \in [Jobs -> Status]
                                                  /\ reserved' \in [Jobs -> Nat]
<1>1. Reserve(j, n) => reserved' \in [Jobs -> Nat]
  BY DEF Reserve, TypeOK
<1>2. Consume(j, n) => reserved' \in [Jobs -> Nat]
  BY DEF Consume, TypeOK
<1>3. \A s \in Status : SetStatus(j, s) => /\ status' \in [Jobs -> Status]
                                         /\ reserved' \in [Jobs -> Nat]
  BY DEF SetStatus, TypeOK
<1> QED
  BY <1>1, <1>2, <1>3

(* What is reserved and consumed are numbers of chunks.                    *)
LEMMA Sizes ==
    ASSUME NEW S \in SUBSET Chunks
    PROVE  Cardinality(S) \in Nat /\ 2 * Cardinality(S) \in Nat /\ 3 * Cardinality(S) \in Nat
<1>1. Cardinality(S) \in Nat
  BY UploadAssumption, FS_Subset, FS_CardinalityType
<1> QED
  BY <1>1

(* Everything but the slots.                                               *)
Typed ==
    /\ status \in [Jobs -> Status]
    /\ reserved \in [Jobs -> Nat]
    /\ rows \in [Jobs -> [Chunks -> Contents \cup {None}]]
    /\ parts \in [Jobs -> [Chunks -> Contents \cup {None}]]
    /\ late \subseteq Jobs /\ quiet \subseteq Jobs /\ cached \subseteq Jobs
    /\ holder \in [Jobs -> Holder]
    /\ active \subseteq Jobs
    /\ scan \in [Jobs -> {"no", "ended", "stale"}]
    /\ crashes \in 0..MaxCrashes

LEMMA ClientTypes ==
    ASSUME TypeOK, NEW j \in Jobs, Client(j)
    PROVE  Typed'
<1> USE DEF TypeOK, Typed, durable, world, uploads, Status, Holder
<1>1. CASE CreateJob(j)
  <2>1. reserved' \in [Jobs -> Nat]
    BY <1>1, Sizes, RowTypes DEF CreateJob
  <2> QED
    BY <1>1, <2>1 DEF CreateJob
<1>2. CASE RefuseLate(j)
  BY <1>2 DEF RefuseLate, ExpireReceiving, SetStatus
<1>3. CASE \E i \in Chunks, c \in Contents : ChunkAgain(j, i, c)
  BY <1>3 DEF ChunkAgain, Touch
<1>4. CASE \E r \in Requests, u \in Users, i \in Chunks, c \in Contents : BeginChunk(r, u, j, i, c)
  BY <1>4 DEF BeginChunk, Touch
<1>5. CASE Complete(j)
  BY <1>5 DEF Complete, SetStatus
<1>6. CASE Cancel(j)
  BY <1>6 DEF Cancel, SetStatus
<1>7. CASE Download(j) \/ Delete(j)
  BY <1>7 DEF Download, Delete
<1> QED
  BY <1>1, <1>2, <1>3, <1>4, <1>5, <1>6, <1>7 DEF Client, Upload

LEMMA AssemblyTypes ==
    ASSUME TypeOK, NEW j \in Jobs, Assembly(j)
    PROVE  Typed'
<1> USE DEF TypeOK, Typed, world, uploads, Status, Holder, Assembling
<1>1. CASE AbandonSlot(j) \/ NoSpace(j)
  BY <1>1 DEF AbandonSlot, NoSpace, BackToReceiving
<1>2. CASE StartAssembly(j)
  <2>1. Needed(j) \subseteq Chunks
    BY DEF Needed, Chunks
  <2>2. reserved' \in [Jobs -> Nat]
    BY <1>2, <2>1, Sizes, RowTypes DEF StartAssembly
  <2> QED
    BY <1>2, <2>2 DEF StartAssembly
<1>3. CASE AssembleDataset(j)
  <2>1. reserved' \in [Jobs -> Nat]
    BY <1>3, Sizes, RowTypes DEF AssembleDataset, Chunks
  <2> QED
    BY <1>3, <2>1 DEF AssembleDataset
<1>4. CASE AssembleKernel(j) \/ Extract(j)
  <2>1. reserved' \in [Jobs -> Nat]
    BY <1>4, RowTypes, UploadAssumption DEF AssembleKernel, Extract
  <2> QED
    BY <1>4, <2>1 DEF AssembleKernel, Extract
<1>5. CASE AssemblyFails(j) \/ SubmitJob(j)
  <2>1. status' \in [Jobs -> Status] /\ reserved' \in [Jobs -> Nat]
    BY <1>5, RowTypes DEF AssemblyFails, SubmitJob
  <2> QED
    BY <1>5, <2>1 DEF AssemblyFails, SubmitJob
<1> QED
  BY <1>1, <1>2, <1>3, <1>4, <1>5 DEF Assembly

LEMMA OtherTypes ==
    ASSUME TypeOK, NEW j \in Jobs, Worker(j) \/ DownloadEnds(j) \/ ScanJob(j) \/ Removal(j) \/ World(j)
    PROVE  Typed'
<1> USE DEF TypeOK, Typed, durable, world, uploads, Status, Holder
<1>1. CASE Worker(j) \/ DownloadEnds(j)
  <2>1. status' \in [Jobs -> Status] /\ reserved' \in [Jobs -> Nat]
    BY <1>1, RowTypes DEF Worker, WorkerTakes, WorkerEnds, WorkerLeaves, DownloadEnds
  <2> QED
    BY <1>1, <2>1 DEF Worker, WorkerTakes, WorkerEnds, WorkerLeaves, DownloadEnds
<1>2. CASE ScanJob(j)
  <2>1. status' \in [Jobs -> Status] /\ reserved' \in [Jobs -> Nat]
    BY <1>2, RowTypes DEF ScanJob
  <2> QED
    BY <1>2, <2>1 DEF ScanJob
<1>3. CASE RemoveFile(j)
  <2>1. PICK i \in Chunks : parts' = [parts EXCEPT ![j][i] = None]
    BY <1>3 DEF RemoveFile
  <2>2. parts' \in [Jobs -> [Chunks -> Contents \cup {None}]]
    BY <2>1
  <2> QED
    BY <1>3, <2>2 DEF RemoveFile
<1>4. CASE DeleteDone(j) \/ CleanDone(j) \/ RemovalFails(j)
  <2>1. status' \in [Jobs -> Status] /\ reserved' \in [Jobs -> Nat]
    BY <1>4, RowTypes DEF DeleteDone, CleanDone, RemovalFails
  <2>2. rows' \in [Jobs -> [Chunks -> Contents \cup {None}]]
    BY <1>4 DEF DeleteDone, CleanDone, RemovalFails, Empty
  <2> QED
    BY <1>4, <2>1, <2>2 DEF DeleteDone, CleanDone, RemovalFails
<1>5. CASE World(j)
  BY <1>5 DEF World, DeadlinePasses, LeaseRunsOut, CacheChanges
<1> QED
  BY <1>1, <1>2, <1>3, <1>4, <1>5 DEF Removal

LEMMA BodyTypes ==
    ASSUME TypeOK, NEW r \in Requests, EndOfBody(r)
    PROVE  Typed'
<1> USE DEF TypeOK, Typed, durable, world, Status, Stream
<1>1. CASE StreamFails(r) \/ ChunkSuperseded(r)
  BY <1>1 DEF StreamFails, ChunkSuperseded
<1>2. CASE StreamTooLate(r)
  BY <1>2 DEF StreamTooLate, ExpireReceiving, SetStatus
<1>3. CASE CommitChunk(r)
  <2> DEFINE j == stream[r].job
             i == stream[r].chunk
             c == stream[r].sha
  <2>1. j \in Jobs /\ i \in Chunks /\ c \in Contents
    BY <1>3 DEF CommitChunk
  <2>2. StoreChunk(j, i, c)
    BY <1>3 DEF CommitChunk
  <2> HIDE DEF j, i, c
  <2>3. reserved' \in [Jobs -> Nat]
    BY <2>1, <2>2, RowTypes DEF StoreChunk
  <2>4. /\ parts' \in [Jobs -> [Chunks -> Contents \cup {None}]]
        /\ rows' \in [Jobs -> [Chunks -> Contents \cup {None}]]
        /\ quiet' \subseteq Jobs
    BY <2>1, <2>2 DEF StoreChunk, Touch
  <2> QED
    BY <1>3, <2>3, <2>4 DEF CommitChunk
<1> QED
  BY <1>1, <1>2, <1>3 DEF EndOfBody

LEMMA RestartTypes == TypeOK /\ Restart => Typed'
<1> SUFFICES ASSUME TypeOK, Restart PROVE Typed'
  OBVIOUS
<1>1. parts' \in [Jobs -> [Chunks -> Contents \cup {None}]]
  <2>1. CASE UNCHANGED parts
    BY <2>1 DEF TypeOK
  <2>2. ASSUME NEW r \in Requests, CommitInterrupted(r)
        PROVE  parts' \in [Jobs -> [Chunks -> Contents \cup {None}]]
    <3>1. stream[r] \in Stream
      BY <2>2 DEF CommitInterrupted, TypeOK
    <3>2. /\ stream[r].job \in Jobs /\ stream[r].chunk \in Chunks /\ stream[r].sha \in Contents
          /\ parts' = [parts EXCEPT ![stream[r].job][stream[r].chunk] = stream[r].sha]
      BY <2>2, <3>1 DEF CommitInterrupted, Stream
    <3> QED
      BY <3>2 DEF TypeOK
  <2> QED
    BY <2>1, <2>2 DEF Restart
<1>2. crashes' \in 0..MaxCrashes
  BY UploadAssumption DEF Restart, TypeOK
<1>3. status' \in [Jobs -> Status]
  BY DEF Restart
<1>4. reserved' \in [Jobs -> Nat]
  BY DEF Restart, TypeOK
<1> QED
  BY <1>1, <1>2, <1>3, <1>4 DEF Restart, TypeOK, Typed, Holder

LEMMA NextTypes ==
    ASSUME TypeOK, SlotsExact, Next
    PROVE  TypeOK'
<1>1. StartScan => Typed'
  BY DEF StartScan, TypeOK, Typed, durable, world, uploads
<1>2. Typed'
  BY <1>1, ClientTypes, AssemblyTypes, OtherTypes, BodyTypes, RestartTypes DEF Next
<1> QED
  BY <1>2, SlotTypes DEF Typed, TypeOK

-----------------------------------------------------------------------------
(* Rows, files and locks                                                   *)

(* A job without counted streams has none.                                 *)
LEMMA NotInUse ==
    ASSUME SlotsExact, NEW j \in Jobs, ~InUse(j)
    PROVE  StreamsOf(j) = {} /\ j \notin active
<1>1. IsFiniteSet(StreamsOf(j)) /\ Cardinality(StreamsOf(j)) \in Nat
  BY StreamSets DEF StreamsOf, Streams
<1>2. Cardinality(StreamsOf(j)) = 0
  BY <1>1 DEF InUse, SlotsExact
<1> QED
  BY <1>1, <1>2, FS_EmptySet DEF InUse

(* Steps that change chunk rows or files.                                  *)
LEMMA FileSteps ==
    ASSUME Next
    PROVE  \/ UNCHANGED <<rows, parts>>
           \/ \E r \in Requests : CommitChunk(r)
           \/ \E j \in Jobs : RemoveFile(j) \/ DeleteDone(j)
           \/ Restart
<1>1. ASSUME NEW j \in Jobs, Client(j) \/ Worker(j) \/ DownloadEnds(j) \/ ScanJob(j) \/ World(j)
      PROVE  UNCHANGED <<rows, parts>>
  BY <1>1 DEF Client, CreateJob, Upload, RefuseLate, ChunkAgain, BeginChunk, Complete, Cancel,
              Download, Delete, Worker, WorkerTakes, WorkerEnds, WorkerLeaves, DownloadEnds,
              ScanJob, World, DeadlinePasses, LeaseRunsOut, CacheChanges, durable
<1>2. ASSUME NEW j \in Jobs, Assembly(j)
      PROVE  UNCHANGED <<rows, parts>>
  BY <1>2 DEF Assembly, AbandonSlot, NoSpace, BackToReceiving, StartAssembly, AssembleDataset,
              AssembleKernel, Extract, AssemblyFails, SubmitJob
<1>3. ASSUME NEW j \in Jobs, CleanDone(j) \/ RemovalFails(j)
      PROVE  UNCHANGED <<rows, parts>>
  BY <1>3 DEF CleanDone, RemovalFails, durable
<1>4. ASSUME NEW r \in Requests, EndOfBody(r)
      PROVE  CommitChunk(r) \/ UNCHANGED <<rows, parts>>
  BY <1>4 DEF EndOfBody, StreamFails, StreamTooLate, ChunkSuperseded, durable
<1>5. StartScan => UNCHANGED <<rows, parts>>
  BY DEF StartScan, durable
<1> QED
  BY <1>1, <1>2, <1>3, <1>4, <1>5 DEF Next, Removal

LEMMA NextPartsMatch ==
    ASSUME Inv, Next
    PROVE  PartsMatch'
<1> USE DEF Inv, TypeOK, PartsMatch
<1>1. CASE UNCHANGED <<rows, parts>>
  BY <1>1
<1>2. ASSUME NEW r \in Requests, stream[r] # None,
             rows' = rows \/ rows' = [rows EXCEPT ![stream[r].job][stream[r].chunk] = stream[r].sha],
             parts' = [parts EXCEPT ![stream[r].job][stream[r].chunk] = stream[r].sha],
             Accepts(stream[r].job, stream[r].chunk, stream[r].sha)
      PROVE  PartsMatch'
  <2>1. stream[r].job \in Jobs /\ stream[r].chunk \in Chunks /\ stream[r].sha \in Contents
    BY <1>2 DEF Stream
  <2> QED
    BY <1>2, <2>1 DEF Accepts
<1>3. ASSUME NEW r \in Requests, CommitChunk(r)
      PROVE  PartsMatch'
  BY <1>2, <1>3 DEF CommitChunk, StoreChunk
<1>4. ASSUME NEW j \in Jobs, RemoveFile(j) \/ DeleteDone(j)
      PROVE  PartsMatch'
  <2>1. CASE RemoveFile(j)
    BY <2>1 DEF RemoveFile
  <2>2. CASE DeleteDone(j)
    BY <2>2 DEF DeleteDone, Empty
  <2> QED
    BY <1>4, <2>1, <2>2
<1>5. CASE Restart
  BY <1>1, <1>2, <1>5 DEF Restart, CommitInterrupted
<1> QED
  BY <1>1, <1>3, <1>4, <1>5, FileSteps

(* Who holds the lock, what assembly has reserved, and that nothing else   *)
(* is reserved once a job is past it.                                      *)
LockInv == LockOwners /\ StageReserves /\ ReservationsSettle

LEMMA ClientLocks ==
    ASSUME Inv, NEW j \in Jobs, Client(j)
    PROVE  LockInv'
<1> USE DEF Inv, TypeOK, LockInv, LockOwners, StageReserves, ReservationsSettle, LockFree,
            StreamsOf, Streams, Terminal, Assembling, durable, world, uploads
<1>1. CASE CreateJob(j)
  BY <1>1 DEF CreateJob, Reserve
<1>2. CASE RefuseLate(j)
  BY <1>2 DEF RefuseLate, ExpireReceiving, SetStatus
<1>3. CASE \E i \in Chunks, c \in Contents : ChunkAgain(j, i, c)
  BY <1>3 DEF ChunkAgain
<1>4. ASSUME NEW r \in Requests, NEW u \in Users, NEW i \in Chunks, NEW c \in Contents,
             BeginChunk(r, u, j, i, c)
      PROVE  LockInv'
  <2>1. \A k \in Jobs : k # j => StreamsOf(k)' = StreamsOf(k)
    BY <1>4, UploadAssumption DEF BeginChunk, Stream
  <2> QED
    BY <1>4, <2>1 DEF BeginChunk
<1>5. CASE Complete(j)
  BY <1>5 DEF Complete, SetStatus
<1>6. CASE Cancel(j)
  BY <1>6 DEF Cancel, SetStatus
<1>7. CASE Download(j)
  BY <1>7 DEF Download
<1>8. CASE Delete(j)
  <2>1. StreamsOf(j) = {} /\ j \notin active
    BY <1>8, NotInUse DEF Delete
  <2> QED
    BY <1>8, <2>1 DEF Delete
<1> QED
  BY <1>1, <1>2, <1>3, <1>4, <1>5, <1>6, <1>7, <1>8 DEF Client, Upload

LEMMA AssemblyLocks ==
    ASSUME Inv, NEW j \in Jobs, Assembly(j)
    PROVE  LockInv'
<1> USE UploadAssumption DEF Inv, TypeOK, LockInv, LockOwners, StageReserves, ReservationsSettle,
            StreamsOf, Streams, Terminal, Assembling, world, uploads
<1>1. CASE AbandonSlot(j) \/ NoSpace(j)
  <2>1. holder[j] \in {"slot", "dataset", "kernel", "extract"} /\ BackToReceiving(j)
    BY <1>1 DEF AbandonSlot, NoSpace
  <2> QED
    BY <2>1 DEF BackToReceiving
<1>2. CASE StartAssembly(j)
  BY <1>2 DEF StartAssembly, Reserve
<1>3. CASE AssembleDataset(j)
  BY <1>3 DEF AssembleDataset, Consume
<1>4. CASE AssembleKernel(j)
  BY <1>4 DEF AssembleKernel, Reserve
<1>5. CASE Extract(j)
  BY <1>5 DEF Extract, Consume
<1>6. CASE AssemblyFails(j)
  BY <1>6 DEF AssemblyFails, SetStatus
<1>7. CASE SubmitJob(j)
  BY <1>7 DEF SubmitJob, SetStatus
<1> QED
  BY <1>1, <1>2, <1>3, <1>4, <1>5, <1>6, <1>7 DEF Assembly

LEMMA OtherLocks ==
    ASSUME Inv, NEW j \in Jobs, Worker(j) \/ DownloadEnds(j) \/ ScanJob(j) \/ Removal(j) \/ World(j)
    PROVE  LockInv'
<1> USE DEF Inv, TypeOK, LockInv, LockOwners, StageReserves, ReservationsSettle, LockFree,
            StreamsOf, Streams, Terminal, Assembling, durable, world, uploads
<1>1. CASE WorkerTakes(j)
  BY <1>1 DEF WorkerTakes, SetStatus
<1>2. CASE WorkerEnds(j)
  BY <1>2 DEF WorkerEnds, SetStatus
<1>3. CASE WorkerLeaves(j)
  BY <1>3 DEF WorkerLeaves
<1>9. CASE DownloadEnds(j)
  BY <1>9 DEF DownloadEnds
<1>4. CASE ScanJob(j)
  <2>1. Removes(j) => StreamsOf(j) = {} /\ j \notin active
    BY NotInUse DEF Removes
  <2>2. CASE TimedOut(j) \/ (Removes(j) /\ QuietUpload(j))
    <3>1. SetStatus(j, "expired") /\ status[j] = "receiving"
      BY <1>4, <2>2 DEF ScanJob, TimedOut, QuietUpload
    <3> QED
      BY <1>4, <2>1, <3>1 DEF ScanJob, SetStatus
  <2>3. CASE ~(TimedOut(j) \/ (Removes(j) /\ QuietUpload(j)))
    <3>1. /\ UNCHANGED <<status, reserved>>
          /\ Removes(j) => status[j] \in Terminal
      BY <1>4, <2>3 DEF ScanJob, Removes
    <3>2. CASE Removes(j)
      BY <1>4, <2>1, <3>1, <3>2 DEF ScanJob
    <3>3. CASE ~Removes(j)
      BY <1>4, <3>1, <3>3 DEF ScanJob
    <3> QED
      BY <3>2, <3>3
  <2> QED
    BY <2>2, <2>3
<1>5. CASE RemoveFile(j)
  BY <1>5 DEF RemoveFile
<1>10. CASE RemovalFails(j)
  BY <1>10 DEF RemovalFails
<1>6. CASE DeleteDone(j)
  BY <1>6 DEF DeleteDone
<1>7. CASE CleanDone(j)
  BY <1>7 DEF CleanDone, SetStatus
<1>8. CASE World(j)
  BY <1>8 DEF World, DeadlinePasses, LeaseRunsOut, CacheChanges
<1> QED
  BY <1>1, <1>2, <1>3, <1>4, <1>5, <1>6, <1>7, <1>8, <1>9, <1>10 DEF Worker, Removal

(* A step of a request or of the world around leaves the locks alone.      *)
LEMMA StreamEnds ==
    ASSUME TypeOK, NEW r \in Requests, stream[r] # None, EndStream(r)
    PROVE  \A j \in Jobs : StreamsOf(j)' \subseteq StreamsOf(j)
BY DEF EndStream, StreamsOf, Streams, TypeOK

LEMMA BodyLocks ==
    ASSUME Inv, NEW r \in Requests, EndOfBody(r)
    PROVE  LockInv'
<1> USE DEF Inv, TypeOK, LockInv, LockOwners, StageReserves, ReservationsSettle, LockFree,
            Stream, Terminal, Assembling, durable, world
<1>1. stream[r] # None /\ EndStream(r)
  BY DEF EndOfBody, StreamFails, StreamTooLate, CommitChunk, ChunkSuperseded
<1>2. \A j \in Jobs : StreamsOf(j)' \subseteq StreamsOf(j)
  BY <1>1, StreamEnds
<1>3. CASE StreamFails(r) \/ ChunkSuperseded(r)
  BY <1>2, <1>3 DEF StreamFails, ChunkSuperseded
<1>4. CASE StreamTooLate(r)
  BY <1>2, <1>4 DEF StreamTooLate, ExpireReceiving, SetStatus
<1>5. CASE CommitChunk(r)
  <2>1. /\ stream[r].job \in Jobs /\ status[stream[r].job] = "receiving" /\ LockFree(stream[r].job)
        /\ \A j \in Jobs : j # stream[r].job => reserved'[j] = reserved[j]
    BY <1>5 DEF CommitChunk, MayCommit, StoreChunk, Consume
  <2> QED
    BY <1>2, <1>5, <2>1 DEF CommitChunk
<1> QED
  BY <1>3, <1>4, <1>5 DEF EndOfBody

LEMMA NextLocks ==
    ASSUME Inv, Next
    PROVE  LockInv'
<1>1. CASE StartScan
  BY <1>1 DEF StartScan, StaleReceiving, CleanupDue, Inv, TypeOK, LockInv, LockOwners, StageReserves,
              ReservationsSettle, Streams, StreamsOf, Terminal, Assembling, durable, world, uploads
<1>2. CASE Restart
  BY <1>2 DEF Restart, RecoveredStatus, Inv, TypeOK, LockInv, LockOwners, StageReserves,
              ReservationsSettle, Terminal, Assembling
<1> QED
  BY <1>1, <1>2, ClientLocks, AssemblyLocks, OtherLocks, BodyLocks DEF Next

-----------------------------------------------------------------------------
(* What assembly reads                                                     *)

(* Only complete_job claims a job for assembly.                            *)
LEMMA Claims ==
    ASSUME Inv, Next, NEW j \in Jobs, status'[j] = "assembling"
    PROVE  status[j] = "assembling" \/ Complete(j)
<1> USE DEF Inv, TypeOK, SetStatus
<1>1. ASSUME NEW k \in Jobs, Client(k)
      PROVE  status[j] = "assembling" \/ Complete(j)
  BY <1>1 DEF Client, CreateJob, Upload, RefuseLate, ExpireReceiving, ChunkAgain, BeginChunk,
              Complete, Cancel, Download, Delete, durable
<1>2. ASSUME NEW k \in Jobs, Assembly(k)
      PROVE  status[j] = "assembling"
  BY <1>2 DEF Assembly, AbandonSlot, NoSpace, BackToReceiving, StartAssembly, AssembleDataset,
              AssembleKernel, Extract, AssemblyFails, SubmitJob
<1>3. ASSUME NEW k \in Jobs, Worker(k) \/ DownloadEnds(k) \/ World(k) \/ Removal(k)
      PROVE  status[j] = "assembling"
  BY <1>3 DEF Worker, WorkerTakes, WorkerEnds, WorkerLeaves, DownloadEnds, World, DeadlinePasses,
              LeaseRunsOut, CacheChanges, Removal, RemoveFile, DeleteDone, CleanDone, RemovalFails,
              durable
<1>4. ASSUME NEW k \in Jobs, ScanJob(k)
      PROVE  status[j] = "assembling"
  BY <1>4 DEF ScanJob
<1>5. ASSUME NEW r \in Requests, EndOfBody(r)
      PROVE  status[j] = "assembling"
  BY <1>5 DEF EndOfBody, StreamFails, StreamTooLate, ExpireReceiving, CommitChunk, ChunkSuperseded,
              durable
<1>6. StartScan \/ Restart => status[j] = "assembling"
  BY DEF StartScan, Restart, RecoveredStatus, durable
<1> QED
  BY <1>1, <1>2, <1>3, <1>4, <1>5, <1>6 DEF Next

(* While a job is assembled, its rows and files stay.                      *)
LEMMA InputsStay ==
    ASSUME Inv, Next, NEW j \in Jobs, status[j] = "assembling", status'[j] = "assembling"
    PROVE  rows'[j] = rows[j] /\ parts'[j] = parts[j]
<1> USE DEF Inv, TypeOK
<1>1. ASSUME NEW r \in Requests, CommitChunk(r)
      PROVE  rows'[j] = rows[j] /\ parts'[j] = parts[j]
  <2>1. stream[r].job # j
    BY <1>1 DEF CommitChunk, MayCommit
  <2>2. stream[r].job \in Jobs /\ stream[r].chunk \in Chunks
    BY <1>1 DEF CommitChunk, Stream
  <2> QED
    BY <1>1, <2>1, <2>2 DEF CommitChunk, StoreChunk
<1>2. ASSUME NEW k \in Jobs, RemoveFile(k) \/ DeleteDone(k)
      PROVE  rows'[j] = rows[j] /\ parts'[j] = parts[j]
  <2>1. k # j
    BY <1>2 DEF RemoveFile, DeleteDone, LockOwners, Assembling
  <2>2. CASE RemoveFile(k)
    BY <2>1, <2>2 DEF RemoveFile
  <2>3. CASE DeleteDone(k)
    BY <2>1, <2>3 DEF DeleteDone
  <2> QED
    BY <1>2, <2>2, <2>3
<1>3. ~Restart
  BY DEF Restart, RecoveredStatus
<1> QED
  BY <1>1, <1>2, <1>3, FileSteps

LEMMA NextAssemblyInputs ==
    ASSUME Inv, Next
    PROVE  AssemblyInputs'
<1> SUFFICES ASSUME NEW j \in Jobs, status'[j] = "assembling", NEW i \in KernelChunks
             PROVE  rows'[j][i] # None /\ parts'[j][i] = rows'[j][i]
  BY DEF AssemblyInputs, HasFile
<1>1. CASE status[j] = "assembling"
  BY <1>1, InputsStay DEF Inv, AssemblyInputs, HasFile
<1>2. CASE Complete(j)
  <2>1. i \in Needed(j) /\ i \in Chunks
    BY DEF Needed, Chunks
  <2> QED
    BY <1>2, <2>1 DEF Complete, Received, Inv, PartsMatch
<1> QED
  BY <1>1, <1>2, Claims

-----------------------------------------------------------------------------
(* The theorems                                                            *)

LEMMA NextInv == Inv /\ [Next]_vars => Inv'
<1>1. Inv /\ Next => Inv'
  BY NextTypes, NextSlots, NextLocks, NextPartsMatch, NextAssemblyInputs DEF Inv, LockInv
<1>2. Inv /\ UNCHANGED vars => Inv'
  <2> SUFFICES ASSUME Inv, UNCHANGED vars PROVE Inv'
    OBVIOUS
  <2> USE DEF vars, durable, world, uploads, Inv
  <2>1. TypeOK'
    BY DEF TypeOK
  <2>2. SlotsExact'
    BY DEF SlotsExact, Streams, StreamsOf, StreamsBy
  <2>3. LockOwners' /\ StageReserves' /\ ReservationsSettle'
    BY DEF LockOwners, StageReserves, ReservationsSettle, Streams, StreamsOf
  <2>4. PartsMatch' /\ AssemblyInputs'
    BY DEF PartsMatch, AssemblyInputs, HasFile
  <2> QED
    BY <2>1, <2>2, <2>3, <2>4
<1> QED
  BY <1>1, <1>2

LEMMA Invariance == Spec => []Inv
BY InitInv, NextInv, PTL DEF Spec

(* The upload counters are exact and within the settings, for any number   *)
(* of tokens, jobs and requests, however bodies end (upload_chunk).        *)
THEOREM UploadSlotsExact == Spec => []SlotsExact
<1>1. Inv => SlotsExact
  BY DEF Inv
<1> QED
  BY <1>1, Invariance, PTL

(* The assembly thread reads the kernel chunks that complete_job checked.  *)
THEOREM AssemblyReadsAccepted == Spec => []AssemblyInputs
<1>1. Inv => AssemblyInputs
  BY DEF Inv
<1> QED
  BY <1>1, Invariance, PTL

(* No job past assembly holds a reservation (StorageBudget).               *)
THEOREM ReservationsEnd == Spec => []ReservationsSettle
<1>1. Inv => ReservationsSettle
  BY DEF Inv
<1> QED
  BY <1>1, Invariance, PTL

(* An acknowledged chunk is never replaced (upload_chunk, second section). *)
THEOREM AcceptedStays == Spec => AcceptedIsFixed
<1>1. ASSUME Inv, Next, NEW j \in Jobs, NEW i \in Chunks, rows[j][i] # None
      PROVE  rows'[j][i] = rows[j][i] \/ status'[j] = "deleted"
  <2> USE <1>1 DEF Inv, TypeOK
  <2>1. ASSUME NEW r \in Requests, CommitChunk(r)
        PROVE  rows'[j][i] = rows[j][i]
    <3>1. stream[r].job \in Jobs /\ stream[r].chunk \in Chunks
      BY <2>1 DEF CommitChunk, Stream
    <3> QED
      BY <2>1, <3>1 DEF CommitChunk, StoreChunk, Accepts
  <2>2. ASSUME NEW k \in Jobs, RemoveFile(k) \/ DeleteDone(k)
        PROVE  rows'[j][i] = rows[j][i] \/ status'[j] = "deleted"
    BY <2>2 DEF RemoveFile, DeleteDone
  <2>3. Restart => UNCHANGED rows
    BY DEF Restart
  <2> QED
    BY <2>1, <2>2, <2>3, FileSteps
<1>2. UNCHANGED vars => UNCHANGED <<rows, status>>
  BY DEF vars, durable
<1>3. Inv /\ [Next]_vars =>
        [\A j \in Jobs, i \in Chunks :
           rows[j][i] # None => rows'[j][i] = rows[j][i] \/ status'[j] = "deleted"]_vars
  BY <1>1, <1>2
<1> QED
  BY <1>3, Invariance, PTL DEF Spec, AcceptedIsFixed

(* Files, row and status of a job in use are never removed (delete_job,    *)
(* cleanup_expired_jobs).                                                  *)
THEOREM UseIsRespected == Spec => NoRemovalUnderUse
<1> DEFINE Gone(j) == \/ \E i \in Chunks : parts[j][i] # None /\ parts'[j][i] = None
                      \/ status'[j] \in {"cleaned", "deleted"} /\ status'[j] # status[j]
<1>1. ASSUME Inv, Next, NEW j \in Jobs, NEW i \in Chunks, parts[j][i] # None, parts'[j][i] = None
      PROVE  holder[j] \in {"delete", "clean"}
  <2> USE <1>1, UploadAssumption DEF Inv, TypeOK
  <2>1. ASSUME NEW r \in Requests, CommitChunk(r)
        PROVE  FALSE
    <3>1. stream[r].job \in Jobs /\ stream[r].chunk \in Chunks /\ stream[r].sha \in Contents
      BY <2>1 DEF CommitChunk, Stream
    <3> QED
      BY <2>1, <3>1 DEF CommitChunk, StoreChunk
  <2>2. ASSUME NEW k \in Jobs, RemoveFile(k) \/ DeleteDone(k)
        PROVE  holder[j] \in {"delete", "clean"}
    BY <2>2 DEF RemoveFile, DeleteDone
  <2>3. ~Restart
    <3>1. ASSUME NEW r \in Requests, CommitInterrupted(r)
          PROVE  FALSE
      <4>1. stream[r].job \in Jobs /\ stream[r].chunk \in Chunks /\ stream[r].sha \in Contents
        BY <3>1 DEF CommitInterrupted, Stream
      <4> QED
        BY <3>1, <4>1 DEF CommitInterrupted
    <3> QED
      BY <3>1 DEF Restart
  <2> QED
    BY <2>1, <2>2, <2>3, FileSteps
<1>2. ASSUME Inv, Next, NEW j \in Jobs,
             status'[j] \in {"cleaned", "deleted"}, status'[j] # status[j]
      PROVE  holder[j] \in {"delete", "clean"}
  <2> USE <1>2 DEF Inv, TypeOK, SetStatus, durable
  <2>1. ASSUME NEW k \in Jobs, Client(k)
        PROVE  FALSE
    BY <2>1 DEF Client, CreateJob, Upload, RefuseLate, ExpireReceiving, ChunkAgain, BeginChunk,
                Complete, Cancel, Download, Delete
  <2>2. ASSUME NEW k \in Jobs, Assembly(k)
        PROVE  FALSE
    BY <2>2 DEF Assembly, AbandonSlot, NoSpace, BackToReceiving, StartAssembly, AssembleDataset,
                AssembleKernel, Extract, AssemblyFails, SubmitJob
  <2>3. ASSUME NEW k \in Jobs, Worker(k) \/ DownloadEnds(k) \/ World(k) \/ ScanJob(k)
        PROVE  FALSE
    BY <2>3 DEF Worker, WorkerTakes, WorkerEnds, WorkerLeaves, DownloadEnds, World, DeadlinePasses,
                LeaseRunsOut, CacheChanges, ScanJob
  <2>4. ASSUME NEW k \in Jobs, Removal(k)
        PROVE  holder[j] \in {"delete", "clean"}
    BY <2>4 DEF Removal, RemoveFile, DeleteDone, CleanDone, RemovalFails
  <2>5. ASSUME NEW r \in Requests, EndOfBody(r)
        PROVE  FALSE
    BY <2>5 DEF EndOfBody, StreamFails, StreamTooLate, ExpireReceiving, CommitChunk, ChunkSuperseded
  <2>6. ~StartScan /\ ~Restart
    BY DEF StartScan, Restart, RecoveredStatus
  <2> QED
    BY <2>1, <2>2, <2>3, <2>4, <2>5, <2>6 DEF Next
<1>3. Inv /\ Next => \A j \in Jobs : Gone(j) => StreamsOf(j) = {} /\ j \notin active
  BY <1>1, <1>2 DEF Inv, LockOwners
<1>4. UNCHANGED vars => \A j \in Jobs : ~Gone(j)
  BY DEF vars, durable
<1>5. Inv /\ [Next]_vars => [\A j \in Jobs : Gone(j) => StreamsOf(j) = {} /\ j \notin active]_vars
  BY <1>3, <1>4
<1> QED
  BY <1>5, Invariance, PTL DEF Spec, NoRemovalUnderUse

(* Past the deadline of a job no chunk is recorded and it is not submitted *)
(* (reject_expired_upload in both sections and in complete_job).           *)
THEOREM DeadlineHolds == Spec => DeadlineFinal
<1> DEFINE Refuses(j) == /\ \A i \in Chunks : rows[j][i] = None => rows'[j][i] = None
                         /\ status[j] = "receiving" => status'[j] # "assembling"
<1>1. ASSUME Inv, Next, NEW j \in Jobs, j \in late, NEW i \in Chunks, rows[j][i] = None
      PROVE  rows'[j][i] = None
  <2> USE <1>1 DEF Inv, TypeOK
  <2>1. ASSUME NEW r \in Requests, CommitChunk(r)
        PROVE  rows'[j][i] = None
    <3>1. stream[r].job # j /\ stream[r].job \in Jobs /\ stream[r].chunk \in Chunks
      BY <2>1 DEF CommitChunk, MayCommit, Overdue, Stream
    <3> QED
      BY <2>1, <3>1 DEF CommitChunk, StoreChunk
  <2>2. ASSUME NEW k \in Jobs, RemoveFile(k) \/ DeleteDone(k)
        PROVE  rows'[j][i] = None
    <3>1. CASE RemoveFile(k)
      BY <3>1 DEF RemoveFile
    <3>2. CASE DeleteDone(k)
      BY <3>2 DEF DeleteDone, Empty
    <3> QED
      BY <2>2, <3>1, <3>2
  <2>3. Restart => UNCHANGED rows
    BY DEF Restart
  <2> QED
    BY <2>1, <2>2, <2>3, FileSteps
<1>2. ASSUME Inv, Next, NEW j \in Jobs, j \in late, status[j] = "receiving"
      PROVE  status'[j] # "assembling"
  BY <1>2, Claims DEF Complete, Overdue
<1>3. Inv /\ Next => \A j \in Jobs : j \in late => Refuses(j)
  BY <1>1, <1>2
<1>4. UNCHANGED vars => \A j \in Jobs : Refuses(j)
  BY DEF vars, durable
<1>5. Inv /\ [Next]_vars => [\A j \in Jobs : j \in late => Refuses(j)]_vars
  BY <1>3, <1>4
<1> QED
  BY <1>5, Invariance, PTL DEF Spec, DeadlineFinal

(* An upload in time expires only when it is still quiet at the cleanup's  *)
(* turn and sends no body (cleanup_expired_jobs, under the job lock):      *)
(* every other step that expires a job needs the deadline.                 *)
THEOREM LeaseIsHonoured == Spec => LeaseHonoured
<1> DEFINE Lapses(j) == status[j] = "receiving" /\ status'[j] = "expired" /\ j \notin late
<1>1. ASSUME Inv, Next, NEW j \in Jobs, Lapses(j)
      PROVE  j \in quiet /\ StreamsOf(j) = {}
  <2> USE <1>1 DEF Inv, TypeOK, SetStatus, durable
  <2>1. ASSUME NEW k \in Jobs, Client(k)
        PROVE  FALSE
    BY <2>1 DEF Client, CreateJob, Upload, RefuseLate, ExpireReceiving, Overdue, ChunkAgain,
                BeginChunk, Complete, Cancel, Download, Delete
  <2>2. ASSUME NEW k \in Jobs, Assembly(k)
        PROVE  FALSE
    BY <2>2 DEF Assembly, AbandonSlot, NoSpace, BackToReceiving, StartAssembly, AssembleDataset,
                AssembleKernel, Extract, AssemblyFails, SubmitJob
  <2>3. ASSUME NEW k \in Jobs, Worker(k) \/ DownloadEnds(k) \/ World(k) \/ Removal(k)
        PROVE  FALSE
    BY <2>3 DEF Worker, WorkerTakes, WorkerEnds, WorkerLeaves, DownloadEnds, World, DeadlinePasses,
                LeaseRunsOut, CacheChanges, Removal, RemoveFile, DeleteDone, CleanDone, RemovalFails
  <2>4. ASSUME NEW r \in Requests, EndOfBody(r)
        PROVE  FALSE
    BY <2>4 DEF EndOfBody, StreamFails, StreamTooLate, ExpireReceiving, Overdue, CommitChunk,
                ChunkSuperseded
  <2>5. ~StartScan /\ ~Restart
    BY DEF StartScan, Restart, RecoveredStatus
  <2>6. ASSUME NEW k \in Jobs, ScanJob(k)
        PROVE  j \in quiet /\ StreamsOf(j) = {}
    <3>1. k = j /\ ~TimedOut(j)
      BY <2>6 DEF ScanJob, TimedOut, Overdue
    <3>2. Removes(j) /\ QuietUpload(j)
      BY <2>6, <3>1 DEF ScanJob
    <3> QED
      BY <3>2, NotInUse DEF Removes, QuietUpload
  <2> QED
    BY <2>1, <2>2, <2>3, <2>4, <2>5, <2>6 DEF Next
<1>2. UNCHANGED vars => \A j \in Jobs : ~Lapses(j)
  BY DEF vars, durable
<1>3. Inv /\ [Next]_vars =>
        [\A j \in Jobs : Lapses(j) => j \in quiet /\ StreamsOf(j) = {}]_vars
  BY <1>1, <1>2
<1> QED
  BY <1>3, Invariance, PTL DEF Spec, LeaseHonoured

-----------------------------------------------------------------------------
(* The refinement of UploadContract                                        *)

ContractInv == Inv /\ StageArchives

(* Only the digest of the kernel archive leads to the last stages.         *)
LEMMA Stages ==
    ASSUME Inv, Next, NEW j \in Jobs, holder'[j] \in {"extract", "check"}
    PROVE  holder[j] \in {"extract", "check"} \/ AssembleKernel(j)
<1> USE DEF Inv, TypeOK
<1>1. ASSUME NEW k \in Jobs, Client(k)
      PROVE  holder[j] \in {"extract", "check"}
  BY <1>1 DEF Client, CreateJob, Upload, RefuseLate, ChunkAgain, BeginChunk, Complete, Cancel,
              Download, Delete
<1>2. ASSUME NEW k \in Jobs, Assembly(k)
      PROVE  holder[j] \in {"extract", "check"} \/ AssembleKernel(j)
  <2>1. CASE k = j
    BY <1>2, <2>1 DEF Assembly, AbandonSlot, NoSpace, BackToReceiving, StartAssembly,
                      AssembleDataset, Extract, AssemblyFails, SubmitJob
  <2>2. CASE k # j
    BY <1>2, <2>2 DEF Assembly, AbandonSlot, NoSpace, BackToReceiving, StartAssembly,
                      AssembleDataset, AssembleKernel, Extract, AssemblyFails, SubmitJob
  <2> QED
    BY <2>1, <2>2
<1>3. ASSUME NEW k \in Jobs, Worker(k) \/ DownloadEnds(k) \/ World(k) \/ Removal(k)
      PROVE  holder[j] \in {"extract", "check"}
  BY <1>3 DEF Worker, WorkerTakes, WorkerEnds, WorkerLeaves, DownloadEnds, World, DeadlinePasses,
              LeaseRunsOut, CacheChanges, Removal, RemoveFile, DeleteDone, CleanDone, RemovalFails
<1>4. ASSUME NEW k \in Jobs, ScanJob(k)
      PROVE  holder[j] \in {"extract", "check"}
  BY <1>4 DEF ScanJob
<1>5. ASSUME NEW r \in Requests, EndOfBody(r)
      PROVE  holder[j] \in {"extract", "check"}
  BY <1>5 DEF EndOfBody, StreamFails, StreamTooLate, CommitChunk, ChunkSuperseded
<1>6. StartScan \/ Restart => holder[j] \in {"extract", "check"}
  BY DEF StartScan, Restart
<1> QED
  BY <1>1, <1>2, <1>3, <1>4, <1>5, <1>6 DEF Next

(* The archive whose digest was right is not touched before submission.    *)
LEMMA ContractInvHolds == Spec => []ContractInv
<1>1. Init => StageArchives
  BY DEF Init, StageArchives
<1>2. ASSUME Inv, StageArchives, Next, Inv', NEW j \in Jobs, holder'[j] \in {"extract", "check"}
      PROVE  ArchiveGood(j, KernelChunks)'
  <2>1. ArchiveGood(j, KernelChunks)
    BY <1>2, Stages DEF StageArchives, AssembleKernel
  <2>2. status'[j] = "assembling" /\ status[j] = "assembling"
    BY <1>2, Stages DEF Inv, LockOwners, Assembling, AssembleKernel
  <2> QED
    BY <1>2, <2>1, <2>2, InputsStay DEF ArchiveGood
<1>3. ASSUME Inv, StageArchives, UNCHANGED vars
      PROVE  StageArchives'
  BY <1>3 DEF StageArchives, ArchiveGood, vars, durable
<1>4. Inv /\ Inv' /\ StageArchives /\ [Next]_vars => StageArchives'
  BY <1>2, <1>3 DEF StageArchives
<1> QED
  BY <1>1, <1>4, Invariance, PTL DEF Spec, ContractInv

(* One row and one lock, as the contract sees them                         *)
LEMMA PhaseOf ==
    \A j \in Jobs : Phase[j] = IF status[j] \in {"queued", "running"} THEN "submitted" ELSE status[j]
BY DEF Phase

LEMMA RowMoves ==
    ASSUME TypeOK, NEW j \in Jobs, NEW s \in Status, status' = [status EXCEPT ![j] = s]
    PROVE  Phase' = [Phase EXCEPT ![j] = IF s \in {"queued", "running"} THEN "submitted" ELSE s]
BY DEF TypeOK, Phase

LEMMA LockMoves ==
    ASSUME TypeOK, NEW j \in Jobs, NEW h, holder' = [holder EXCEPT ![j] = h]
    PROVE  /\ h \in {"kernel", "extract", "check"} => DatasetDone' = DatasetDone \cup {j}
           /\ h \notin {"kernel", "extract", "check"} => DatasetDone' = DatasetDone \ {j}
BY DEF TypeOK, DatasetDone

(* Outside assembly the lock of a job is nothing to the contract.          *)
LEMMA LockQuiet ==
    ASSUME Inv, NEW j \in Jobs, status[j] # "assembling"
    PROVE  DatasetDone \ {j} = DatasetDone
BY DEF Inv, LockOwners, Assembling, DatasetDone

(* Steps that the contract does not see                                    *)
LEMMA Silent ==
    ASSUME UNCHANGED <<status, rows>>, DatasetDone' = DatasetDone
    PROVE  UNCHANGED Contract!view
BY DEF Contract!view, Phase

(* A step that only writes one row's status outside assembly               *)
LEMMA StatusMoves ==
    ASSUME Inv, NEW j \in Jobs, NEW s \in Status \ {"queued", "running"}, NEW from,
           SetStatus(j, s), UNCHANGED <<rows, holder>>, status[j] # "assembling", Phase[j] \in from
    PROVE  Contract!Moves(j, from, s) /\ UNCHANGED rows
<1>1. Phase' = [Phase EXCEPT ![j] = s]
  BY RowMoves DEF Inv, SetStatus
<1>2. DatasetDone' = DatasetDone \ {j}
  BY LockQuiet DEF DatasetDone
<1> QED
  BY <1>1, <1>2 DEF Contract!Moves

LEMMA OverdueExpires ==
    ASSUME Inv, NEW j \in Jobs, ExpireReceiving(j), UNCHANGED <<rows, holder>>
    PROVE  Contract!Expire(j)
<1>1. status[j] = "receiving" /\ j \in late /\ SetStatus(j, "expired")
  BY DEF ExpireReceiving, Overdue
<1>2. Phase[j] \in {"receiving"}
  BY <1>1 DEF Phase
<1> QED
  BY <1>1, <1>2, StatusMoves DEF Contract!Expire, Status

(* Requests, the bodies of chunks apart                                    *)
LEMMA ClientContract ==
    ASSUME Inv, NEW j \in Jobs, Client(j)
    PROVE  Contract!Next \/ UNCHANGED Contract!view
<1>1. CASE CreateJob(j)
  <2>1. /\ status[j] = "new" /\ status' = [status EXCEPT ![j] = "receiving"]
        /\ UNCHANGED <<rows, holder>>
    BY <1>1 DEF CreateJob
  <2>2. Phase' = [Phase EXCEPT ![j] = "receiving"]
    BY <2>1, RowMoves DEF Inv, Status
  <2>3. DatasetDone' = DatasetDone \ {j}
    BY <2>1, LockQuiet DEF DatasetDone
  <2>4. Contract!Moves(j, {"new"}, "receiving")
    BY <2>1, <2>2, <2>3 DEF Contract!Moves, Phase
  <2>5. Contract!Unfinished = Open
    <3>1. \A k \in Jobs : Phase[k] \in {"receiving", "assembling", "submitted"}
                           <=> status[k] \in {"receiving", "assembling", "queued", "running"}
      BY PhaseOf DEF Inv, TypeOK, Status
    <3> QED
      BY <3>1 DEF Contract!Unfinished, Open
  <2>6. \A S : Contract!Cardinality(S) = Cardinality(S)
    BY Zenon DEF Contract!Cardinality, Cardinality
  <2>7. Contract!Create(j)
    BY <1>1, <2>1, <2>4, <2>5, <2>6 DEF CreateJob, Admitted, Contract!Create
  <2> QED
    BY <2>7 DEF Contract!Next
<1>2. CASE RefuseLate(j)
  <2>1. Contract!Expire(j)
    BY <1>2, OverdueExpires DEF RefuseLate
  <2> QED
    BY <2>1 DEF Contract!Next
<1>3. CASE Complete(j)
  <2>1. /\ status[j] = "receiving" /\ j \notin late
        /\ status' = [status EXCEPT ![j] = "assembling"]
        /\ holder' = [holder EXCEPT ![j] = "slot"]
        /\ UNCHANGED rows
    BY <1>3 DEF Complete, SetStatus, Overdue
  <2>2. Contract!Moves(j, {"receiving"}, "assembling")
    <3>1. Phase[j] = "receiving"
      BY <2>1 DEF Phase
    <3>2. Phase' = [Phase EXCEPT ![j] = "assembling"]
      BY <2>1, RowMoves DEF Inv, Status
    <3>3. DatasetDone' = DatasetDone \ {j}
      BY <2>1 DEF Inv, TypeOK, DatasetDone
    <3> QED
      BY <3>1, <3>2, <3>3 DEF Contract!Moves
  <2>3. \A i \in Needed(j) : rows[j][i] # None
    BY <1>3 DEF Complete, Received
  <2>4. /\ \A i \in KernelChunks : rows[j][i] # None
        /\ j \in cached \/ \A i \in DatasetChunks : rows[j][i] # None
    BY <2>3 DEF Needed, CacheHit, Chunks
  <2>5. Contract!Claim(j)
    BY <2>1, <2>2, <2>4 DEF Contract!Claim
  <2> QED
    BY <2>5 DEF Contract!Next
<1>4. CASE Cancel(j)
  <2>1. /\ status[j] \in {"receiving", "queued"} /\ SetStatus(j, "ended")
        /\ UNCHANGED <<rows, holder>>
    BY <1>4 DEF Cancel
  <2>2. Phase[j] \in {"receiving", "submitted"}
    BY <2>1 DEF Phase
  <2>3. Contract!End(j)
    BY <2>1, <2>2, StatusMoves DEF Contract!End, Status
  <2> QED
    BY <2>3 DEF Contract!Next
<1>5. CASE Download(j) \/ Delete(j)
  <2>1. /\ UNCHANGED <<status, rows>> /\ LockFree(j)
        /\ holder' = [holder EXCEPT ![j] = "download"] \/ holder' = [holder EXCEPT ![j] = "delete"]
    BY <1>5 DEF Download, Delete, durable
  <2>2. DatasetDone' = DatasetDone \ {j}
    BY <2>1, LockMoves DEF Inv
  <2>3. DatasetDone \ {j} = DatasetDone
    BY <2>1 DEF LockFree, DatasetDone
  <2> QED
    BY <2>1, <2>2, <2>3, Silent
<1>6. CASE UNCHANGED <<status, rows, holder>>
  BY <1>6, Silent DEF DatasetDone
<1>7. Upload(j) => RefuseLate(j) \/ UNCHANGED <<status, rows, holder>>
  BY DEF Upload, ChunkAgain, BeginChunk, durable
<1> QED
  BY <1>1, <1>2, <1>3, <1>4, <1>5, <1>6, <1>7 DEF Client

(* A body that ends: only a stored chunk and an expiry are seen.           *)
LEMMA BodyContract ==
    ASSUME Inv, NEW r \in Requests, EndOfBody(r)
    PROVE  Contract!Next \/ UNCHANGED Contract!view
<1> USE DEF Inv, TypeOK
<1>1. CASE StreamFails(r) \/ ChunkSuperseded(r)
  BY <1>1, Silent DEF StreamFails, ChunkSuperseded, durable, DatasetDone
<1>2. CASE StreamTooLate(r)
  <2>1. stream[r].job \in Jobs
    BY <1>2 DEF StreamTooLate, Stream
  <2>2. Contract!Expire(stream[r].job)
    BY <1>2, <2>1, OverdueExpires DEF StreamTooLate
  <2> QED
    BY <2>1, <2>2 DEF Contract!Next
<1>3. CASE CommitChunk(r)
  <2> DEFINE j == stream[r].job
             i == stream[r].chunk
             c == stream[r].sha
  <2>1. j \in Jobs /\ i \in Chunks /\ c \in Contents /\ j \in Sending
    BY <1>3 DEF CommitChunk, Stream, Sending, StreamsOf, Streams
  <2>2. /\ status[j] = "receiving" /\ j \notin late
        /\ rows[j][i] \in {None, c} /\ rows' = [rows EXCEPT ![j][i] = c]
        /\ UNCHANGED <<status, holder>>
    BY <1>3 DEF CommitChunk, MayCommit, Overdue, Accepts, StoreChunk
  <2> HIDE DEF j, i, c
  <2>3. CASE rows[j][i] = None
    <3>1. UNCHANGED <<Phase, DatasetDone>> /\ Phase[j] = "receiving"
      BY <2>1, <2>2 DEF Phase, DatasetDone
    <3>2. Contract!Acknowledge(j, i, c)
      BY <2>1, <2>2, <2>3, <3>1 DEF Contract!Acknowledge
    <3> QED
      BY <2>1, <3>2 DEF Contract!Next, Chunks
  <2>4. CASE rows[j][i] = c
    <3>1. rows' = rows
      BY <2>1, <2>2, <2>4
    <3> QED
      BY <2>2, <3>1, Silent DEF DatasetDone
  <2> QED
    BY <2>2, <2>3, <2>4
<1> QED
  BY <1>1, <1>2, <1>3 DEF EndOfBody

(* The assembly thread: submission needs the digests of both archives.     *)
LEMMA AssemblyContract ==
    ASSUME ContractInv, NEW j \in Jobs, Assembly(j)
    PROVE  Contract!Next \/ UNCHANGED Contract!view
<1>1. Inv /\ TypeOK /\ StageArchives /\ status[j] = "assembling" /\ UNCHANGED rows
  BY DEF ContractInv, Inv, LockOwners, Assembling, Assembly, AbandonSlot, NoSpace, BackToReceiving,
         StartAssembly, AssembleDataset, AssembleKernel, Extract, AssemblyFails, SubmitJob
<1>2. Phase[j] = "assembling"
  BY <1>1, PhaseOf
<1>3. \A i \in KernelChunks : rows[j][i] = parts[j][i]
  BY <1>1 DEF Inv, AssemblyInputs, HasFile
<1>4. CASE AbandonSlot(j) \/ NoSpace(j)
  <2>1. /\ status' = [status EXCEPT ![j] = "receiving"]
        /\ holder' = [holder EXCEPT ![j] = "nobody"]
    BY <1>4 DEF AbandonSlot, NoSpace, BackToReceiving
  <2>2. Phase' = [Phase EXCEPT ![j] = "receiving"]
    BY <1>1, <2>1, RowMoves DEF Status
  <2>3. DatasetDone' = DatasetDone \ {j}
    BY <1>1, <2>1 DEF TypeOK, DatasetDone
  <2>4. Contract!Release(j)
    BY <1>1, <1>2, <2>2, <2>3 DEF Contract!Release, Contract!Moves
  <2> QED
    BY <2>4 DEF Contract!Next
<1>5. CASE AssemblyFails(j) \/ SubmitJob(j)
  <2>1. /\ holder' = [holder EXCEPT ![j] = "nobody"]
        /\ \/ status' = [status EXCEPT ![j] = "ended"]
           \/ holder[j] = "check" /\ status' = [status EXCEPT ![j] = "queued"]
    BY <1>5 DEF AssemblyFails, SubmitJob, SetStatus
  <2>2. DatasetDone' = DatasetDone \ {j}
    BY <1>1, <2>1 DEF TypeOK, DatasetDone
  <2>3. CASE status' = [status EXCEPT ![j] = "ended"]
    <3>1. Phase' = [Phase EXCEPT ![j] = "ended"]
      BY <1>1, <2>3, RowMoves DEF Status
    <3>2. Contract!Reject(j) \/ Contract!Forgets(j)
      BY <1>1, <1>2, <2>2, <3>1 DEF Contract!Reject, Contract!Forgets, Contract!Moves
    <3> QED
      BY <3>2 DEF Contract!Next
  <2>4. CASE holder[j] = "check" /\ status' = [status EXCEPT ![j] = "queued"]
    <3>1. Phase' = [Phase EXCEPT ![j] = "submitted"]
      BY <1>1, <2>4, RowMoves DEF Status
    <3>2. Contract!KernelRight(j)
      BY <1>1, <1>3, <2>4 DEF StageArchives, ArchiveGood, Contract!KernelRight
    <3>3. j \in DatasetDone
      BY <2>4 DEF DatasetDone
    <3>4. Contract!Submit(j)
      BY <1>1, <1>2, <2>2, <3>1, <3>2, <3>3 DEF Contract!Submit, Contract!Moves
    <3> QED
      BY <3>4 DEF Contract!Next
  <2> QED
    BY <2>1, <2>3, <2>4
<1>6. CASE StartAssembly(j) \/ AssembleDataset(j)
  <2>1. /\ UNCHANGED <<status, rows>>
        /\ \/ holder' = [holder EXCEPT ![j] = "dataset"] /\ holder[j] = "slot"
           \/ holder' = [holder EXCEPT ![j] = "kernel"]
    BY <1>6 DEF StartAssembly, AssembleDataset
  <2>2. CASE holder' = [holder EXCEPT ![j] = "dataset"] /\ holder[j] = "slot"
    <3>1. DatasetDone' = DatasetDone
      BY <1>1, <2>2 DEF TypeOK, DatasetDone
    <3> QED
      BY <2>1, <3>1, Silent
  <2>3. CASE holder' = [holder EXCEPT ![j] = "kernel"]
    <3>1. DatasetDone' = DatasetDone \cup {j}
      BY <1>1, <2>3 DEF TypeOK, DatasetDone
    <3>2. j \in cached \/ ArchiveGood(j, DatasetChunks)
      BY <1>1, <1>6, <2>3 DEF StartAssembly, AssembleDataset, CacheHit, TypeOK
    <3>3. Contract!DatasetRight(j)
      BY <1>1, <3>2, UploadAssumption
         DEF Inv, PartsMatch, ArchiveGood, Contract!DatasetRight, Chunks
    <3>4. Contract!Settle(j)
      BY <1>2, <2>1, <3>1, <3>3 DEF Contract!Settle, Phase
    <3> QED
      BY <3>4 DEF Contract!Next
  <2> QED
    BY <2>1, <2>2, <2>3
<1>7. CASE AssembleKernel(j) \/ Extract(j)
  <2>1. UNCHANGED <<status, rows>> /\ DatasetDone' = DatasetDone
    BY <1>1, <1>7 DEF AssembleKernel, Extract, TypeOK, DatasetDone
  <2> QED
    BY <2>1, Silent
<1> QED
  BY <1>4, <1>5, <1>6, <1>7 DEF Assembly

(* Workers, cleanup, deletion and the clock                                *)
LEMMA OtherContract ==
    ASSUME Inv, NEW j \in Jobs, Worker(j) \/ DownloadEnds(j) \/ ScanJob(j) \/ Removal(j) \/ World(j)
    PROVE  Contract!Next \/ UNCHANGED Contract!view
<1> TypeOK
  BY DEF Inv
<1>1. CASE WorkerTakes(j)
  <2>1. /\ status[j] \in {"queued", "running"} /\ status' = [status EXCEPT ![j] = "running"]
        /\ UNCHANGED <<rows, holder>>
    BY <1>1 DEF WorkerTakes, SetStatus
  <2>2. Phase' = Phase /\ DatasetDone' = DatasetDone
    BY <2>1 DEF TypeOK, Phase, DatasetDone
  <2> QED
    BY <2>1, <2>2 DEF Contract!view
<1>2. CASE WorkerEnds(j)
  <2>1. status[j] = "running" /\ SetStatus(j, "ended") /\ UNCHANGED <<rows, holder>>
    BY <1>2 DEF WorkerEnds
  <2>2. Phase[j] \in {"receiving", "submitted"}
    BY <2>1, PhaseOf
  <2>3. Contract!End(j)
    BY <2>1, <2>2, StatusMoves DEF Contract!End, Status
  <2> QED
    BY <2>3 DEF Contract!Next
<1>3. CASE WorkerLeaves(j) \/ World(j)
  BY <1>3, Silent DEF WorkerLeaves, World, DeadlinePasses, LeaseRunsOut, CacheChanges, durable, DatasetDone
<1>4. CASE DownloadEnds(j) \/ RemoveFile(j) \/ RemovalFails(j)
  <2>1. UNCHANGED <<status, rows>> /\ DatasetDone' = DatasetDone
    BY <1>4 DEF DownloadEnds, RemoveFile, RemovalFails, durable, TypeOK, DatasetDone
  <2> QED
    BY <2>1, Silent
<1>5. CASE ScanJob(j)
  <2>1. /\ UNCHANGED rows
        /\ holder[j] = "nobody" /\ (UNCHANGED holder \/ holder' = [holder EXCEPT ![j] = "clean"])
    BY <1>5 DEF ScanJob, LockFree, TypeOK
  <2>2. DatasetDone' = DatasetDone /\ DatasetDone \ {j} = DatasetDone
    BY <2>1 DEF TypeOK, DatasetDone
  <2>3. CASE TimedOut(j) \/ (Removes(j) /\ QuietUpload(j))
    <3>1. /\ status[j] = "receiving" /\ status' = [status EXCEPT ![j] = "expired"]
          /\ j \in late \/ (j \in quiet /\ ~InUse(j))
      BY <1>5, <2>3 DEF ScanJob, SetStatus, TimedOut, Overdue, Removes, QuietUpload
    <3>2. j \in late \/ j \in quiet \ Sending
      BY <3>1, NotInUse DEF Inv, Sending
    <3>3. Phase[j] = "receiving" /\ Phase' = [Phase EXCEPT ![j] = "expired"]
      BY <3>1, PhaseOf, RowMoves DEF Status
    <3>4. Contract!Expire(j)
      BY <2>1, <2>2, <3>2, <3>3 DEF Contract!Expire, Contract!Moves
    <3> QED
      BY <3>4 DEF Contract!Next
  <2>4. CASE ~(TimedOut(j) \/ (Removes(j) /\ QuietUpload(j)))
    <3>1. UNCHANGED status
      BY <1>5, <2>4 DEF ScanJob
    <3> QED
      BY <2>1, <2>2, <3>1, Silent
  <2> QED
    BY <2>3, <2>4
<1>6. CASE DeleteDone(j) \/ CleanDone(j)
  <2>1. /\ holder[j] \in {"delete", "clean"} /\ holder' = [holder EXCEPT ![j] = "nobody"]
        /\ \/ /\ holder[j] = "delete" /\ status' = [status EXCEPT ![j] = "deleted"]
              /\ rows' = [rows EXCEPT ![j] = Empty]
           \/ /\ holder[j] = "clean" /\ status' = [status EXCEPT ![j] = "cleaned"]
              /\ UNCHANGED rows
    BY <1>6 DEF DeleteDone, CleanDone, SetStatus
  <2>2. DatasetDone' = DatasetDone \ {j}
    BY <2>1 DEF TypeOK, DatasetDone
  <2>3. ~Contract!InUse(j)
    BY <2>1 DEF Inv, LockOwners, Contract!InUse, Sending
  <2>4. CASE holder[j] = "delete"
    <3>1. Phase' = [Phase EXCEPT ![j] = "deleted"]
      BY <2>1, <2>4, RowMoves DEF Status
    <3>2. Phase[j] \in {"receiving", "ended", "expired", "cleaned"}
      BY <2>4, PhaseOf DEF Inv, LockOwners, Terminal
    <3>3. rows' = [rows EXCEPT ![j] = Contract!Empty]
      BY <2>1, <2>4 DEF Empty, Contract!Empty, Chunks
    <3>4. Contract!Delete(j)
      BY <2>2, <2>3, <3>1, <3>2, <3>3 DEF Contract!Delete, Contract!Moves
    <3> QED
      BY <3>4 DEF Contract!Next
  <2>5. CASE holder[j] = "clean"
    <3>1. Phase' = [Phase EXCEPT ![j] = "cleaned"] /\ UNCHANGED rows
      BY <2>1, <2>5, RowMoves DEF Status
    <3>2. Phase[j] \in {"ended", "expired", "cleaned"}
      BY <2>5, PhaseOf DEF Inv, LockOwners, Terminal
    <3>3. CASE Phase[j] = "cleaned"
      <4>1. Phase' = Phase
        BY <3>1, <3>3 DEF Phase
      <4>2. DatasetDone' = DatasetDone
        BY <2>1, <2>2 DEF DatasetDone
      <4> QED
        BY <3>1, <4>1, <4>2 DEF Contract!view
    <3>4. CASE Phase[j] # "cleaned"
      <4>1. Contract!Clean(j)
        BY <2>2, <2>3, <3>1, <3>2, <3>4 DEF Contract!Clean, Contract!Moves
      <4> QED
        BY <4>1 DEF Contract!Next
    <3> QED
      BY <3>3, <3>4
  <2> QED
    BY <2>1, <2>4, <2>5
<1> QED
  BY <1>1, <1>2, <1>3, <1>4, <1>5, <1>6 DEF Worker, Removal

(* Recovery, for all jobs at once                                          *)
LEMMA RestartContract ==
    ASSUME Inv, Restart
    PROVE  Contract!Recover
<1>1. DatasetDone' = {} /\ UNCHANGED rows
  BY DEF Restart, DatasetDone
<1>2. Phase' = [j \in Jobs |-> Phase'[j]]
  BY DEF Phase
<1>3. ASSUME NEW j \in Jobs
      PROVE  Contract!Resumes(j) \/ Contract!GivesUp(j)
  <2>1. /\ status'[j] \in RecoveredStatus(j)
        /\ Phase'[j] = IF status'[j] \in {"queued", "running"} THEN "submitted" ELSE status'[j]
        /\ Phase[j] = IF status[j] \in {"queued", "running"} THEN "submitted" ELSE status[j]
    BY DEF Restart, Phase
  <2>2. CASE status'[j] = status[j] /\ status[j] # "assembling"
    BY <2>1, <2>2 DEF Contract!Resumes
  <2>3. CASE status'[j] = "ended" /\ status[j] \in {"assembling", "running"}
    BY <2>1, <2>3 DEF Contract!Resumes, Contract!GivesUp
  <2>4. CASE status'[j] = "queued" /\ status[j] = "running"
    BY <2>1, <2>4 DEF Contract!Resumes
  <2>5. CASE status'[j] = "queued" /\ status[j] = "assembling" /\ ArchiveGood(j, Needed(j))
    <3>1. Contract!KernelRight(j)
      BY <2>5 DEF ArchiveGood, Needed, Chunks, Inv, AssemblyInputs, HasFile, Contract!KernelRight
    <3>2. Contract!DatasetRight(j)
      BY <2>5, UploadAssumption
         DEF ArchiveGood, Needed, CacheHit, Chunks, Inv, PartsMatch, Contract!DatasetRight
    <3> QED
      BY <2>1, <2>5, <3>1, <3>2 DEF Contract!Resumes
  <2> QED
    BY <2>1, <2>2, <2>3, <2>4, <2>5 DEF RecoveredStatus
<1> QED
  BY <1>1, <1>2, <1>3 DEF Contract!Recover

(* KeepsUploads: create_job, the second locked section of upload_chunk,    *)
(* complete_job with its assembly, expiry, cleanup, deletion and recovery  *)
(* are where the relay takes the steps of UploadContract, in that order    *)
(* only; all else is invisible.  An assembly ends in failure by Reject or  *)
(* by the contract's two exceptions, Forgets and, at a restart, GivesUp.   *)
THEOREM UploadsAreKept == Spec => KeepsUploads
<1>1. Init => Contract!Init
  BY DEF Init, Contract!Init, Phase, DatasetDone, Empty, Contract!Empty, Chunks
<1>2. ASSUME ContractInv, Next
      PROVE  Contract!Next \/ UNCHANGED Contract!view
  <2>1. Inv
    BY <1>2 DEF ContractInv
  <2>2. StartScan => UNCHANGED Contract!view
    BY Silent DEF StartScan, durable, DatasetDone
  <2>3. Restart => Contract!Next
    BY <2>1, RestartContract DEF Contract!Next
  <2> QED
    BY <1>2, <2>1, <2>2, <2>3, ClientContract, BodyContract, AssemblyContract, OtherContract DEF Next
<1>3. UNCHANGED vars => UNCHANGED Contract!view
  BY Silent DEF vars, durable, DatasetDone
<1>4. ContractInv /\ [Next]_vars => [Contract!Next]_(Contract!view)
  BY <1>2, <1>3
<1> QED
  BY <1>1, <1>4, ContractInvHolds, PTL DEF Spec, KeepsUploads, Contract!Spec

(* Rows, files, counters, lock owners and the scan keep their types.       *)
THEOREM TypeCorrect == Spec => []TypeOK
  BY Invariance, PTL DEF Inv

=============================================================================
