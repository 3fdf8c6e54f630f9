--------------------------- MODULE AdmissionProofs ---------------------------
(***************************************************************************)
(* Proofs about Admission, for every value of its constants: no orphaned   *)
(* job, no job that its owner cannot reach, a store that equals its file,  *)
(* and keys chosen by the configuration of the moment.                     *)
(*                                                                         *)
(* The argument: the locks admit one editor, so what it is about to        *)
(* install extends the file it was read from and still has the owner of    *)
(* every active job; and a snapshot that has the identity of the store     *)
(* also has its content.                                                   *)
(***************************************************************************)
EXTENDS Admission, TLAPS

USE AdmissionAssumption

-----------------------------------------------------------------------------
(* Types *)

LEMMA IdleType == Idle \in Request
  BY DEF Idle, Request

LEMMA InitType == Init => TypeOK
  <1>1. ASSUME Init PROVE key \in [Jobs -> Keys]
    <2>1. (CHOOSE k \in First.keys : TRUE) \in Keys
      BY DEF Loads, Config
    <2>2. QED  BY <1>1, <2>1 DEF Init
  <1>2. QED  BY <1>1, IdleType DEF Init, TypeOK, Config

(* A request's record is replaced by another one.                          *)
LEMMA RequestUpdate ==
  ASSUME TypeOK, NEW r \in Requests, NEW q \in Request, req' = [req EXCEPT ![r] = q]
  PROVE  /\ req' \in [Requests -> Request]
         /\ req'[r] = q
         /\ \A s \in Requests \ {r} : req'[s] = req[s]
  BY DEF TypeOK

LEMMA EditType ==
  ASSUME TypeOK, NEW r \in Requests, NEW c \in Config, Edit(r, c)
  PROVE  /\ [Idle EXCEPT !.pc = "write", !.config = c] \in Request
         /\ req' \in [Requests -> Request]
         /\ req'[r].pc = "write" /\ req'[r].config = c
         /\ \A s \in Requests \ {r} : req'[s] = req[s]
  <1> DEFINE q == [Idle EXCEPT !.pc = "write", !.config = c]
  <1>1. q \in Request /\ q.pc = "write" /\ q.config = c
    BY DEF Idle, Request
  <1>2. req' = [req EXCEPT ![r] = q]
    BY DEF Edit
  <1> HIDE DEF q
  <1>3. QED  BY <1>1, <1>2, RequestUpdate DEF q

(* What an edit writes                                                     *)
EditOf(r, c) ==
    /\ c \in Config
    /\ Extends(file, c)
    /\ \A t \in file.tokens : t \in c.tokens \/ \A j \in Jobs : Active(j) => owner[j] # t
    /\ Edit(r, c)

EditBegins(r) ==
    \/ AddKaggleKey(r) \/ UpdateKaggleKey(r) \/ AddRelayToken(r)
    \/ UpdateRelayTokenPermissions(r) \/ DeleteRelayToken(r)

LEMMA EditsExtend ==
  ASSUME TypeOK, NEW r \in Requests, EditBegins(r)
  PROVE  \E c \in Config : EditOf(r, c)
  <1>1. CASE AddKaggleKey(r)
    <2>1. PICK k \in Keys \ file.keys, u \in Users :
             Edit(r, [file EXCEPT !.keys = @ \cup {k}, !.enabled = @ \cup {k}, !.user[k] = u])
      BY <1>1 DEF AddKaggleKey
    <2> DEFINE c == [file EXCEPT !.keys = @ \cup {k}, !.enabled = @ \cup {k}, !.user[k] = u]
    <2>2. c \in Config /\ Extends(file, c) /\ c.tokens = file.tokens
      BY DEF TypeOK, Config, Extends
    <2> HIDE DEF c
    <2>3. QED  BY <2>1, <2>2 DEF c, EditOf
  <1>2. CASE UpdateKaggleKey(r)
    <2>1. PICK k \in file.keys, u \in Users, on \in BOOLEAN :
             Edit(r, [file EXCEPT !.enabled = IF on THEN @ \cup {k} ELSE @ \ {k}, !.user[k] = u])
      BY <1>2 DEF UpdateKaggleKey
    <2> DEFINE c == [file EXCEPT !.enabled = IF on THEN @ \cup {k} ELSE @ \ {k}, !.user[k] = u]
    <2>2. c \in Config /\ Extends(file, c) /\ c.tokens = file.tokens
      BY DEF TypeOK, Config, Extends
    <2> HIDE DEF c
    <2>3. QED  BY <2>1, <2>2 DEF c, EditOf
  <1>3. CASE AddRelayToken(r)
    <2>1. PICK t \in Tokens \ (file.tokens \cup file.retired) :
             Edit(r, [file EXCEPT !.tokens = @ \cup {t}])
      BY <1>3 DEF AddRelayToken
    <2> DEFINE c == [file EXCEPT !.tokens = @ \cup {t}]
    <2>2. c \in Config /\ Extends(file, c) /\ file.tokens \subseteq c.tokens
      BY DEF TypeOK, Config, Extends
    <2> HIDE DEF c
    <2>3. QED  BY <2>1, <2>2 DEF c, EditOf
  <1>4. CASE UpdateRelayTokenPermissions(r)
    BY <1>4 DEF UpdateRelayTokenPermissions, EditOf, TypeOK, Extends
  <1>5. CASE DeleteRelayToken(r)
    <2>1. PICK t \in store.tokens \ Managers(store) :
             /\ \A j \in Jobs : Active(j) => owner[j] # t
             /\ Edit(r, [file EXCEPT !.tokens = @ \ {t}, !.retired = @ \cup {t}])
      BY <1>5 DEF DeleteRelayToken
    <2> DEFINE c == [file EXCEPT !.tokens = @ \ {t}, !.retired = @ \cup {t}]
    <2>2. t \in Tokens
      BY DEF TypeOK, Config
    <2>3. c \in Config
      BY <2>2 DEF TypeOK, Config
    <2>4. c.keys = file.keys /\ c.tokens = file.tokens \ {t} /\ c.retired = file.retired \cup {t}
      BY DEF TypeOK, Config
    <2> HIDE DEF c
    <2>5. QED  BY <2>1, <2>3, <2>4 DEF c, EditOf, Extends
  <1>6. QED  BY <1>1, <1>2, <1>3, <1>4, <1>5 DEF EditBegins

LEMMA AuthenticateType ==
  ASSUME TypeOK, NEW r \in Requests, Authenticate(r)
  PROVE  /\ req' \in [Requests -> Request]
         /\ req'[r].pc = "resolve"
         /\ req'[r].config = req[r].config /\ req'[r].at = req[r].at
         /\ \A s \in Requests \ {r} : req'[s] = req[s]
  <1>1. PICK p \in Principals(store) :
           req' = [req EXCEPT ![r] = [@ EXCEPT !.pc = "resolve", !.who = p]]
    BY DEF Authenticate
  <1>2. p \in Tokens \cup {Management}
    BY DEF Principals, TypeOK, Config
  <1> DEFINE q == [req[r] EXCEPT !.pc = "resolve", !.who = p]
  <1>3. q \in Request /\ q.pc = "resolve" /\ q.config = req[r].config /\ q.at = req[r].at
    BY <1>2 DEF TypeOK, Request
  <1>4. req' = [req EXCEPT ![r] = q]
    BY <1>1
  <1> HIDE DEF q
  <1>5. QED  BY <1>3, <1>4, RequestUpdate

LEMMA ResolveType ==
  ASSUME TypeOK, NEW r \in Requests, Resolve(r)
  PROVE  /\ req' \in [Requests -> Request]
         /\ req'[r].pc = "admit"
         /\ req'[r].config = req[r].config /\ req'[r].at = req[r].at
         /\ req'[r].candidates # {}
         /\ req'[r].candidates \subseteq EnabledKeys(req'[r].config, req'[r].who)
         /\ \A s \in Requests \ {r} : req'[s] = req[s]
  <1> DEFINE allowed == EnabledKeys(req[r].config, req[r].who)
  <1>1. PICK K \in (SUBSET allowed) \ {{}}, d \in BOOLEAN :
           req' = [req EXCEPT ![r] = [@ EXCEPT !.pc = "admit", !.candidates = K, !.dynamic = d]]
    BY DEF Resolve
  <1>2. allowed \subseteq Keys
    BY DEF EnabledKeys, TypeOK, Config, Request
  <1> DEFINE q == [req[r] EXCEPT !.pc = "admit", !.candidates = K, !.dynamic = d]
  <1>3. q \in Request /\ q.pc = "admit" /\ q.config = req[r].config /\ q.at = req[r].at
        /\ q.candidates = K /\ q.who = req[r].who
    BY <1>2 DEF TypeOK, Request
  <1>4. req' = [req EXCEPT ![r] = q]
    BY <1>1
  <1> HIDE DEF q
  <1>5. QED  BY <1>1, <1>3, <1>4, RequestUpdate

LEMMA BeginCreateType ==
  ASSUME TypeOK, NEW r \in Requests, BeginCreate(r)
  PROVE  /\ req' \in [Requests -> Request]
         /\ req'[r].pc = "authenticate"
         /\ req'[r].config = store /\ req'[r].at = version
         /\ \A s \in Requests \ {r} : req'[s] = req[s]
  <1> DEFINE q == [Idle EXCEPT !.pc = "authenticate", !.config = store, !.at = version]
  <1>1. q \in Request /\ q.pc = "authenticate" /\ q.config = store /\ q.at = version
    BY DEF TypeOK, Idle, Request
  <1>2. req' = [req EXCEPT ![r] = q]
    BY DEF BeginCreate
  <1> HIDE DEF q
  <1>3. QED  BY <1>1, <1>2, RequestUpdate

LEMMA ReplaceType ==
  ASSUME TypeOK, NEW r \in Requests, ReplaceFile(r)
  PROVE  /\ req' \in [Requests -> Request]
         /\ req'[r].pc = "publish" /\ req'[r].config = req[r].config
         /\ \A s \in Requests \ {r} : req'[s] = req[s]
  <1> DEFINE q == [req[r] EXCEPT !.pc = "publish"]
  <1>1. q \in Request /\ q.pc = "publish" /\ q.config = req[r].config
    BY DEF TypeOK, Request
  <1>2. req' = [req EXCEPT ![r] = q]
    BY DEF ReplaceFile
  <1> HIDE DEF q
  <1>3. QED  BY <1>1, <1>2, RequestUpdate

LEMMA DoneType ==
  ASSUME TypeOK, NEW r \in Requests, Done(r)
  PROVE  /\ req' \in [Requests -> Request]
         /\ req'[r].pc = "idle"
         /\ \A s \in Requests \ {r} : req'[s] = req[s]
  <1>1. req' = [req EXCEPT ![r] = Idle]
    BY DEF Done
  <1>2. Idle.pc = "idle"
    BY DEF Idle
  <1>3. QED  BY <1>1, <1>2, IdleType, RequestUpdate

(* The key and the snapshot of a job that is admitted                      *)
LEMMA AdmitType ==
  ASSUME TypeOK, NEW r \in Requests, NEW j \in Jobs, Admit(r, j)
  PROVE  /\ status' \in [Jobs -> {"none", "receiving", "queued", "ended"}]
         /\ owner' \in [Jobs -> Tokens \cup {Management}]
         /\ key' \in [Jobs -> Keys]
         /\ pending' \subseteq Jobs
         /\ eligible' \in [Jobs -> SUBSET (Keys \X Users)]
         /\ key'[j] \in req[r].candidates
  <1>1. PICK k \in LeastLoaded(req[r].candidates) : key' = [key EXCEPT ![j] = k]
    BY DEF Admit
  <1>2. k \in req[r].candidates /\ req[r].candidates \subseteq Keys
    BY <1>1 DEF LeastLoaded, TypeOK, Request
  <1>3. Snapshot(req[r]) \in SUBSET (Keys \X Users)
    <2>1. req[r].config.user \in [Keys -> Users]
      BY DEF TypeOK, Request, Config
    <2>2. QED  BY <1>2, <2>1 DEF Snapshot
  <1>4. req[r].who \in Tokens \cup {Management}
    BY DEF TypeOK, Request
  <1>5. QED  BY <1>1, <1>2, <1>3, <1>4 DEF Admit, TypeOK

LEMMA TypeStep == TypeOK /\ [Next]_vars => TypeOK'
  <1> SUFFICES ASSUME TypeOK, [Next]_vars PROVE TypeOK'
    OBVIOUS
  <1>1. ASSUME NEW r \in Requests, EditBegins(r) PROVE TypeOK'
    <2>1. PICK c \in Config : EditOf(r, c)
      BY <1>1, EditsExtend
    <2>2. QED  BY <2>1, EditType DEF EditOf, Edit, TypeOK, jobVars
  <1>2. ASSUME NEW r \in Requests, ReplaceFile(r) PROVE TypeOK'
    <2>1. req[r].config \in Config
      BY DEF TypeOK, Request
    <2>2. QED  BY <1>2, <2>1, ReplaceType DEF ReplaceFile, TypeOK, jobVars
  <1>3. ASSUME NEW r \in Requests, AbandonEdit(r) \/ RefuseCreate(r) PROVE TypeOK'
    BY <1>3, DoneType DEF AbandonEdit, RefuseCreate, TypeOK, jobVars
  <1>4. ASSUME NEW r \in Requests, Publish(r) PROVE TypeOK'
    <2>1. req[r].config \in Config
      BY DEF TypeOK, Request
    <2>2. QED  BY <1>4, <2>1, DoneType DEF Publish, TypeOK, jobVars
  <1>5. ASSUME NEW r \in Requests, BeginCreate(r) PROVE TypeOK'
    BY <1>5, BeginCreateType DEF BeginCreate, TypeOK, jobVars
  <1>6. ASSUME NEW r \in Requests, Authenticate(r) PROVE TypeOK'
    BY <1>6, AuthenticateType DEF Authenticate, TypeOK, jobVars
  <1>7. ASSUME NEW r \in Requests, Resolve(r) PROVE TypeOK'
    BY <1>7, ResolveType DEF Resolve, TypeOK, jobVars
  <1>8. ASSUME NEW r \in Requests, NEW j \in Jobs, Admit(r, j) PROVE TypeOK'
    <2>1. req' \in [Requests -> Request]
      BY <1>8, DoneType DEF Admit
    <2>2. UNCHANGED <<file, store, version>>
      BY <1>8 DEF Admit
    <2>3. QED  BY <1>8, <2>1, <2>2, AdmitType DEF TypeOK
  <1>9. ASSUME NEW j \in Jobs, JobStep(j) PROVE TypeOK'
    <2>1. CASE Queue(j) \/ End(j) \/ Unauthorized(j)
      BY <2>1 DEF Queue, End, Unauthorized, TypeOK
    <2>2. CASE Bind(j)
      <3>1. PICK k \in CurrentAccounts(j, store.enabled) : key' = [key EXCEPT ![j] = k]
        BY <2>2 DEF Bind
      <3>2. k \in Keys
        BY <3>1 DEF CurrentAccounts, TypeOK, Config
      <3>3. QED  BY <2>2, <3>1, <3>2 DEF Bind, TypeOK
    <2>3. QED  BY <1>9, <2>1, <2>2 DEF JobStep
  <1>10. CASE Restart
    BY <1>10, IdleType DEF Restart, TypeOK, jobVars
  <1>11. CASE UNCHANGED vars
    BY <1>11 DEF vars, jobVars, TypeOK
  <1>12. QED
    BY <1>1, <1>2, <1>3, <1>4, <1>5, <1>6, <1>7, <1>8, <1>9, <1>10, <1>11
       DEF Next, EditStep, EditBegins, CreateStep

(* TypeOK, the type invariant of the run                                   *)
THEOREM TypeCorrect == Spec => []TypeOK
  <1>1. QED  BY InitType, TypeStep, PTL DEF Spec

-----------------------------------------------------------------------------
(* Steps of requests that neither edit nor create: the jobs and both       *)
(* configurations stay, and so does everything said about other requests.  *)

LEMMA QuietRequest ==
  ASSUME Inv, TypeOK', NEW r \in Requests,
         UNCHANGED <<file, jobVars, store, version>>,
         \A s \in Requests \ {r} : req'[s] = req[s],
         req'[r].pc \notin {"write", "publish"},
         req[r].pc # "publish",
         req'[r].pc \in {"authenticate", "resolve", "admit"} =>
            /\ req'[r].at <= version
            /\ req'[r].at = version => req'[r].config = store
            /\ req'[r].pc = "admit" =>
                  /\ req'[r].candidates # {}
                  /\ req'[r].candidates \subseteq EnabledKeys(req'[r].config, req'[r].who)
  PROVE  Inv'
  <1>1. Loads(store)' /\ NoOrphan' /\ OwnerReaches' /\ PendingCreated'
    BY DEF Inv, jobVars, NoOrphan, OwnerReaches, PendingCreated, Active, CanAccess
  <1>2. StoreIsFile'
    BY DEF Inv, jobVars, StoreIsFile, At
  <1>3. OneEditor' /\ EditExtends'
    BY DEF Inv, jobVars, OneEditor, EditExtends, Editing, At, Active
  <1>4. SnapshotExact'
    BY DEF Inv, SnapshotExact, At
  <1>5. QED  BY <1>1, <1>2, <1>3, <1>4 DEF Inv

LEMMA CreateQuiet ==
  ASSUME Inv, TypeOK', NEW r \in Requests,
         BeginCreate(r) \/ Authenticate(r) \/ Resolve(r) \/ RefuseCreate(r) \/ AbandonEdit(r)
  PROVE  Inv'
  <1> TypeOK
    BY DEF Inv
  <1>1. CASE BeginCreate(r)
    <2>1. UNCHANGED <<file, jobVars, store, version>> /\ req[r].pc = "idle"
      BY <1>1 DEF BeginCreate, At
    <2>2. version <= version
      BY DEF TypeOK
    <2>3. QED  BY <1>1, <2>1, <2>2, BeginCreateType, QuietRequest
  <1>2. CASE Authenticate(r)
    <2>1. UNCHANGED <<file, jobVars, store, version>> /\ req[r].pc = "authenticate"
      BY <1>2 DEF Authenticate, At
    <2>2. req[r].at <= version /\ (req[r].at = version => req[r].config = store)
      BY <2>1 DEF Inv, SnapshotExact
    <2>3. QED  BY <1>2, <2>1, <2>2, AuthenticateType, QuietRequest
  <1>3. CASE Resolve(r)
    <2>1. UNCHANGED <<file, jobVars, store, version>> /\ req[r].pc = "resolve"
      BY <1>3 DEF Resolve, At
    <2>2. req[r].at <= version /\ (req[r].at = version => req[r].config = store)
      BY <2>1 DEF Inv, SnapshotExact
    <2>3. QED  BY <1>3, <2>1, <2>2, ResolveType, QuietRequest
  <1>4. CASE RefuseCreate(r) \/ AbandonEdit(r)
    <2>1. UNCHANGED <<file, jobVars, store, version>> /\ req[r].pc # "publish" /\ Done(r)
      BY <1>4 DEF RefuseCreate, AbandonEdit, At
    <2>2. QED  BY <2>1, DoneType, QuietRequest
  <1>5. QED  BY <1>1, <1>2, <1>3, <1>4

-----------------------------------------------------------------------------
(* Edits *)

LEMMA EditBeginsInv ==
  ASSUME Inv, TypeOK', NEW r \in Requests, EditBegins(r)
  PROVE  Inv'
  <1> TypeOK
    BY DEF Inv
  <1>1. PICK c \in Config : EditOf(r, c)
    BY EditsExtend
  <1>2. UNCHANGED <<file, jobVars, store, version>> /\ Free /\ req[r].pc = "idle"
    BY <1>1 DEF EditOf, Edit, At
  <1>3. /\ req'[r].pc = "write" /\ req'[r].config = c
        /\ \A s \in Requests \ {r} : req'[s] = req[s]
    BY <1>1, EditType DEF EditOf
  <1>4. store = file
    BY <1>2 DEF Inv, StoreIsFile, Free, Editing, At
  <1>5. Loads(store)' /\ NoOrphan' /\ OwnerReaches' /\ PendingCreated' /\ StoreIsFile'
    BY <1>2, <1>4 DEF Inv, jobVars, NoOrphan, OwnerReaches, PendingCreated, StoreIsFile, Active, CanAccess
  <1>6. OneEditor'
    BY <1>2, <1>3 DEF OneEditor, Free, Editing
  <1>7. EditExtends'
    <2>1. Extends(file, c) /\ store.keys \subseteq c.keys
      BY <1>1, <1>4 DEF EditOf, Extends
    <2>2. \A j \in Jobs : Active(j) => owner[j] \in Principals(c)
      BY <1>1, <1>4 DEF EditOf, Inv, NoOrphan, Principals
    <2>3. \A s \in Requests : Editing(s)' => s = r
      BY <1>2, <1>3 DEF Free, Editing
    <2>4. QED
      BY <1>2, <1>3, <2>1, <2>2, <2>3 DEF EditExtends, jobVars, Active, At
  <1>8. SnapshotExact'
    BY <1>2, <1>3 DEF Inv, SnapshotExact, At
  <1>9. QED  BY <1>5, <1>6, <1>7, <1>8 DEF Inv

LEMMA ReplaceInv ==
  ASSUME Inv, TypeOK', NEW r \in Requests, ReplaceFile(r)
  PROVE  Inv'
  <1> DEFINE c == req[r].config
  <1> TypeOK
    BY DEF Inv
  <1>1. /\ UNCHANGED <<jobVars, store, version>> /\ req[r].pc = "write"
        /\ Loads(c) /\ file' = c
    BY DEF ReplaceFile, At
  <1>2. /\ req'[r].pc = "publish" /\ req'[r].config = c
        /\ \A s \in Requests \ {r} : req'[s] = req[s]
    BY ReplaceType
  <1>3. /\ store.keys \subseteq c.keys
        /\ \A j \in Jobs : Active(j) => owner[j] \in Principals(c)
    BY <1>1 DEF Inv, EditExtends, Editing
  <1> HIDE DEF c
  <1>4. NoOrphan'
    BY <1>1, <1>3 DEF Inv, NoOrphan, jobVars, Active
  <1>5. Loads(store)' /\ OwnerReaches' /\ PendingCreated'
    BY <1>1 DEF Inv, jobVars, OwnerReaches, PendingCreated, Active, CanAccess
  <1>6. StoreIsFile'
    BY <1>1, <1>2 DEF StoreIsFile, At
  <1>7. \A s \in Requests : Editing(s)' => s = r
    BY <1>1, <1>2 DEF Inv, OneEditor, Editing
  <1>8. OneEditor'
    BY <1>7 DEF OneEditor
  <1>9. EditExtends'
    BY <1>1, <1>2, <1>3, <1>7 DEF EditExtends, Extends, jobVars, Active, At
  <1>10. SnapshotExact'
    BY <1>1, <1>2 DEF Inv, SnapshotExact, At
  <1>11. QED  BY <1>4, <1>5, <1>6, <1>8, <1>9, <1>10 DEF Inv

LEMMA PublishInv ==
  ASSUME Inv, TypeOK', NEW r \in Requests, Publish(r)
  PROVE  Inv'
  <1> TypeOK
    BY DEF Inv
  <1>1. /\ UNCHANGED <<file, jobVars>> /\ req[r].pc = "publish"
        /\ store' = req[r].config /\ version' = version + 1 /\ Done(r)
    BY DEF Publish, At
  <1>2. /\ req'[r].pc = "idle"
        /\ \A s \in Requests \ {r} : req'[s] = req[s]
    BY <1>1, DoneType
  <1>3. /\ store' = file /\ store.keys \subseteq store'.keys
    BY <1>1 DEF Inv, EditExtends, Editing, At
  <1>4. NoOrphan'
    BY <1>1, <1>3 DEF Inv, NoOrphan, jobVars, Active
  <1>5. Loads(store)' /\ OwnerReaches' /\ PendingCreated'
    BY <1>1, <1>3 DEF Inv, StoreIsFile, jobVars, OwnerReaches, PendingCreated, Active, CanAccess
  <1>6. StoreIsFile'
    BY <1>1, <1>3 DEF Inv, StoreIsFile
  <1>7. \A s \in Requests : ~Editing(s)'
    BY <1>1, <1>2 DEF Inv, OneEditor, Editing
  <1>8. OneEditor' /\ EditExtends'
    BY <1>7 DEF OneEditor, EditExtends
  <1>9. SnapshotExact'
    <2> SUFFICES ASSUME NEW s \in Requests \ {r}, req[s].pc \in {"authenticate", "resolve", "admit"}
                 PROVE  /\ req[s].at <= version + 1
                        /\ req[s].at # version + 1
                        /\ At(s, "admit") =>
                              /\ req[s].candidates # {}
                              /\ req[s].candidates \subseteq EnabledKeys(req[s].config, req[s].who)
      BY <1>1, <1>2 DEF SnapshotExact, At
    <2>1. req[s].at \in Nat /\ version \in Nat
      BY DEF TypeOK, Request
    <2>2. QED  BY <2>1 DEF Inv, SnapshotExact
  <1>10. QED  BY <1>4, <1>5, <1>6, <1>8, <1>9 DEF Inv

LEMMA RestartInv ==
  ASSUME Inv, TypeOK', Restart
  PROVE  Inv'
  <1>1. /\ UNCHANGED <<file, jobVars>> /\ store' = file
        /\ \A s \in Requests : req'[s].pc = "idle"
    BY DEF Restart, Idle
  <1>2. store.keys \subseteq file.keys
    <2>1. CASE \A s \in Requests : ~At(s, "publish")
      BY <2>1 DEF Inv, StoreIsFile
    <2>2. CASE \E s \in Requests : At(s, "publish")
      BY <2>2 DEF Inv, EditExtends, Editing, At
    <2>3. QED  BY <2>1, <2>2
  <1>3. NoOrphan' /\ OwnerReaches' /\ PendingCreated'
    BY <1>1, <1>2 DEF Inv, NoOrphan, OwnerReaches, PendingCreated, CanAccess, jobVars, Active
  <1>4. Loads(store)' /\ StoreIsFile'
    BY <1>1 DEF Inv, StoreIsFile
  <1>5. OneEditor' /\ EditExtends' /\ SnapshotExact'
    BY <1>1 DEF OneEditor, EditExtends, SnapshotExact, Editing
  <1>6. QED  BY <1>3, <1>4, <1>5 DEF Inv

-----------------------------------------------------------------------------
(* The creation of a job *)

(* Under the lock, with an unchanged store: the keys it may use are those  *)
(* that the store of now enables for its owner.                            *)
LEMMA AdmitFacts ==
  ASSUME Inv, NEW r \in Requests, NEW j \in Jobs, Admit(r, j)
  PROVE  /\ req[r].config = store
         /\ owner'[j] = req[r].who /\ owner'[j] \in Principals(store)
         /\ key'[j] \in EnabledKeys(store, owner'[j])
         /\ j \in pending' => eligible'[j] = Snapshot(req[r])
         /\ status[j] = "none" /\ status'[j] = "receiving"
  <1> TypeOK
    BY DEF Inv
  <1>1. /\ At(r, "admit") /\ req[r].at = version /\ status[j] = "none"
        /\ req[r].who \in Principals(store)
        /\ status' = [status EXCEPT ![j] = "receiving"]
        /\ owner' = [owner EXCEPT ![j] = req[r].who]
        /\ pending' = IF req[r].dynamic THEN pending \cup {j} ELSE pending
        /\ eligible' = [eligible EXCEPT ![j] = IF req[r].dynamic THEN Snapshot(req[r]) ELSE {}]
    BY DEF Admit
  <1>2. /\ req[r].config = store
        /\ req[r].candidates \subseteq EnabledKeys(store, req[r].who)
    BY <1>1 DEF Inv, SnapshotExact, At
  <1>3. key'[j] \in req[r].candidates
    BY AdmitType
  <1>4. owner'[j] = req[r].who /\ status'[j] = "receiving"
    BY <1>1 DEF TypeOK
  <1>5. j \notin pending
    BY <1>1 DEF Inv, PendingCreated
  <1>6. j \in pending' => eligible'[j] = Snapshot(req[r])
    BY <1>1, <1>5 DEF TypeOK
  <1>7. QED  BY <1>1, <1>2, <1>3, <1>4, <1>6

LEMMA AdmitInv ==
  ASSUME Inv, TypeOK', NEW r \in Requests, NEW j \in Jobs, Admit(r, j)
  PROVE  Inv'
  <1> TypeOK
    BY DEF Inv
  <1>1. /\ UNCHANGED <<file, store, version>> /\ Free /\ req[r].pc = "admit" /\ Done(r)
        /\ \A i \in Jobs \ {j} : /\ status'[i] = status[i] /\ owner'[i] = owner[i]
                                 /\ key'[i] = key[i] /\ eligible'[i] = eligible[i]
                                 /\ i \in pending' <=> i \in pending
    BY DEF Admit, At, TypeOK
  <1>2. /\ req'[r].pc = "idle"
        /\ \A s \in Requests \ {r} : req'[s] = req[s]
    BY <1>1, DoneType
  <1>3. store = file
    BY <1>1 DEF Inv, StoreIsFile, Free, Editing, At
  <1>4. NoOrphan'
    BY <1>1, <1>3, AdmitFacts DEF Inv, NoOrphan, Active
  <1>5. OwnerReaches'
    <2>1. ASSUME NEW i \in Jobs \ {j}, Active(i)' PROVE (CanAccess(i, owner[i]) /\ key[i] \in store.keys)'
      BY <1>1, <2>1 DEF Inv, OwnerReaches, Active, CanAccess
    <2>2. key'[j] \in store.keys /\ AllowsKey(owner'[j], key'[j])
      BY <1>3, AdmitFacts DEF Inv, StoreIsFile, Loads, EnabledKeys
    <2>3. CanAccess(j, owner[j])'
      <3>1. CASE j \in pending'
        <4>1. PICK k \in req[r].candidates : AllowsKey(owner'[j], k)
          BY <1>1, AdmitFacts DEF Inv, SnapshotExact, At, EnabledKeys
        <4>2. <<k, req[r].config.user[k]>> \in eligible'[j]
          BY <3>1, <4>1, AdmitFacts DEF Snapshot
        <4> DEFINE e == <<k, req[r].config.user[k]>>
        <4>3. e[1] = k
          OBVIOUS
        <4> HIDE DEF e
        <4>4. e \in eligible'[j]
          BY <4>2 DEF e
        <4>5. QED  BY <3>1, <4>1, <4>3, <4>4 DEF CanAccess, AllowsKey
      <3>2. CASE j \notin pending'
        BY <3>2, <2>2 DEF CanAccess, AllowsKey
      <3>3. QED  BY <3>1, <3>2
    <2>4. QED  BY <1>1, <2>1, <2>2, <2>3 DEF OwnerReaches
  <1>6. PendingCreated'
    <2>1. pending' \subseteq Jobs /\ status'[j] = "receiving"
      BY AdmitType, AdmitFacts
    <2>2. QED  BY <1>1, <2>1 DEF Inv, PendingCreated
  <1>7. Loads(store)' /\ StoreIsFile'
    BY <1>1, <1>3 DEF Inv, StoreIsFile
  <1>8. OneEditor' /\ EditExtends'
    <2>1. \A s \in Requests : ~Editing(s)'
      BY <1>1, <1>2 DEF Free, Editing
    <2>2. QED  BY <2>1 DEF OneEditor, EditExtends
  <1>9. SnapshotExact'
    BY <1>1, <1>2 DEF Inv, SnapshotExact, At
  <1>10. QED  BY <1>4, <1>5, <1>6, <1>7, <1>8, <1>9 DEF Inv

-----------------------------------------------------------------------------
(* Steps of jobs *)

(* A job that is active after the step was active before, with one owner.  *)
LEMMA JobStepInv ==
  ASSUME Inv, TypeOK', NEW j \in Jobs, JobStep(j)
  PROVE  Inv'
  <1> TypeOK
    BY DEF Inv
  <1>1. /\ UNCHANGED <<file, store, version, req, owner, eligible>>
        /\ \A i \in Jobs : Active(i)' => Active(i)
        /\ \A i \in Jobs : status[i] # "none" => status'[i] # "none"
        /\ pending' \subseteq pending
        /\ \A i \in Jobs \ {j} : key'[i] = key[i] /\ (i \in pending' <=> i \in pending)
    BY DEF JobStep, Queue, End, Bind, Unauthorized, Active, TypeOK
  <1>2. Loads(store)' /\ NoOrphan' /\ StoreIsFile' /\ OneEditor' /\ SnapshotExact' /\ PendingCreated'
    BY <1>1 DEF Inv, NoOrphan, StoreIsFile, OneEditor, SnapshotExact, PendingCreated, Editing, At, TypeOK
  <1>3. EditExtends'
    BY <1>1 DEF Inv, EditExtends, Editing, At
  <1>4. CASE ~Bind(j)
    <2>1. UNCHANGED <<key, pending>>
      BY <1>4 DEF JobStep, Queue, End, Unauthorized
    <2>2. OwnerReaches'
      BY <1>1, <2>1 DEF Inv, OwnerReaches, CanAccess
    <2>3. QED  BY <1>2, <1>3, <2>2 DEF Inv
  <1>5. CASE Bind(j)
    <2>1. PICK k \in CurrentAccounts(j, store.enabled) : key' = [key EXCEPT ![j] = k]
      BY <1>5 DEF Bind
    <2>2. key'[j] = k /\ AllowsKey(owner[j], k) /\ k \in store.keys /\ j \notin pending'
      BY <1>5, <2>1 DEF Bind, CurrentAccounts, Inv, Loads, TypeOK
    <2>3. OwnerReaches'
      BY <1>1, <2>2 DEF Inv, OwnerReaches, CanAccess, AllowsKey
    <2>4. QED  BY <1>2, <1>3, <2>3 DEF Inv
  <1>6. QED  BY <1>4, <1>5

-----------------------------------------------------------------------------

LEMMA InvInit == Init => Inv
  <1> SUFFICES ASSUME Init PROVE Inv
    OBVIOUS
  <1>1. TypeOK
    BY InitType
  <1>2. \A r \in Requests : req[r].pc = "idle"
    BY DEF Init, Idle
  <1>3. \A j \in Jobs : ~Active(j)
    BY DEF Init, Active
  <1>4. Loads(store) /\ StoreIsFile
    BY DEF Init, StoreIsFile
  <1>5. PendingCreated
    BY DEF Init, PendingCreated
  <1>6. OneEditor /\ EditExtends /\ SnapshotExact
    BY <1>2 DEF OneEditor, EditExtends, SnapshotExact, Editing
  <1>7. QED
    BY <1>1, <1>3, <1>4, <1>5, <1>6 DEF Inv, NoOrphan, OwnerReaches

LEMMA InvStep == Inv /\ [Next]_vars => Inv'
  <1> SUFFICES ASSUME Inv, [Next]_vars PROVE Inv'
    OBVIOUS
  <1>1. TypeOK'
    BY TypeStep DEF Inv
  <1>2. ASSUME NEW r \in Requests, EditStep(r) PROVE Inv'
    BY <1>1, <1>2, EditBeginsInv, ReplaceInv, CreateQuiet, PublishInv DEF EditStep, EditBegins
  <1>3. ASSUME NEW r \in Requests, CreateStep(r) PROVE Inv'
    BY <1>1, <1>3, CreateQuiet, AdmitInv DEF CreateStep
  <1>4. ASSUME NEW j \in Jobs, JobStep(j) PROVE Inv'
    BY <1>1, <1>4, JobStepInv
  <1>5. CASE Restart
    BY <1>1, <1>5, RestartInv
  <1>6. CASE UNCHANGED vars
    BY <1>1, <1>6 DEF vars, jobVars, Inv, NoOrphan, OwnerReaches, StoreIsFile, OneEditor, EditExtends,
       SnapshotExact, PendingCreated, Active, CanAccess, Editing, At
  <1>7. QED  BY <1>2, <1>3, <1>4, <1>5, <1>6 DEF Next

LEMMA InvHolds == Spec => []Inv
  <1>1. QED  BY InvInit, InvStep, PTL DEF Spec

(* NoOrphan: delete_relay_token and create_job never leave an active job   *)
(* without a principal that can log in.                                    *)
THEOREM NoOrphanHolds == Spec => []NoOrphan
  <1>1. Inv => NoOrphan
    BY DEF Inv
  <1>2. QED  BY <1>1, InvHolds, PTL

(* OwnerReaches: can_access_job lets the owner of an active job at it, and *)
(* credentials_for knows its key.                                          *)
THEOREM OwnerReachesHolds == Spec => []OwnerReaches
  <1>1. Inv => OwnerReaches
    BY DEF Inv
  <1>2. QED  BY <1>1, InvHolds, PTL

(* StoreIsFile: what validate_and_write_auth_config wrote is what the      *)
(* handlers use, and loads at the next start.                              *)
THEOREM StoreIsFileHolds == Spec => []StoreIsFile
  <1>1. Inv => StoreIsFile
    BY DEF Inv
  <1>2. QED  BY <1>1, InvHolds, PTL

-----------------------------------------------------------------------------
(* Action properties *)

(* EditsKept: an edit only adds to the file that the one before it wrote.  *)
THEOREM EditsAreKept == Spec => EditsKept
  <1> DEFINE Keeps == Extends(file, file')
  <1>1. Inv /\ [Next]_vars => [Keeps]_vars
    <2> SUFFICES ASSUME Inv, [Next]_vars PROVE Keeps
      OBVIOUS
    <2>1. CASE file' = file
      BY <2>1 DEF Extends
    <2>2. CASE \E r \in Requests : ReplaceFile(r)
      BY <2>2 DEF Inv, EditExtends, Editing, ReplaceFile, At
    <2>3. file' = file \/ \E r \in Requests : ReplaceFile(r)
      BY DEF Next, vars, EditStep, CreateStep, JobStep, AddKaggleKey, UpdateKaggleKey, AddRelayToken,
         UpdateRelayTokenPermissions, DeleteRelayToken, Edit, AbandonEdit, Publish, BeginCreate,
         Authenticate, Resolve, RefuseCreate, Admit, Queue, End, Bind, Unauthorized, Restart
    <2>4. QED  BY <2>1, <2>2, <2>3
  <1>2. [Keeps]_vars => [/\ file.keys \subseteq file'.keys
                         /\ file.retired \subseteq file'.retired
                         /\ file.tokens \subseteq file'.tokens \cup file'.retired]_vars
    BY DEF Extends
  <1> HIDE DEF Keeps
  <1>3. QED  BY <1>1, <1>2, InvHolds, PTL DEF Spec, EditsKept

(* KeyChoiceCurrent: create_job and schedule_pending_jobs give a job only  *)
(* a key that the configuration of that moment enables for its owner.      *)
Choice ==
    \A j \in Jobs :
         /\ status[j] = "none" /\ status'[j] # "none" => key'[j] \in EnabledKeys(store, owner'[j])
         /\ j \in pending \ pending' => /\ key'[j] \in EnabledKeys(store, owner[j])
                                        /\ <<key'[j], store.user[key'[j]]>> \in eligible[j]

LEMMA ChoiceStep == Inv /\ [Next]_vars => Choice
  <1> SUFFICES ASSUME Inv, [Next]_vars PROVE Choice
    OBVIOUS
  <1> TypeOK
    BY DEF Inv
  <1>1. CASE UNCHANGED <<status, pending>>
    BY <1>1 DEF Choice
  <1>2. ASSUME NEW r \in Requests, NEW j \in Jobs, Admit(r, j) PROVE Choice
    <2>1. /\ pending \subseteq pending'
          /\ \A i \in Jobs \ {j} : status'[i] = status[i]
      BY <1>2 DEF Admit, TypeOK
    <2>2. key'[j] \in EnabledKeys(store, owner'[j])
      BY <1>2, AdmitFacts
    <2>3. QED  BY <2>1, <2>2 DEF Choice
  <1>3. ASSUME NEW j \in Jobs, Queue(j) \/ End(j) \/ Unauthorized(j) PROVE Choice
    <2>1. UNCHANGED pending /\ \A i \in Jobs : status[i] = "none" => status'[i] = "none"
      BY <1>3 DEF Queue, End, Unauthorized, Unassigned, Active, TypeOK
    <2>2. QED  BY <2>1 DEF Choice
  <1>4. ASSUME NEW j \in Jobs, Bind(j) PROVE Choice
    <2>1. PICK k \in CurrentAccounts(j, store.enabled) : key' = [key EXCEPT ![j] = k]
      BY <1>4 DEF Bind
    <2>2. UNCHANGED status /\ pending' = pending \ {j} /\ key'[j] = k
      BY <1>4, <2>1 DEF Bind, CurrentAccounts, TypeOK
    <2>3. k \in EnabledKeys(store, owner[j]) /\ <<k, store.user[k]>> \in eligible[j]
      BY <2>1 DEF CurrentAccounts, EnabledKeys
    <2>4. QED  BY <2>2, <2>3 DEF Choice
  <1>5. \/ UNCHANGED <<status, pending>>
        \/ \E r \in Requests, j \in Jobs : Admit(r, j)
        \/ \E j \in Jobs : JobStep(j)
    BY DEF Next, vars, jobVars, EditStep, CreateStep, AddKaggleKey, UpdateKaggleKey, AddRelayToken,
       UpdateRelayTokenPermissions, DeleteRelayToken, Edit, ReplaceFile, AbandonEdit, Publish,
       BeginCreate, Authenticate, Resolve, RefuseCreate, Restart
  <1>6. QED  BY <1>1, <1>2, <1>3, <1>4, <1>5 DEF JobStep

THEOREM KeyChoiceHolds == Spec => KeyChoiceCurrent
  <1>1. Inv /\ [Next]_vars => [Choice]_vars
    BY ChoiceStep
  <1>2. QED  BY <1>1, InvHolds, PTL DEF Spec, KeyChoiceCurrent, Choice

-----------------------------------------------------------------------------
(* The contract                                                            *)

ContractInv == Inv /\ EditCurrent /\ DynamicExact

LEMMA PhaseActive ==
  ASSUME TypeOK, NEW j \in Jobs
  PROVE  Phase[j] = "active" <=> Active(j)
  BY DEF TypeOK, Phase, Active

(* An edit that was possible stays possible while the file stays and no    *)
(* job becomes active: only a deletion looks at the jobs.                  *)
LEMMA EditsStay ==
  ASSUME TypeOK, TypeOK', file' = file, NEW c, Contract!IsEdit(c),
         \A j \in Jobs : Active(j)' => Active(j) /\ owner'[j] = owner[j]
  PROVE  Contract!IsEdit(c)'
  <1>1. \A t \in Tokens : Contract!Deletable(t) => Contract!Deletable(t)'
    BY PhaseActive DEF TypeOK, Phase, Active, Contract!Deletable, Contract!Administrators
  <1>2. ASSUME NEW k \in Keys, NEW u \in Users, NEW on \in BOOLEAN
        PROVE  /\ Contract!WithKey(k, u)' = Contract!WithKey(k, u)
               /\ Contract!WithChangedKey(k, u, on)' = Contract!WithChangedKey(k, u, on)
    BY Zenon DEF Contract!WithKey, Contract!WithChangedKey
  <1>3. ASSUME NEW t \in Tokens
        PROVE  /\ Contract!WithToken(t)' = Contract!WithToken(t)
               /\ Contract!WithoutToken(t)' = Contract!WithoutToken(t)
    BY Zenon DEF Contract!WithToken, Contract!WithoutToken
  <1>4. file.keys \subseteq Keys
    BY DEF TypeOK, Config
  <1>5. QED  BY <1>1, <1>2, <1>3, <1>4 DEF Contract!IsEdit

(* What an administrator asks for is one edit of the file read.            *)
LEMMA EditIsOne ==
  ASSUME TypeOK, store = file, NEW r \in Requests, EditBegins(r)
  PROVE  \E c \in Config : (c = file \/ Contract!IsEdit(c)) /\ EditOf(r, c)
  <1>1. PICK c \in Config : EditOf(r, c)
    BY EditsExtend
  <1>2. ASSUME NEW d, Edit(r, d) PROVE d = c
    <2>1. [Idle EXCEPT !.pc = "write", !.config = d] = [Idle EXCEPT !.pc = "write", !.config = c]
      BY <1>1, <1>2 DEF Edit, EditOf, TypeOK
    <2>2. QED  BY <2>1 DEF Idle
  <1>3. CASE AddKaggleKey(r)
    <2>1. \E k \in Keys \ file.keys, u \in Users : Edit(r, Contract!WithKey(k, u))
      BY <1>3, Zenon DEF AddKaggleKey, Contract!WithKey
    <2>2. QED  BY <1>1, <1>2, <2>1 DEF Contract!IsEdit
  <1>4. CASE UpdateKaggleKey(r)
    <2>1. \E k \in file.keys, u \in Users, on \in BOOLEAN : Edit(r, Contract!WithChangedKey(k, u, on))
      BY <1>4, Zenon DEF UpdateKaggleKey, Contract!WithChangedKey
    <2>2. QED  BY <1>1, <1>2, <2>1 DEF Contract!IsEdit
  <1>5. CASE AddRelayToken(r)
    <2>1. \E t \in Tokens \ (file.tokens \cup file.retired) : Edit(r, Contract!WithToken(t))
      BY <1>5, Zenon DEF AddRelayToken, Contract!WithToken
    <2>2. QED  BY <1>1, <1>2, <2>1 DEF Contract!IsEdit
  <1>6. CASE UpdateRelayTokenPermissions(r)
    BY <1>1, <1>2, <1>6 DEF UpdateRelayTokenPermissions
  <1>7. CASE DeleteRelayToken(r)
    <2>1. PICK t \in store.tokens \ Managers(store) :
             /\ \A j \in Jobs : Active(j) => owner[j] # t
             /\ Edit(r, Contract!WithoutToken(t))
      BY <1>7, Zenon DEF DeleteRelayToken, Contract!WithoutToken
    <2>2. t \in Tokens
      BY DEF TypeOK, Config
    <2>3. Contract!Deletable(t)
      BY <2>1, PhaseActive DEF Contract!Deletable, Contract!Administrators, Managers
    <2>4. QED  BY <1>1, <1>2, <2>1, <2>2, <2>3 DEF Contract!IsEdit
  <1>8. QED  BY <1>1, <1>3, <1>4, <1>5, <1>6, <1>7 DEF EditBegins

(* Only request r moved, and if it is about to write, what it read is the  *)
(* file of now.                                                            *)
LEMMA EditCurrentKept ==
  ASSUME TypeOK, TypeOK', EditCurrent, file' = file,
         \A j \in Jobs : Active(j)' => Active(j) /\ owner'[j] = owner[j],
         NEW r \in Requests, \A s \in Requests \ {r} : req'[s] = req[s],
         req'[r].pc = "write" =>
            \/ req'[r].config = file
            \/ \E c \in Config : req'[r].config = c /\ Contract!IsEdit(c)
            \/ req'[r] = req[r]
  PROVE  EditCurrent'
  <1> SUFFICES ASSUME NEW s \in Requests, NEW c, c = req'[s].config, req'[s].pc = "write", c # file
               PROVE  Contract!IsEdit(c)'
    <2>1. ASSUME NEW s \in Requests, req'[s].pc = "write", req'[s].config # file
          PROVE  Contract!IsEdit(req[s].config)'
      <3>1. \A c : c = req'[s].config => Contract!IsEdit(c)'
        BY <2>1
      <3>2. QED  BY <3>1 DEF Contract!IsEdit
    <2>2. QED  BY <2>1 DEF EditCurrent, At
  <1>1. Contract!IsEdit(c)
    <2>1. CASE req'[s] = req[s]
      BY <2>1 DEF EditCurrent, At
    <2>2. CASE s = r /\ req'[r] # req[r]
      BY <2>2
    <2>3. QED  BY <2>1, <2>2
  <1>2. QED  BY <1>1, EditsStay

(* Every step keeps an edit in hand current: the locks are held.           *)
LEMMA EditCurrentStep == Inv /\ EditCurrent /\ [Next]_vars /\ TypeOK' => EditCurrent'
  <1> SUFFICES ASSUME Inv, EditCurrent, [Next]_vars, TypeOK' PROVE EditCurrent'
    OBVIOUS
  <1> TypeOK
    BY DEF Inv
  <1>1. ASSUME NEW r \in Requests, EditBegins(r) PROVE EditCurrent'
    <2>1. UNCHANGED <<file, jobVars>> /\ Free
      <3>1. PICK c \in Config : EditOf(r, c)
        BY <1>1, EditsExtend
      <3>2. QED  BY <3>1 DEF EditOf, Edit
    <2>2. store = file
      BY <2>1 DEF Inv, StoreIsFile, Free, Editing, At
    <2>3. PICK c \in Config : (c = file \/ Contract!IsEdit(c)) /\ EditOf(r, c)
      BY <1>1, <2>2, EditIsOne
    <2>4. EditOf(r, c)
      BY <2>3
    <2>5. /\ req'[r].pc = "write" /\ req'[r].config = c
          /\ \A s \in Requests \ {r} : req'[s] = req[s]
      BY <2>4, EditType DEF EditOf
    <2>6. \A j \in Jobs : Active(j)' => Active(j) /\ owner'[j] = owner[j]
      BY <2>1 DEF jobVars, Active
    <2>7. QED  BY <2>1, <2>3, <2>5, <2>6, EditCurrentKept
  <1>2. ASSUME NEW r \in Requests, ReplaceFile(r) PROVE EditCurrent'
    <2>1. req'[r].pc = "publish" /\ req[r].pc = "write" /\ \A s \in Requests \ {r} : req'[s] = req[s]
      BY <1>2, ReplaceType DEF ReplaceFile, At
    <2>2. \A s \in Requests : ~At(s, "write")'
      BY <2>1 DEF Inv, OneEditor, Editing, At
    <2>3. QED  BY <2>2 DEF EditCurrent
  <1>3. ASSUME NEW r \in Requests, AbandonEdit(r) \/ RefuseCreate(r) \/ Publish(r) PROVE EditCurrent'
    <2>1. UNCHANGED <<file, jobVars>> /\ Done(r)
      BY <1>3 DEF AbandonEdit, RefuseCreate, Publish
    <2>2. \A j \in Jobs : Active(j)' => Active(j) /\ owner'[j] = owner[j]
      BY <2>1 DEF jobVars, Active
    <2>3. QED  BY <2>1, <2>2, DoneType, EditCurrentKept
  <1>4. ASSUME NEW r \in Requests, BeginCreate(r) \/ Authenticate(r) \/ Resolve(r) PROVE EditCurrent'
    <2>1. UNCHANGED <<file, jobVars>>
      BY <1>4, Zenon DEF BeginCreate, Authenticate, Resolve
    <2>2. \A j \in Jobs : Active(j)' => Active(j) /\ owner'[j] = owner[j]
      BY <2>1 DEF jobVars, Active
    <2>3. req'[r].pc # "write" /\ \A s \in Requests \ {r} : req'[s] = req[s]
      BY <1>4, BeginCreateType, AuthenticateType, ResolveType
    <2>4. QED  BY <2>1, <2>2, <2>3, EditCurrentKept
  <1>5. ASSUME NEW r \in Requests, NEW j \in Jobs, Admit(r, j) PROVE EditCurrent'
    <2>1. Free /\ Done(r)
      BY <1>5 DEF Admit
    <2>2. \A s \in Requests : ~At(s, "write")'
      BY <2>1, DoneType DEF Free, Editing, At
    <2>3. QED  BY <2>2 DEF EditCurrent
  <1>6. ASSUME NEW j \in Jobs, JobStep(j) PROVE EditCurrent'
    <2>1. /\ UNCHANGED <<file, owner, req>>
          /\ \A i \in Jobs : Active(i)' => Active(i)
      BY <1>6 DEF JobStep, Queue, End, Bind, Unauthorized, Active, TypeOK
    <2>2. CASE Requests = {}
      BY <2>2 DEF EditCurrent
    <2>3. CASE Requests # {}
      BY <2>1, <2>3, EditCurrentKept
    <2>4. QED  BY <2>2, <2>3
  <1>7. CASE Restart
    BY <1>7 DEF Restart, EditCurrent, At, Idle
  <1>8. CASE UNCHANGED vars
    <2>1. UNCHANGED <<file, jobVars, req>> /\ \A j \in Jobs : Active(j)' => Active(j) /\ owner'[j] = owner[j]
      BY <1>8 DEF vars, jobVars, Active
    <2>2. CASE Requests = {}
      BY <2>2 DEF EditCurrent
    <2>3. CASE Requests # {}
      BY <2>1, <2>3, EditCurrentKept
    <2>4. QED  BY <2>2, <2>3
  <1>9. QED
    BY <1>1, <1>2, <1>3, <1>4, <1>5, <1>6, <1>7, <1>8 DEF Next, EditStep, EditBegins, CreateStep

(* Every step keeps the candidates of a dynamic job complete.              *)
LEMMA DynamicStep == Inv /\ DynamicExact /\ [Next]_vars => DynamicExact'
  <1> SUFFICES ASSUME Inv, DynamicExact, [Next]_vars PROVE DynamicExact'
    OBVIOUS
  <1> TypeOK
    BY DEF Inv
  <1>1. ASSUME NEW r \in Requests, \A s \in Requests \ {r} : req'[s] = req[s], req'[r].pc # "admit"
        PROVE  DynamicExact'
    BY <1>1 DEF DynamicExact, At
  <1>2. ASSUME NEW r \in Requests, EditBegins(r) PROVE DynamicExact'
    <2>1. PICK c \in Config : EditOf(r, c)
      BY <1>2, EditsExtend
    <2>2. /\ req'[r].pc = "write" /\ req'[r].config = c
          /\ \A s \in Requests \ {r} : req'[s] = req[s]
      BY <2>1, EditType DEF EditOf
    <2>3. QED  BY <1>1, <2>2
  <1>3. ASSUME NEW r \in Requests, ReplaceFile(r) PROVE DynamicExact'
    BY <1>1, <1>3, ReplaceType
  <1>4. ASSUME NEW r \in Requests, Done(r) PROVE DynamicExact'
    BY <1>1, <1>4, DoneType
  <1>5. ASSUME NEW r \in Requests, BeginCreate(r) \/ Authenticate(r) PROVE DynamicExact'
    BY <1>1, <1>5, BeginCreateType, AuthenticateType
  <1>6. ASSUME NEW r \in Requests, Resolve(r) PROVE DynamicExact'
    <2> DEFINE allowed == EnabledKeys(req[r].config, req[r].who)
    <2>1. PICK K \in (SUBSET allowed) \ {{}}, d \in BOOLEAN :
             /\ d => K = allowed
             /\ req' = [req EXCEPT ![r] = [@ EXCEPT !.pc = "admit", !.candidates = K, !.dynamic = d]]
      BY <1>6, Zenon DEF Resolve
    <2> DEFINE q == [req[r] EXCEPT !.pc = "admit", !.candidates = K, !.dynamic = d]
    <2>2. /\ q.config = req[r].config /\ q.who = req[r].who
          /\ q.candidates = K /\ q.dynamic = d
      BY DEF TypeOK, Request
    <2>3. req'[r] = q /\ \A s \in Requests \ {r} : req'[s] = req[s]
      BY <2>1 DEF TypeOK
    <2> HIDE DEF q
    <2>4. QED  BY <2>1, <2>2, <2>3 DEF DynamicExact, At
  <1>7. ASSUME UNCHANGED req PROVE DynamicExact'
    BY <1>7 DEF DynamicExact, At
  <1>8. CASE Restart
    BY <1>8 DEF Restart, DynamicExact, At, Idle
  <1>9. \/ UNCHANGED req \/ Restart
        \/ \E r \in Requests : EditBegins(r) \/ ReplaceFile(r) \/ Done(r)
                            \/ BeginCreate(r) \/ Authenticate(r) \/ Resolve(r)
    BY Zenon DEF Next, EditStep, EditBegins, CreateStep, AbandonEdit, Publish, RefuseCreate, Admit, JobStep,
       Queue, End, Bind, Unauthorized, vars
  <1>10. QED  BY <1>2, <1>3, <1>4, <1>5, <1>6, <1>7, <1>8, <1>9

(* What the refinement rests on, in every state                            *)
LEMMA ContractInvHolds == Spec => []ContractInv
  <1>1. Init => ContractInv
    <2>1. Init => \A r \in Requests : ~At(r, "write") /\ ~At(r, "admit")
      BY DEF Init, Idle, At
    <2>2. QED  BY <2>1, InvInit DEF ContractInv, EditCurrent, DynamicExact
  <1>2. ContractInv /\ [Next]_vars => ContractInv'
    BY InvStep, EditCurrentStep, DynamicStep DEF ContractInv, Inv
  <1>3. QED  BY <1>1, <1>2, PTL DEF Spec

(* The steps that the contract sees, and the ones it does not              *)
LEMMA ReplaceContract ==
  ASSUME ContractInv, NEW r \in Requests, ReplaceFile(r)
  PROVE  Contract!Edit \/ UNCHANGED Contract!view
  <1> TypeOK
    BY DEF ContractInv, Inv
  <1> DEFINE c == req[r].config
  <1>1. At(r, "write") /\ Loads(c) /\ file' = c /\ UNCHANGED jobVars
    BY DEF ReplaceFile
  <1>2. UNCHANGED Contract!jobVars
    BY <1>1 DEF Contract!jobVars, jobVars, Phase, Offered, Active
  <1>3. c = file \/ Contract!IsEdit(c)
    BY <1>1 DEF ContractInv, EditCurrent
  <1>4. Contract!Valid(c)
    BY <1>1 DEF Loads, KeysOf, Contract!Valid
  <1> HIDE DEF c
  <1>5. CASE c = file
    BY <1>1, <1>2, <1>5 DEF Contract!view
  <1>6. CASE Contract!IsEdit(c)
    BY <1>1, <1>2, <1>4, <1>6 DEF Contract!Edit
  <1>7. QED  BY <1>3, <1>5, <1>6

(* A principal's keys, as the contract has them                            *)
LEMMA MayUseKeys ==
  ASSUME NEW p \in Tokens \cup {Management}
  PROVE  Contract!MayUse(p) = EnabledKeys(file, p)
  BY DEF Contract!MayUse, EnabledKeys, AllowsKey

(* create_job's last section is one creation of the contract.              *)
LEMMA AdmitContract ==
  ASSUME ContractInv, NEW r \in Requests, NEW j \in Jobs, Admit(r, j)
  PROVE  Contract!Create(j)
  <1> Inv /\ TypeOK
    BY DEF ContractInv, Inv
  <1> DEFINE p == req[r].who
  <1>1. /\ Free /\ UNCHANGED file /\ At(r, "admit") /\ status[j] = "none"
        /\ status' = [status EXCEPT ![j] = "receiving"]
        /\ owner' = [owner EXCEPT ![j] = p]
        /\ pending' = IF req[r].dynamic THEN pending \cup {j} ELSE pending
        /\ eligible' = [eligible EXCEPT ![j] = IF req[r].dynamic THEN Snapshot(req[r]) ELSE {}]
    BY DEF Admit
  <1>2. PICK k \in LeastLoaded(req[r].candidates) : key' = [key EXCEPT ![j] = k]
    BY DEF Admit
  <1>3. store = file
    BY <1>1 DEF Inv, StoreIsFile, Free, Editing, At
  <1>4. /\ req[r].config = file /\ p \in Principals(file)
        /\ key'[j] \in EnabledKeys(file, p)
    BY <1>1, <1>3, AdmitFacts DEF TypeOK
  <1>5. p \in Tokens \cup {Management} /\ p \in Contract!Principals
    BY <1>4 DEF TypeOK, Request, Principals, Contract!Principals
  <1>6. k \in Keys /\ k \in Contract!MayUse(p)
    BY <1>2, <1>4, <1>5, MayUseKeys DEF TypeOK, EnabledKeys, Config
  <1>7. req[r].dynamic => Snapshot(req[r]) = Contract!Accounts(p)
    <2>1. req[r].dynamic => req[r].candidates = Contract!MayUse(p)
      BY <1>1, <1>4, <1>5, MayUseKeys DEF ContractInv, DynamicExact
    <2>2. QED  BY <1>4, <2>1 DEF Snapshot, Contract!Accounts
  <1>8. j \notin pending
    BY <1>1 DEF Inv, PendingCreated
  <1> HIDE DEF p
  <1>9. Phase[j] = "none" /\ Phase' = [Phase EXCEPT ![j] = "active"]
    BY <1>1 DEF TypeOK, Phase, Active
  <1>10. Offered' = [Offered EXCEPT ![j] = IF req[r].dynamic THEN Contract!Accounts(p) ELSE {}]
    <2>1. Offered' \in [Jobs -> SUBSET (Keys \X Users)]
      BY AdmitType DEF Offered
    <2>2. QED  BY <1>1, <1>7, <1>8 DEF TypeOK, Offered
  <1>11. req[r].dynamic \in BOOLEAN
    BY DEF TypeOK, Request
  <1>12. QED  BY <1>1, <1>2, <1>5, <1>6, <1>9, <1>10, <1>11 DEF Contract!Create

(* So is a binding, and the end of a job.                                  *)
LEMMA JobStepContract ==
  ASSUME ContractInv, NEW j \in Jobs, JobStep(j)
  PROVE  Contract!Bind(j) \/ Contract!End(j) \/ UNCHANGED Contract!view
  <1> Inv /\ TypeOK
    BY DEF ContractInv, Inv
  <1>1. CASE Queue(j)
    BY <1>1 DEF Queue, TypeOK, Contract!view, Contract!jobVars, Phase, Offered, Active
  <1>2. CASE End(j) \/ Unauthorized(j)
    <2>1. /\ Active(j) /\ status' = [status EXCEPT ![j] = "ended"]
          /\ UNCHANGED <<file, owner, key, pending, eligible>>
      BY <1>2 DEF End, Unauthorized, Unassigned, Active
    <2>2. Phase[j] = "active" /\ Phase' = [Phase EXCEPT ![j] = "ended"] /\ Offered' = Offered
      BY <2>1 DEF TypeOK, Phase, Offered, Active
    <2>3. QED  BY <2>1, <2>2 DEF Contract!End
  <1>3. CASE Bind(j)
    <2>1. PICK k \in CurrentAccounts(j, store.enabled) : key' = [key EXCEPT ![j] = k]
      BY <1>3 DEF Bind
    <2>2. /\ Free /\ status[j] = "queued" /\ j \in pending /\ pending' = pending \ {j}
          /\ UNCHANGED <<file, status, owner, eligible>>
      BY <1>3 DEF Bind, Unassigned
    <2>3. store = file
      BY <2>2 DEF Inv, StoreIsFile, Free, Editing, At
    <2>4. /\ k \in EnabledKeys(file, owner[j])
          /\ <<k, file.user[k]>> \in eligible[j]
      BY <2>1, <2>3 DEF CurrentAccounts, EnabledKeys
    <2>5. k \in Contract!MayUse(owner[j])
      BY <2>4, MayUseKeys DEF TypeOK
    <2> DEFINE a == <<k, file.user[k]>>
    <2>6. a \in Contract!Accounts(owner[j]) /\ a[1] = k
      BY <2>5 DEF Contract!Accounts
    <2>7. a \in Offered[j]
      BY <2>2, <2>4 DEF Offered
    <2> HIDE DEF a
    <2>8. Phase' = Phase /\ Phase[j] = "active"
      BY <2>2 DEF Phase, Active
    <2>9. Offered' = [Offered EXCEPT ![j] = {}]
      BY <2>2 DEF TypeOK, Offered
    <2>10. QED  BY <2>1, <2>2, <2>6, <2>7, <2>8, <2>9 DEF Contract!Bind
  <1>4. QED  BY <1>1, <1>2, <1>3 DEF JobStep

(* TakesEffectAtOnce: the file is moved into place, create_job's last      *)
(* section and the scheduler's binding are where the relay's concurrent    *)
(* requests take effect, as in AdmissionContract; everything else, crashes *)
(* included, is invisible.                                                 *)
THEOREM ActsAtOnce == Spec => TakesEffectAtOnce
  <1>1. Init => Contract!Init
    <2>1. Init => TypeOK
      BY InitType
    <2>2. QED  BY <2>1 DEF Init, TypeOK, Contract!Init, Phase, Offered, Active
  <1>2. ContractInv /\ [Next]_vars => [Contract!Next]_(Contract!view)
    <2> SUFFICES ASSUME ContractInv, [Next]_vars
                 PROVE  Contract!Next \/ UNCHANGED Contract!view
      OBVIOUS
    <2>1. ASSUME NEW r \in Requests, ReplaceFile(r) PROVE Contract!Next \/ UNCHANGED Contract!view
      BY <2>1, ReplaceContract DEF Contract!Next
    <2>2. ASSUME NEW r \in Requests, NEW j \in Jobs, Admit(r, j) PROVE Contract!Next
      BY <2>2, AdmitContract DEF Contract!Next
    <2>3. ASSUME NEW j \in Jobs, JobStep(j) PROVE Contract!Next \/ UNCHANGED Contract!view
      BY <2>3, JobStepContract DEF Contract!Next
    <2>4. ASSUME UNCHANGED <<file, jobVars>> PROVE UNCHANGED Contract!view
      BY <2>4 DEF jobVars, Contract!view, Contract!jobVars, Phase, Offered, Active
    <2>5. \/ UNCHANGED <<file, jobVars>>
          \/ \E r \in Requests : ReplaceFile(r)
          \/ \E r \in Requests, j \in Jobs : Admit(r, j)
          \/ \E j \in Jobs : JobStep(j)
      BY Zenon DEF Next, vars, EditStep, CreateStep, AddKaggleKey, UpdateKaggleKey, AddRelayToken,
         UpdateRelayTokenPermissions, DeleteRelayToken, Edit, AbandonEdit, Publish, BeginCreate,
         Authenticate, Resolve, RefuseCreate, Restart
    <2>6. QED  BY <2>1, <2>2, <2>3, <2>4, <2>5
  <1>3. QED  BY <1>1, <1>2, ContractInvHolds, PTL DEF Spec, TakesEffectAtOnce, Contract!Spec

=============================================================================
