------------------------------ MODULE Admission ------------------------------
(***************************************************************************)
(* Who may create a job and on which Kaggle key, while administrators edit *)
(* the authentication configuration: the configuration file and the store  *)
(* loaded from it (app/auth_config.py), the endpoints that edit it,        *)
(* create_job (app/main.py), and the scheduler that binds a waiting job to *)
(* a key (app/scheduler.py).                                               *)
(*                                                                         *)
(* The handlers run in threads.  Edits and the last part of create_job     *)
(* hold the locks storage_budget.lock and AUTH_CONFIG_LOCK, which are      *)
(* always taken in this order and are one lock here; the requests'         *)
(* dependencies read app.state.auth_store without it.                      *)
(***************************************************************************)
EXTENDS Integers, FiniteSets

CONSTANTS
    Jobs,
    Requests,       \* the requests that may be in flight together
    Keys,           \* ids of kaggle_keys
    Users,          \* Kaggle usernames
    Tokens,         \* ids of relay tokens
    Star,           \* tokens with allowed_kaggle_key_ids "*"
    Allowed,        \* the keys of every other token, fixed when it is added
    Management,     \* the management principal
    ManagementKey,  \* RELAY_ADMIN_TOKEN is configured
    First,          \* the configuration the relay is installed with
    MaxStores       \* bound: the stores that are made after the first

(* AuthStore's content, and the retired ids of the file *)
Config == [keys : SUBSET Keys, enabled : SUBSET Keys, user : [Keys -> Users],
           tokens : SUBSET Tokens, retired : SUBSET Tokens]

KeysOf(t) == IF t \in Star THEN {} ELSE Allowed[t]

(* AuthStore.from_file accepts the configuration.                          *)
Loads(c) ==
    /\ c.keys # {}
    /\ c.enabled \subseteq c.keys
    /\ c.tokens # {} \/ ManagementKey
    /\ \A t \in c.tokens : KeysOf(t) \subseteq c.keys
    /\ c.tokens \cap c.retired = {}

ASSUME AdmissionAssumption ==
    /\ Star \subseteq Tokens
    /\ Allowed \in [Tokens -> SUBSET Keys]
    /\ Management \notin Tokens
    /\ ManagementKey \in BOOLEAN
    /\ First \in Config
    /\ Loads(First)
    /\ MaxStores \in Nat

VARIABLES
    (* durable *)
    file,       \* RELAY_AUTH_CONFIG
    status,     \* jobs.status, as far as admission and scheduling go
    owner,      \* jobs.relay_token_id
    key,        \* jobs.kaggle_key_id
    pending,    \* jobs whose assignment_state is "pending"
    eligible,   \* jobs.eligible_accounts, as pairs of key and username
    (* volatile *)
    store,      \* the content of app.state.auth_store
    version,    \* its identity: every edit and every start makes a new object
    req         \* the requests in flight

jobVars == <<status, owner, key, pending, eligible>>
vars == <<file, jobVars, store, version, req>>

(* A create_job request has its principal, the store it was given with the *)
(* identity of that store, and the keys it may use; an edit has the        *)
(* configuration that it is about to install.                              *)
Request == [pc : {"idle", "authenticate", "resolve", "admit", "write", "publish"},
            who : Tokens \cup {Management}, config : Config, at : Nat,
            candidates : SUBSET Keys, dynamic : BOOLEAN]
Idle == [pc |-> "idle", who |-> Management, config |-> First, at |-> 0,
         candidates |-> {}, dynamic |-> FALSE]

Principals(c) == c.tokens \cup (IF ManagementKey THEN {Management} ELSE {})

(* management_admin: without a management key, the tokens with "*"         *)
Managers(c) == IF ManagementKey THEN {Management} ELSE c.tokens \cap Star

AllowsKey(p, k) == p = Management \/ p \in Star \/ (p \in Tokens /\ k \in Allowed[p])

(* Mutant: every enabled key, whoever asks                                 *)
AnyEnabledKey(c, p) == c.enabled

(* allowed_key_ids *)
EnabledKeys(c, p) == {k \in c.enabled : AllowsKey(p, k)}

TypeOK ==
    /\ file \in Config
    /\ status \in [Jobs -> {"none", "receiving", "queued", "ended"}]
    /\ owner \in [Jobs -> Tokens \cup {Management}]
    /\ key \in [Jobs -> Keys]
    /\ pending \subseteq Jobs
    /\ eligible \in [Jobs -> SUBSET (Keys \X Users)]
    /\ store \in Config
    /\ version \in Nat
    /\ req \in [Requests -> Request]

Init ==
    /\ file = First
    /\ status = [j \in Jobs |-> "none"]
    /\ owner = [j \in Jobs |-> Management]
    /\ key = [j \in Jobs |-> CHOOSE k \in First.keys : TRUE]
    /\ pending = {}
    /\ eligible = [j \in Jobs |-> {}]
    /\ store = First
    /\ version = 0
    /\ req = [r \in Requests |-> Idle]

-----------------------------------------------------------------------------

(* No edit holds the locks; the other critical sections are one step.      *)
Editing(r) == req[r].pc \in {"write", "publish"}
Free == \A r \in Requests : ~Editing(r)

At(r, s) == req[r].pc = s
Done(r) == req' = [req EXCEPT ![r] = Idle]

Active(j) == status[j] \in {"receiving", "queued"}

-----------------------------------------------------------------------------
(* Edits of the configuration *)

(* Mutant: the file is read before the locks are taken.                    *)
EditUnlocked(r, c) ==
    /\ At(r, "idle")
    /\ version < MaxStores
    /\ Managers(store) # {}
    /\ req' = [req EXCEPT ![r] = [Idle EXCEPT !.pc = "write", !.config = c]]
    /\ UNCHANGED <<file, jobVars, store, version>>

(* require_config_admin, read_auth_config: an administrator's edit starts  *)
(* from the file, under the locks.                                         *)
Edit(r, c) ==
    /\ At(r, "idle")
    /\ Free
    /\ version < MaxStores
    /\ Managers(store) # {}
    /\ req' = [req EXCEPT ![r] = [Idle EXCEPT !.pc = "write", !.config = c]]
    /\ UNCHANGED <<file, jobVars, store, version>>

AddKaggleKey(r) ==
    \E k \in Keys \ file.keys, u \in Users :
        Edit(r, [file EXCEPT !.keys = @ \cup {k}, !.enabled = @ \cup {k}, !.user[k] = u])

UpdateKaggleKey(r) ==
    \E k \in file.keys, u \in Users, on \in BOOLEAN :
        Edit(r, [file EXCEPT !.enabled = IF on THEN @ \cup {k} ELSE @ \ {k}, !.user[k] = u])

AddRelayToken(r) ==
    \E t \in Tokens \ (file.tokens \cup file.retired) :
        Edit(r, [file EXCEPT !.tokens = @ \cup {t}])

(* can_view_keys decides nothing here, but the edit makes a new store.     *)
UpdateRelayTokenPermissions(r) == file.tokens # {} /\ Edit(r, file)

DeleteRelayToken(r) ==
    \E t \in store.tokens \ Managers(store) :
        /\ \A j \in Jobs : Active(j) => owner[j] # t
        /\ Edit(r, [file EXCEPT !.tokens = @ \ {t}, !.retired = @ \cup {t}])

(* Mutant: the file is moved into place before it is validated.            *)
ReplaceUnchecked(r) ==
    /\ At(r, "write")
    /\ file' = req[r].config
    /\ req' = [req EXCEPT ![r].pc = "publish"]
    /\ UNCHANGED <<jobVars, store, version>>

(* validate_and_write_auth_config: the new file is validated, then moved   *)
(* into place ...                                                          *)
ReplaceFile(r) ==
    /\ At(r, "write")
    /\ Loads(req[r].config)
    /\ file' = req[r].config
    /\ req' = [req EXCEPT ![r].pc = "publish"]
    /\ UNCHANGED <<jobVars, store, version>>

(* ... or is invalid, or cannot be written: the request fails.             *)
AbandonEdit(r) ==
    /\ At(r, "write")
    /\ Done(r)
    /\ UNCHANGED <<file, jobVars, store, version>>

(* Mutant: the new store is not told from the one that a request began with. *)
PublishAlike(r) ==
    /\ At(r, "publish")
    /\ store' = req[r].config
    /\ Done(r)
    /\ UNCHANGED <<file, jobVars, version>>

(* The handler assigns app.state.auth_store and leaves the locks.          *)
Publish(r) ==
    /\ At(r, "publish")
    /\ store' = req[r].config
    /\ version' = version + 1
    /\ Done(r)
    /\ UNCHANGED <<file, jobVars>>

-----------------------------------------------------------------------------
(* create_job *)

(* get_auth_store, the first dependency of the handler                     *)
BeginCreate(r) ==
    /\ At(r, "idle")
    /\ req' = [req EXCEPT ![r] =
                  [Idle EXCEPT !.pc = "authenticate", !.config = store, !.at = version]]
    /\ UNCHANGED <<file, jobVars, store, version>>

(* require_auth asks the store of now, which may be another one.           *)
Authenticate(r) ==
    /\ At(r, "authenticate")
    /\ \E p \in Principals(store) :
          req' = [req EXCEPT ![r] = [@ EXCEPT !.pc = "resolve", !.who = p]]
    /\ UNCHANGED <<file, jobVars, store, version>>

(* A requested key, the keys that have quota left, or for a dynamic job    *)
(* all: found with the store the handler was given, and remote lookups.    *)
Resolve(r) ==
    /\ At(r, "resolve")
    /\ LET allowed == EnabledKeys(req[r].config, req[r].who) IN
       \E K \in (SUBSET allowed) \ {{}}, d \in BOOLEAN :
          /\ d => K = allowed
          /\ req' = [req EXCEPT ![r] = [@ EXCEPT !.pc = "admit", !.candidates = K, !.dynamic = d]]
    /\ UNCHANGED <<file, jobVars, store, version>>

Load(k) == Cardinality({j \in Jobs : Active(j) /\ store.user[key[j]] = store.user[k]})
LeastLoaded(K) == {k \in K : \A l \in K : Load(k) <= Load(l)}

(* eligible_accounts of a dynamic job: its keys and their usernames        *)
Snapshot(q) == {<<k, q.config.user[k]>> : k \in q.candidates}

(* Mutant: the job is created without the lock of the edits.               *)
AdmitUnlocked(r, j) ==
    /\ At(r, "admit")
    /\ req[r].who \in Principals(store)
    /\ req[r].at = version
    /\ status[j] = "none"
    /\ status' = [status EXCEPT ![j] = "receiving"]
    /\ owner' = [owner EXCEPT ![j] = req[r].who]
    /\ \E k \in LeastLoaded(req[r].candidates) : key' = [key EXCEPT ![j] = k]
    /\ pending' = IF req[r].dynamic THEN pending \cup {j} ELSE pending
    /\ eligible' = [eligible EXCEPT ![j] = IF req[r].dynamic THEN Snapshot(req[r]) ELSE {}]
    /\ Done(r)
    /\ UNCHANGED <<file, store, version>>

(* Under the lock the principal and the store are compared with those of   *)
(* now; then the job is created.                                           *)
Admit(r, j) ==
    /\ At(r, "admit")
    /\ Free
    /\ req[r].who \in Principals(store)
    /\ req[r].at = version
    /\ status[j] = "none"
    /\ status' = [status EXCEPT ![j] = "receiving"]
    /\ owner' = [owner EXCEPT ![j] = req[r].who]
    /\ \E k \in LeastLoaded(req[r].candidates) : key' = [key EXCEPT ![j] = k]
    /\ pending' = IF req[r].dynamic THEN pending \cup {j} ELSE pending
    /\ eligible' = [eligible EXCEPT ![j] = IF req[r].dynamic THEN Snapshot(req[r]) ELSE {}]
    /\ Done(r)
    /\ UNCHANGED <<file, store, version>>

(* Every error path: 401, 403, 409, 429, 503 and the checks of the sizes   *)
RefuseCreate(r) ==
    /\ req[r].pc \in {"authenticate", "resolve", "admit"}
    /\ Done(r)
    /\ UNCHANGED <<file, jobVars, store, version>>

-----------------------------------------------------------------------------
(* The job, and the scheduler *)

(* complete_job has assembled the archives.                                *)
Queue(j) ==
    /\ status[j] = "receiving"
    /\ status' = [status EXCEPT ![j] = "queued"]
    /\ UNCHANGED <<file, owner, key, pending, eligible, store, version, req>>

(* Completion, failure, cancellation or expiry, by whoever has the job     *)
End(j) ==
    /\ Active(j)
    /\ status' = [status EXCEPT ![j] = "ended"]
    /\ UNCHANGED <<file, owner, key, pending, eligible, store, version, req>>

(* Mutant: the username of the key is not compared with the snapshot.      *)
AccountsByKey(j, keys) ==
    {k \in keys : /\ owner[j] \in Principals(store)
                  /\ AllowsKey(owner[j], k)
                  /\ \E u \in Users : <<k, u>> \in eligible[j]}

(* current_accounts: the keys of the snapshot that the owner may still use *)
(* and that still have the username they had.                              *)
CurrentAccounts(j, keys) ==
    {k \in keys : /\ owner[j] \in Principals(store)
                  /\ AllowsKey(owner[j], k)
                  /\ <<k, store.user[k]>> \in eligible[j]}

Unassigned(j) == status[j] = "queued" /\ j \in pending

Bind(j) ==
    /\ Free
    /\ Unassigned(j)
    /\ \E k \in CurrentAccounts(j, store.enabled) : key' = [key EXCEPT ![j] = k]
    /\ pending' = pending \ {j}
    /\ UNCHANGED <<file, status, owner, eligible, store, version, req>>

(* A disabled key may be enabled again; without even such a key the job    *)
(* fails.                                                                  *)
Unauthorized(j) ==
    /\ Free
    /\ Unassigned(j)
    /\ CurrentAccounts(j, store.keys) = {}
    /\ status' = [status EXCEPT ![j] = "ended"]
    /\ UNCHANGED <<file, owner, key, pending, eligible, store, version, req>>

(* The process ends at any point and starts again, if the file loads.      *)
Restart ==
    /\ Loads(file)
    /\ version < MaxStores
    /\ store' = file
    /\ version' = version + 1
    /\ req' = [r \in Requests |-> Idle]
    /\ UNCHANGED <<file, jobVars>>

-----------------------------------------------------------------------------

EditStep(r) ==
    \/ AddKaggleKey(r) \/ UpdateKaggleKey(r) \/ AddRelayToken(r)
    \/ UpdateRelayTokenPermissions(r) \/ DeleteRelayToken(r)
    \/ ReplaceFile(r) \/ AbandonEdit(r) \/ Publish(r)

CreateStep(r) ==
    \/ BeginCreate(r) \/ Authenticate(r) \/ Resolve(r) \/ RefuseCreate(r)
    \/ \E j \in Jobs : Admit(r, j)

JobStep(j) == Queue(j) \/ End(j) \/ Bind(j) \/ Unauthorized(j)

Next ==
    \/ \E r \in Requests : EditStep(r) \/ CreateStep(r)
    \/ \E j \in Jobs : JobStep(j)
    \/ Restart

Spec == Init /\ [][Next]_vars

-----------------------------------------------------------------------------
(* Safety *)

CanAccess(j, p) ==
    /\ IF j \in pending THEN \E e \in eligible[j] : AllowsKey(p, e[1])
                       ELSE AllowsKey(p, key[j])
    /\ owner[j] = p \/ p = Management \/ p \in Star

(* Deletion of a user and creation of a job never leave an orphan: every   *)
(* job that has not ended belongs to a principal that can still log in,    *)
(* also after a crash at any point of the deletion.                        *)
NoOrphan ==
    \A j \in Jobs : Active(j) => owner[j] \in Principals(store) \cap Principals(file)

(* Whatever is renamed, disabled or bound: the owner of an active job can  *)
(* reach it, and the worker will find the credentials of its key.          *)
OwnerReaches ==
    \A j \in Jobs : Active(j) => CanAccess(j, owner[j]) /\ key[j] \in store.keys

(* What restarts would load is what requests are checked against, except   *)
(* between the two steps of an edit.                                       *)
StoreIsFile ==
    /\ Loads(file)
    /\ (\A r \in Requests : ~At(r, "publish")) => store = file

(* No edit undoes another: keys stay, tokens only leave into the retired   *)
(* ids, and those are final.                                               *)
EditsKept ==
    [][/\ file.keys \subseteq file'.keys
       /\ file.retired \subseteq file'.retired
       /\ file.tokens \subseteq file'.tokens \cup file'.retired]_vars

(* A key is given to a job, at its creation or later by the scheduler,     *)
(* only if the configuration of that moment enables it for the job's       *)
(* owner; a waiting job's key has the username it was offered under.       *)
KeyChoiceCurrent ==
    [][\A j \in Jobs :
         /\ status[j] = "none" /\ status'[j] # "none" => key'[j] \in EnabledKeys(store, owner'[j])
         /\ j \in pending \ pending' => /\ key'[j] \in EnabledKeys(store, owner[j])
                                        /\ <<key'[j], store.user[key'[j]]>> \in eligible[j]]_vars

-----------------------------------------------------------------------------
(* What the handlers implement *)

(* An edit takes effect when its file is moved into place, a creation when *)
(* it is admitted; the copy in memory, the requests and restarts are the   *)
(* relay's own affair.                                                     *)
Phase == [j \in Jobs |-> IF Active(j) THEN "active" ELSE status[j]]
Offered == [j \in Jobs |-> IF j \in pending THEN eligible[j] ELSE {}]

Contract == INSTANCE AdmissionContract WITH config <- file, phase <- Phase, offered <- Offered

(* Concurrent edits, creations with awaits inside, bindings and crashes at *)
(* any point look like whole operations, one after another: what a request *)
(* decided on before it waited still holds when it takes effect.           *)
TakesEffectAtOnce == Contract!Spec

-----------------------------------------------------------------------------
(* The inductive invariant *)

OneEditor == \A r, s \in Requests : Editing(r) /\ Editing(s) => r = s

Extends(c, d) ==
    /\ c.keys \subseteq d.keys
    /\ c.retired \subseteq d.retired
    /\ c.tokens \subseteq d.tokens \cup d.retired

(* What an edit is about to install or to publish, while it has the locks  *)
EditExtends ==
    \A r \in Requests : Editing(r) =>
        /\ Extends(file, req[r].config)
        /\ store.keys \subseteq req[r].config.keys
        /\ \A j \in Jobs : Active(j) => owner[j] \in Principals(req[r].config)
        /\ At(r, "publish") => file = req[r].config

(* A snapshot with the identity of the store of now has its content.       *)
SnapshotExact ==
    \A r \in Requests : req[r].pc \in {"authenticate", "resolve", "admit"} =>
        /\ req[r].at <= version
        /\ req[r].at = version => req[r].config = store
        /\ At(r, "admit") => /\ req[r].candidates # {}
                            /\ req[r].candidates \subseteq EnabledKeys(req[r].config, req[r].who)

PendingCreated == \A j \in pending : status[j] # "none"

(* What is about to be written is still one edit of the file.              *)
EditCurrent ==
    \A r \in Requests : At(r, "write") => req[r].config = file \/ Contract!IsEdit(req[r].config)

(* A dynamic job may use every account that its owner had in the snapshot. *)
DynamicExact ==
    \A r \in Requests : At(r, "admit") /\ req[r].dynamic =>
        req[r].candidates = EnabledKeys(req[r].config, req[r].who)

Inv ==
    /\ TypeOK /\ Loads(store) /\ NoOrphan /\ OwnerReaches /\ StoreIsFile
    /\ OneEditor /\ EditExtends /\ SnapshotExact /\ PendingCreated
=============================================================================
