---------------------------- MODULE DatasetLock -----------------------------
(***************************************************************************)
(* dataset_submission_lock (app/worker.py): one mutex per dataset_ref,     *)
(* made on demand and kept in a table under a guard, with a count of the   *)
(* threads that hold or want it, so that the last one removes it.          *)
(*                                                                         *)
(* An entry is the Python list [lock, count].  Entries that nothing refers *)
(* to are garbage and may be made again.                                   *)
(***************************************************************************)
EXTENDS Integers, FiniteSets

CONSTANTS Threads, Refs, Entries,
          NoRef, NoEntry, NoThread      \* absent values

ASSUME LockAssumption ==
    /\ IsFiniteSet(Threads)
    /\ NoRef \notin Refs
    /\ NoEntry \notin Entries
    /\ NoThread \notin Threads

VARIABLES
    table,      \* _DATASET_SUBMISSION_LOCKS
    count,      \* entry[1]
    holder,     \* the thread that holds the lock entry[0]
    pc,         \* where the thread is in dataset_submission_lock
    ref,        \* its dataset_ref
    entry,      \* its local variable entry
    stopping    \* shutdown_event

vars == <<table, count, holder, pc, ref, entry, stopping>>

Registered == {"waiting", "holding", "leaving"}

TypeOK ==
    /\ table \in [Refs -> Entries \cup {NoEntry}]
    /\ count \in [Entries -> Nat]
    /\ holder \in [Entries -> Threads \cup {NoThread}]
    /\ pc \in [Threads -> {"outside"} \cup Registered]
    /\ ref \in [Threads -> Refs \cup {NoRef}]
    /\ entry \in [Threads -> Entries \cup {NoEntry}]
    /\ stopping \in BOOLEAN

Init ==
    /\ table = [r \in Refs |-> NoEntry]
    /\ count = [e \in Entries |-> 0]
    /\ holder = [e \in Entries |-> NoThread]
    /\ pc = [t \in Threads |-> "outside"]
    /\ ref = [t \in Threads |-> NoRef]
    /\ entry = [t \in Threads |-> NoEntry]
    /\ stopping = FALSE

-----------------------------------------------------------------------------

(* No table and no frame refers to the entry: a new one may be made of it. *)
Fresh(e) == /\ \A r \in Refs : table[r] # e
            /\ \A t \in Threads : entry[t] # e

(* Under the guard: find or make the entry, and count the thread in.       *)
Register(t) ==
    /\ pc[t] = "outside"
    /\ \E r \in Refs, e \in Entries :
          /\ IF table[r] = NoEntry THEN Fresh(e) ELSE e = table[r]
          /\ table' = [table EXCEPT ![r] = e]
          /\ count' = [count EXCEPT ![e] = IF table[r] = NoEntry THEN 1 ELSE @ + 1]
          /\ holder' = [holder EXCEPT ![e] = IF table[r] = NoEntry THEN NoThread ELSE @]
          /\ ref' = [ref EXCEPT ![t] = r]
          /\ entry' = [entry EXCEPT ![t] = e]
    /\ pc' = [pc EXCEPT ![t] = "waiting"]
    /\ UNCHANGED stopping

(* lock.acquire succeeds.                                                  *)
Acquire(t) ==
    /\ pc[t] = "waiting"
    /\ holder[entry[t]] = NoThread
    /\ holder' = [holder EXCEPT ![entry[t]] = t]
    /\ pc' = [pc EXCEPT ![t] = "holding"]
    /\ UNCHANGED <<table, count, ref, entry, stopping>>

(* The wait is interrupted by a shutdown: nothing was acquired.            *)
Interrupt(t) ==
    /\ pc[t] = "waiting"
    /\ stopping
    /\ pc' = [pc EXCEPT ![t] = "leaving"]
    /\ UNCHANGED <<table, count, holder, ref, entry, stopping>>

(* Mutant: the lock is not released when the body raises.                  *)
LeavesLocked(t) ==
    /\ pc[t] = "holding"
    /\ pc' = [pc EXCEPT ![t] = "leaving"]
    /\ UNCHANGED <<table, count, holder, ref, entry, stopping>>

(* The body ended or raised: lock.release.                                 *)
Release(t) ==
    /\ pc[t] = "holding"
    /\ holder' = [holder EXCEPT ![entry[t]] = NoThread]
    /\ pc' = [pc EXCEPT ![t] = "leaving"]
    /\ UNCHANGED <<table, count, ref, entry, stopping>>

RemovesAlways(t) == TRUE      \* mutant: the count is not consulted
RemovesNever(t) == FALSE      \* mutant: the entry is never popped

(* entry[1] is 0 after this thread, and the table still holds the entry.   *)
IsLast(t) == count[entry[t]] = 1 /\ table[ref[t]] = entry[t]

(* Under the guard: count the thread out, and remove the entry with the    *)
(* last one.                                                               *)
Unregister(t) ==
    /\ pc[t] = "leaving"
    /\ count' = [count EXCEPT ![entry[t]] = @ - 1]
    /\ table' = IF IsLast(t) THEN [table EXCEPT ![ref[t]] = NoEntry] ELSE table
    /\ pc' = [pc EXCEPT ![t] = "outside"]
    /\ ref' = [ref EXCEPT ![t] = NoRef]
    /\ entry' = [entry EXCEPT ![t] = NoEntry]
    /\ UNCHANGED <<holder, stopping>>

Shutdown ==
    /\ ~stopping
    /\ stopping' = TRUE
    /\ UNCHANGED <<table, count, holder, pc, ref, entry>>

Step(t) == Register(t) \/ Acquire(t) \/ Interrupt(t) \/ Release(t) \/ Unregister(t)

Next == (\E t \in Threads : Step(t)) \/ Shutdown

Spec == Init /\ [][Next]_vars

(* A thread that may take the lock, leaves its body or its exit does so.   *)
FairSpec ==
    /\ Spec
    /\ \A t \in Threads : WF_vars(Acquire(t)) /\ WF_vars(Release(t)) /\ WF_vars(Unregister(t))

-----------------------------------------------------------------------------
(* Properties *)

Users(e) == {t \in Threads : entry[t] = e}

(* The table keeps an entry exactly as long as a thread uses it: entries   *)
(* neither leak nor disappear under a waiting thread.                      *)
TableExact ==
    \A r \in Refs : (table[r] # NoEntry) = (\E t \in Threads : ref[t] = r)

(* The lock promises what process_job relies on: a mutex per dataset_ref.  *)
Owns(t, r) == pc[t] = "holding" /\ ref[t] = r
Owners == [r \in Refs |-> {t \in Threads : Owns(t, r)}]
Mutex == INSTANCE RefMutex WITH owner <- Owners

(* dataset_submission_lock implements RefMutex: two threads with the same  *)
(* dataset_ref never hold two different locks.                             *)
ImplementsMutex == Mutex!Spec

(* While some thread waits for a dataset_ref, some thread gets its lock.   *)
LockProgress ==
    \A r \in Refs : (\E t \in Threads : pc[t] = "waiting" /\ ref[t] = r)
                    ~> (\E t \in Threads : Owns(t, r)) \/ stopping

-----------------------------------------------------------------------------
(* The inductive invariant                                                 *)

ThreadInv(t) ==
    /\ pc[t] = "outside" => ref[t] = NoRef /\ entry[t] = NoEntry
    /\ pc[t] # "outside" => ref[t] \in Refs /\ entry[t] = table[ref[t]] /\ entry[t] \in Entries
    /\ pc[t] = "holding" => holder[entry[t]] = t

TableInv ==
    /\ \A r, s \in Refs : table[r] = table[s] /\ table[r] # NoEntry => r = s
    /\ \A r \in Refs : table[r] # NoEntry =>
          count[table[r]] = Cardinality(Users(table[r])) /\ count[table[r]] > 0

Inv == TypeOK /\ (\A t \in Threads : ThreadInv(t)) /\ TableInv

=============================================================================
