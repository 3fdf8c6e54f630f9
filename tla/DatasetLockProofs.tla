------------------------- MODULE DatasetLockProofs --------------------------
(* Proofs that dataset_submission_lock is a mutex per dataset_ref, for any *)
(* number of threads, references and lock entries.                         *)
EXTENDS DatasetLock, FiniteSetTheorems, TLAPS

(* The users of an entry are finitely many.                                *)
LEMMA UsersFinite ==
    ASSUME NEW e
    PROVE  IsFiniteSet(Users(e)) /\ Cardinality(Users(e)) \in Nat
<1>1. Users(e) \in SUBSET Threads
  BY DEF Users
<1> QED
  BY <1>1, LockAssumption, FS_Subset, FS_CardinalityType

(* All threads are outside and the table is empty.                         *)
LEMMA InitInv == Init => Inv
<1> SUFFICES ASSUME Init PROVE Inv
  OBVIOUS
<1>1. TypeOK
  BY DEF Init, TypeOK, Registered
<1>2. \A t \in Threads : ThreadInv(t)
  BY DEF Init, ThreadInv
<1>3. TableInv
  BY DEF Init, TableInv
<1> QED
  BY <1>1, <1>2, <1>3 DEF Inv

(* Counting a thread in keeps the invariant.                               *)
LEMMA RegisterInv ==
    ASSUME Inv, NEW t \in Threads, Register(t)
    PROVE  Inv'
<1> USE LockAssumption DEF Inv
<1>1. PICK r \in Refs, e \in Entries :
          /\ IF table[r] = NoEntry THEN Fresh(e) ELSE e = table[r]
          /\ table' = [table EXCEPT ![r] = e]
          /\ count' = [count EXCEPT ![e] = IF table[r] = NoEntry THEN 1 ELSE @ + 1]
          /\ holder' = [holder EXCEPT ![e] = IF table[r] = NoEntry THEN NoThread ELSE @]
          /\ ref' = [ref EXCEPT ![t] = r]
          /\ entry' = [entry EXCEPT ![t] = e]
  BY DEF Register
<1>2. pc[t] = "outside" /\ pc' = [pc EXCEPT ![t] = "waiting"] /\ stopping' = stopping
  BY DEF Register
<1>3. TypeOK'
  BY <1>1, <1>2 DEF TypeOK, Registered
<1>4. ref[t] = NoRef /\ entry[t] = NoEntry
  BY <1>2 DEF ThreadInv
<1>5. ASSUME NEW u \in Threads PROVE ThreadInv(u)'
  <2>1. CASE u = t
    BY <1>1, <1>2, <2>1 DEF ThreadInv, TypeOK
  <2>2. CASE u # t
    <3>1. pc'[u] = pc[u] /\ ref'[u] = ref[u] /\ entry'[u] = entry[u]
      BY <1>1, <1>2, <2>2 DEF TypeOK
    <3>2. pc[u] # "outside" => table'[ref[u]] = table[ref[u]]
      BY <1>1 DEF ThreadInv, TypeOK
    <3>3. entry[u] # NoEntry => holder'[entry[u]] = holder[entry[u]]
      BY <1>1, <2>2 DEF Fresh, TypeOK
    <3> QED
      BY <3>1, <3>2, <3>3 DEF ThreadInv
  <2> QED
    BY <2>1, <2>2
<1>6. TableInv'
  <2>1. \A s \in Refs : s # r => table'[s] = table[s] /\ table[s] # e
    BY <1>1 DEF Fresh, TableInv, TypeOK
  <2>2. table'[r] = e /\ e # NoEntry
    BY <1>1 DEF TypeOK
  <2>3. Users(e)' = Users(e) \cup {t} /\ t \notin Users(e)
    BY <1>1, <1>4 DEF Users, TypeOK
  <2>4. \A f \in Entries : f # e => Users(f)' = Users(f) /\ count'[f] = count[f]
    BY <1>1, <1>4 DEF Users, TypeOK
  <2>5. count'[e] = Cardinality(Users(e)') /\ count'[e] > 0
    <3>1. Cardinality(Users(e)') = Cardinality(Users(e)) + 1
      BY <2>3, UsersFinite, FS_AddElement
    <3>2. CASE table[r] = NoEntry
      <4>1. Users(e) = {}
        BY <1>1, <3>2 DEF Fresh, Users
      <4>2. Cardinality(Users(e)) = 0
        BY <4>1, FS_EmptySet
      <4> QED
        BY <1>1, <3>1, <3>2, <4>2 DEF TypeOK
    <3>3. CASE table[r] # NoEntry
      BY <1>1, <3>1, <3>3, UsersFinite DEF TableInv, TypeOK
    <3> QED
      BY <3>2, <3>3
  <2>6. ASSUME NEW s \in Refs, NEW f \in Entries, table'[s] = f
        PROVE  count'[f] = Cardinality(Users(f)') /\ count'[f] > 0
    <3>1. CASE f = e
      BY <2>5, <3>1
    <3>2. CASE f # e
      <4>1. table[s] = f
        BY <2>1, <2>2, <2>6, <3>2
      <4>2. count[f] = Cardinality(Users(f)) /\ count[f] > 0
        BY <4>1 DEF TableInv
      <4> QED
        BY <2>4, <3>2, <4>2
    <3> QED
      BY <3>1, <3>2
  <2>7. \A s, q \in Refs : table'[s] = table'[q] /\ table'[s] # NoEntry => s = q
    BY <2>1, <2>2 DEF TableInv
  <2>8. \A s \in Refs : table'[s] \in Entries \cup {NoEntry}
    BY <1>3 DEF TypeOK
  <2> QED
    BY <2>6, <2>7, <2>8 DEF TableInv, Users
<1> QED
  BY <1>3, <1>5, <1>6

(* Counting a thread out keeps it: an entry is removed by its last user.   *)
LEMMA UnregisterInv ==
    ASSUME Inv, NEW t \in Threads, Unregister(t)
    PROVE  Inv'
<1> USE LockAssumption DEF Inv
<1>1. PICK e \in Entries, r \in Refs : e = entry[t] /\ r = ref[t] /\ e = table[r] /\ e # NoEntry
  BY DEF Unregister, ThreadInv
<1>2. count[e] = Cardinality(Users(e)) /\ count[e] > 0 /\ count[e] \in Nat
  BY <1>1 DEF TableInv, TypeOK
<1>3. Users(e)' = Users(e) \ {t} /\ t \in Users(e)
  BY <1>1 DEF Unregister, Users, TypeOK
<1>4. Cardinality(Users(e)') = count[e] - 1
  BY <1>2, <1>3, UsersFinite, FS_RemoveElement
<1>5. count[e] = 1 => \A u \in Threads : u # t => entry[u] # e
  <2>1. count[e] = 1 => \E x : Users(e) = {x}
    BY <1>2, UsersFinite, FS_Singleton
  <2> QED
    BY <1>3, <2>1 DEF Users
<1>6. count' = [count EXCEPT ![e] = count[e] - 1]
  BY <1>1 DEF Unregister
<1>7. /\ table' = IF count[e] = 1 THEN [table EXCEPT ![r] = NoEntry] ELSE table
      /\ pc' = [pc EXCEPT ![t] = "outside"]
      /\ ref' = [ref EXCEPT ![t] = NoRef]
      /\ entry' = [entry EXCEPT ![t] = NoEntry]
      /\ holder' = holder /\ stopping' = stopping
  BY <1>1 DEF Unregister, IsLast
<1>8. TypeOK'
  BY <1>1, <1>2, <1>6, <1>7 DEF TypeOK
<1>9. ASSUME NEW u \in Threads PROVE ThreadInv(u)'
  <2>1. CASE u = t
    BY <1>7, <2>1 DEF ThreadInv, TypeOK
  <2>2. CASE u # t
    <3>1. pc'[u] = pc[u] /\ ref'[u] = ref[u] /\ entry'[u] = entry[u]
      BY <1>7, <2>2 DEF TypeOK
    <3>2. pc[u] # "outside" => table'[ref[u]] = table[ref[u]]
      BY <1>1, <1>5, <1>7, <2>2 DEF ThreadInv, TypeOK
    <3> QED
      BY <1>7, <3>1, <3>2 DEF ThreadInv
  <2> QED
    BY <2>1, <2>2
<1>10. TableInv'
  <2>1. \A s \in Refs : table'[s] # NoEntry => table'[s] = table[s] /\ table[s] \in Entries
    BY <1>1, <1>7 DEF TypeOK
  <2>2. ASSUME NEW s \in Refs, NEW f \in Entries, table'[s] = f
        PROVE  count'[f] = Cardinality(Users(f)') /\ count'[f] > 0
    <3>1. table[s] = f
      BY <2>1, <2>2
    <3>2. CASE f = e
      <4>1. s = r
        BY <1>1, <3>1, <3>2 DEF TableInv
      <4>2. count[e] # 1
        BY <1>1, <1>7, <2>2, <4>1 DEF TypeOK
      <4>3. count'[e] = count[e] - 1
        BY <1>1, <1>6 DEF TypeOK
      <4> QED
        BY <1>2, <1>4, <3>2, <4>2, <4>3
    <3>3. CASE f # e
      <4>1. Users(f)' = Users(f)
        BY <1>1, <1>7, <3>3 DEF Users, TypeOK
      <4>2. count'[f] = count[f]
        BY <1>6, <3>3 DEF TypeOK
      <4> QED
        BY <3>1, <4>1, <4>2 DEF TableInv
    <3> QED
      BY <3>2, <3>3
  <2>3. \A s, q \in Refs : table'[s] = table'[q] /\ table'[s] # NoEntry => s = q
    BY <2>1 DEF TableInv
  <2> QED
    BY <2>1, <2>2, <2>3 DEF TableInv, Users
<1> QED
  BY <1>8, <1>9, <1>10

(* Every step keeps the invariant.                                         *)
LEMMA NextInv ==
    ASSUME Inv, [Next]_vars
    PROVE  Inv'
<1> USE LockAssumption DEF Inv
<1>1. CASE UNCHANGED vars
  BY <1>1 DEF vars, TypeOK, ThreadInv, TableInv, Users
<1>2. CASE Shutdown
  BY <1>2 DEF Shutdown, TypeOK, ThreadInv, TableInv, Users
<1>3. ASSUME NEW t \in Threads, Step(t) PROVE Inv'
  <2>1. CASE Register(t)
    BY <2>1, RegisterInv
  <2>2. CASE Unregister(t)
    BY <2>2, UnregisterInv
  <2>3. ASSUME Acquire(t) \/ Interrupt(t) \/ Release(t)
        PROVE  Inv'
    <3>1. UNCHANGED <<table, count, ref, entry>>
      BY <2>3 DEF Acquire, Interrupt, Release
    <3>2. TableInv'
      BY <3>1 DEF TableInv, Users
    <3>3. entry[t] \in Entries /\ entry[t] = table[ref[t]] /\ ref[t] \in Refs
      BY <2>3 DEF Acquire, Interrupt, Release, ThreadInv
    <3>4. TypeOK'
      BY <2>3, <3>3 DEF Acquire, Interrupt, Release, TypeOK, Registered
    <3>5. ASSUME NEW u \in Threads PROVE ThreadInv(u)'
      BY <2>3, <3>1, <3>3 DEF Acquire, Interrupt, Release, ThreadInv, TypeOK
    <3> QED
      BY <3>2, <3>4, <3>5
  <2> QED
    BY <1>3, <2>1, <2>2, <2>3 DEF Step
<1> QED
  BY <1>1, <1>2, <1>3 DEF Next

(* Every thread inside the lock uses the entry the table holds for its     *)
(* dataset_ref, and its count is the number of its users.                  *)
THEOREM Invariance == Spec => []Inv
<1> QED
  BY InitInv, NextInv, PTL DEF Spec

(* The table, the counts and the threads' frames keep their types: no      *)
(* count goes below zero, however waits are interrupted.                   *)
THEOREM TypeCorrect == Spec => []TypeOK
<1>1. Inv => TypeOK
  BY DEF Inv
<1> QED
  BY <1>1, Invariance, PTL

(* The table holds an entry for a dataset_ref exactly while some thread    *)
(* uses it.                                                                *)
THEOREM TableIsExact == Spec => []TableExact
<1>1. Inv => TableExact
  <2> SUFFICES ASSUME Inv, NEW r \in Refs
               PROVE  (table[r] # NoEntry) = (\E t \in Threads : ref[t] = r)
    BY DEF TableExact
  <2>1. ASSUME table[r] # NoEntry PROVE \E t \in Threads : ref[t] = r
    <3>1. Cardinality(Users(table[r])) > 0
      BY <2>1 DEF Inv, TableInv
    <3>2. Users(table[r]) # {}
      BY <3>1, FS_EmptySet
    <3>3. PICK t \in Threads : entry[t] = table[r]
      BY <3>2 DEF Users
    <3>4. ref[t] \in Refs /\ table[ref[t]] = table[r]
      BY <2>1, <3>3 DEF Inv, ThreadInv
    <3> QED
      BY <2>1, <3>4 DEF Inv, TableInv
  <2>2. ASSUME NEW t \in Threads, ref[t] = r PROVE table[r] # NoEntry
    BY <2>2, LockAssumption DEF Inv, ThreadInv
  <2> QED
    BY <2>1, <2>2
<1> QED
  BY <1>1, Invariance, PTL

(* dataset_submission_lock implements a mutex per dataset_ref.             *)
THEOREM IsMutex == Spec => ImplementsMutex
<1>1. Init => Mutex!Init
  BY DEF Init, Mutex!Init, Owners, Owns
<1>2. Inv /\ [Next]_vars => [Mutex!Next]_Owners
  <2> SUFFICES ASSUME Inv, [Next]_vars
               PROVE  [Mutex!Next]_Owners
    OBVIOUS
  <2>1. \A t, u \in Threads, r \in Refs : Owns(t, r) /\ Owns(u, r) => t = u
    BY DEF Inv, ThreadInv, Owns
  <2>2. ASSUME NEW t \in Threads, Acquire(t) PROVE Mutex!Next
    <3>1. /\ pc[t] = "waiting" /\ pc' = [pc EXCEPT ![t] = "holding"]
          /\ ref' = ref /\ ref[t] \in Refs /\ holder[entry[t]] = NoThread
          /\ entry[t] = table[ref[t]]
      BY <2>2 DEF Acquire, Inv, ThreadInv
    <3>2. \A u \in Threads : ~Owns(u, ref[t])
      BY <3>1, LockAssumption DEF Owns, Inv, ThreadInv
    <3>3. \A s \in Refs : ~Owns(t, s)
      BY <3>1 DEF Owns
    <3>4. \A u \in Threads, s \in Refs : Owns(u, s)' <=> Owns(u, s) \/ (u = t /\ s = ref[t])
      BY <3>1 DEF Owns, Inv, TypeOK
    <3>5. Owners[ref[t]] = {} /\ \A s \in Refs : t \notin Owners[s]
      BY <3>1, <3>2, <3>3 DEF Owners
    <3>6. Owners' = [Owners EXCEPT ![ref[t]] = {t}]
      BY <3>1, <3>2, <3>4 DEF Owners
    <3> QED
      BY <3>1, <3>5, <3>6 DEF Mutex!Next, Mutex!Enter
  <2>3. ASSUME NEW t \in Threads, Release(t) PROVE Mutex!Next
    <3>1. /\ pc[t] = "holding" /\ pc' = [pc EXCEPT ![t] = "leaving"]
          /\ ref' = ref /\ ref[t] \in Refs
      BY <2>3 DEF Release, Inv, ThreadInv
    <3>2. Owns(t, ref[t])
      BY <3>1 DEF Owns
    <3>3. \A u \in Threads, s \in Refs : Owns(u, s)' <=> Owns(u, s) /\ u # t
      BY <3>1 DEF Owns, Inv, TypeOK
    <3>4. \A s \in Refs : Owns(t, s) => s = ref[t]
      BY DEF Owns
    <3>5. Owners[ref[t]] = {t}
      BY <2>1, <3>1, <3>2 DEF Owners
    <3>6. ASSUME NEW s \in Refs
          PROVE  Owners'[s] = IF s = ref[t] THEN {} ELSE Owners[s]
      BY <2>1, <3>1, <3>2, <3>3, <3>4 DEF Owners
    <3>7. Owners' = [Owners EXCEPT ![ref[t]] = {}]
      BY <3>6 DEF Owners
    <3> QED
      BY <3>1, <3>5, <3>7 DEF Mutex!Next, Mutex!Leave
  <2>4. ASSUME \A u \in Threads, s \in Refs : Owns(u, s)' <=> Owns(u, s)
        PROVE  UNCHANGED Owners
    BY <2>4 DEF Owners
  <2>5. CASE Shutdown \/ UNCHANGED vars
    BY <2>4, <2>5 DEF Shutdown, vars, Owns
  <2>6. ASSUME NEW t \in Threads, Register(t) \/ Interrupt(t) \/ Unregister(t)
        PROVE  UNCHANGED Owners
    <3>1. /\ pc[t] # "holding" /\ pc'[t] # "holding"
          /\ \A u \in Threads : u # t => pc'[u] = pc[u] /\ ref'[u] = ref[u]
      BY <2>6 DEF Register, Interrupt, Unregister, Inv, TypeOK
    <3> QED
      BY <2>4, <3>1 DEF Owns
  <2> QED
    BY <2>2, <2>3, <2>5, <2>6 DEF Next, Step
<1> QED
  BY <1>1, <1>2, Invariance, PTL DEF Spec, ImplementsMutex, Mutex!Spec

=============================================================================
