------------------------- MODULE DatasetCheckProofs -------------------------
(***************************************************************************)
(* Proofs about DatasetCheck, for every number of jobs, files, children    *)
(* and every length of the intervals: what is accepted matches, evidence   *)
(* is kept, turns are apart, cooldowns are held.                           *)
(*                                                                         *)
(* The argument: evidence computed from the frozen directory names only    *)
(* files that match; evidence computed from a changed one can no longer be *)
(* accepted, because the directory stays changed until the final digest;   *)
(* and a child never believes more than its job's evidence says.  The      *)
(* account's next turn lies an interval after every turn that is waited    *)
(* for.                                                                    *)
(***************************************************************************)
EXTENDS DatasetCheck, TLAPS

USE TimeAssumption, FileAssumption, JobAssumption

Results == {"ok", "publication", "transient", "progress", "denied", "integrity", "fatal"}

-----------------------------------------------------------------------------
(* How a check ends *)

LEMMA OutcomesType ==
  ASSUME NEW b \in BOOLEAN, NEW e \in Results
  PROVE  /\ Outcomes(b, e) \subseteq States
         /\ "accepted" \in Outcomes(b, e) => e = "ok"
  BY DEF Outcomes, Deferred, States, Open, Results

(* What becomes of a candidate that no child is checking                   *)
Rescheduled(j) == Recheck(j) \/ WindowEnds(j) \/ RestartRecheck(j) \/ Revoked(j)

LEMMA RescheduledEffect ==
  ASSUME NEW j \in Jobs, Rescheduled(j)
  PROVE  \E s \in {"rechecking", "exhausted", "blocked"} : OnlyState(j, s)
  BY DEF Rescheduled, Recheck, WindowEnds, RestartRecheck, Revoked

LEMMA FreeType == Free \in Children /\ Free.pc = "free" /\ Free.wake = 0 /\ Sane(Free)
  BY DEF Free, Children, Sane

LEMMA BusyHasJob ==
  ASSUME TypeOK, NEW p \in Procs, ~At(p, "free")
  PROVE  Job(p) \in Jobs
  BY DEF TypeOK, Sane, At, Job

LEMMA OwnedIsBusy ==
  ASSUME TypeOK, NEW p \in Procs, proc[p].owned \/ proc[p].background
  PROVE  ~At(p, "free")
  BY DEF TypeOK, Sane, At

(* One child is replaced by another record.                                *)
LEMMA Replaced ==
  ASSUME TypeOK, NEW p \in Procs, NEW c \in Children,
         Sane(c),
         proc' = [proc EXCEPT ![p] = c]
  PROVE  /\ proc' \in [Procs -> Children]
         /\ proc'[p] = c
         /\ \A q \in Procs \ {p} : proc'[q] = proc[q]
         /\ \A q \in Procs : Sane(proc'[q])
  BY DEF TypeOK

(* Whatever the error: the child is gone, and only a good end accepts.     *)
LEMMA EndEffect ==
  ASSUME TypeOK, NEW p \in Procs, ~At(p, "free"), NEW e \in Results, End(p, e)
  PROVE  /\ state' \in [Jobs -> States]
         /\ \A j \in Jobs : state'[j] = "accepted" => state[j] = "accepted" \/ (j = Job(p) /\ e = "ok")
         /\ proc' = [proc EXCEPT ![p] = Free]
         /\ proc' \in [Procs -> Children]
         /\ proc'[p] = Free
         /\ \A q \in Procs \ {p} : proc'[q] = proc[q]
         /\ \A q \in Procs : Sane(proc'[q])
  <1>1. proc' = [proc EXCEPT ![p] = Free]
    BY DEF End
  <1>2. Job(p) \in Jobs /\ proc[p].background \in BOOLEAN
    BY BusyHasJob DEF TypeOK, Children
  <1>3. /\ state' \in [Jobs -> States]
        /\ \A j \in Jobs : state'[j] = "accepted" => state[j] = "accepted" \/ (j = Job(p) /\ e = "ok")
    <2>1. CASE proc[p].owned
      <3>1. PICK s \in Outcomes(proc[p].background, e) : state' = [state EXCEPT ![Job(p)] = s]
        BY <2>1 DEF End
      <3>2. s \in States /\ (s = "accepted" => e = "ok")
        BY <1>2, OutcomesType
      <3>3. QED  BY <1>2, <3>1, <3>2 DEF TypeOK
    <2>2. CASE ~proc[p].owned
      BY <2>2 DEF End, TypeOK
    <2>3. QED  BY <2>1, <2>2
  <1>4. QED  BY <1>1, <1>3, FreeType, Replaced

-----------------------------------------------------------------------------
(* Types *)

LEMMA InitType == Init => TypeOK
  <1>1. ASSUME Init PROVE differ \in [Jobs -> SUBSET Files]
    BY <1>1 DEF Init
  <1>2. ASSUME Init, NEW p \in Procs PROVE proc[p] = Free
    BY <1>2 DEF Init
  <1>3. ASSUME Init
        PROVE  /\ proc \in [Procs -> Children]
               /\ \A p \in Procs : Sane(proc[p])
    BY <1>2, <1>3, FreeType DEF Init
  <1>4. ASSUME Init
        PROVE  /\ state \in [Jobs -> States] /\ basis \in [Jobs -> {"none", "frozen", "changed"}]
               /\ verified \in [Jobs -> SUBSET Files] /\ complete \subseteq Jobs
               /\ nextIn \in Nat /\ coolIn \in Nat /\ fresh \in BOOLEAN
               /\ local \in [Jobs -> {"frozen", "changed"}]
    BY <1>4 DEF Init, States, Open
  <1>5. QED  BY <1>1, <1>3, <1>4 DEF TypeOK

(* Setting one field of a child's record                                   *)
LEMMA SetPc ==
  ASSUME NEW r \in Children, NEW l \in {"ask", "turn", "send", "sent", "final"}
  PROVE  LET c == [r EXCEPT !.pc = l] IN
         /\ c \in Children
         /\ c.pc = l /\ c.job = r.job /\ c.need = r.need /\ c.wake = r.wake /\ c.seen = r.seen
         /\ c.background = r.background /\ c.owned = r.owned
  BY DEF Children

LEMMA SetNeed ==
  ASSUME NEW r \in Children, NEW n \in {"archive", "list", "file", "relist"}
  PROVE  LET c == [r EXCEPT !.need = n] IN
         /\ c \in Children
         /\ c.pc = r.pc /\ c.job = r.job /\ c.need = n /\ c.wake = r.wake /\ c.seen = r.seen
  BY DEF Children

LEMMA SetWake ==
  ASSUME NEW r \in Children, NEW w \in Nat
  PROVE  LET c == [r EXCEPT !.wake = w] IN
         /\ c \in Children
         /\ c.pc = r.pc /\ c.job = r.job /\ c.need = r.need /\ c.wake = w /\ c.seen = r.seen
         /\ c.background = r.background /\ c.owned = r.owned
  BY DEF Children

LEMMA SetSeen ==
  ASSUME NEW r \in Children, NEW s \in SUBSET Files
  PROVE  LET c == [r EXCEPT !.seen = s] IN
         /\ c \in Children
         /\ c.pc = r.pc /\ c.job = r.job /\ c.need = r.need /\ c.wake = r.wake /\ c.seen = s
  BY DEF Children

LEMMA SetCount ==
  ASSUME NEW r \in Children, NEW n \in Nat
  PROVE  LET c == [r EXCEPT !.count = n] IN
         /\ c \in Children
         /\ c.pc = r.pc /\ c.job = r.job /\ c.need = r.need /\ c.wake = r.wake /\ c.seen = r.seen
  BY DEF Children

(* The loop of a check ends its batch, or asks for another file or for the *)
(* inventory.                                                              *)
LEMMA ContinueEffect ==
  ASSUME TypeOK, NEW p \in Procs, ~At(p, "free"),
         NEW seen \in SUBSET Files, NEW count \in Nat, Continue(p, seen, count)
  PROVE  /\ state' \in [Jobs -> States]
         /\ \A j \in Jobs : state'[j] = "accepted" => state[j] = "accepted"
         /\ proc' \in [Procs -> Children]
         /\ \A q \in Procs \ {p} : proc'[q] = proc[q]
         /\ \/ proc'[p] = Free
            \/ /\ Job(p)' = Job(p) /\ At(p, "ask")' /\ proc'[p].wake = proc[p].wake
               /\ proc'[p].need = (IF seen = Files THEN "relist" ELSE "file")
               /\ proc'[p].seen = seen
         /\ \A q \in Procs : Sane(proc'[q])
  <1>1. CASE seen # Files /\ proc[p].background /\ count >= BatchLimit
    <2>1. End(p, "progress")
      BY <1>1 DEF Continue
    <2>2. "progress" \in Results /\ "progress" # "ok"
      BY DEF Results
    <2>3. QED  BY <2>1, <2>2, EndEffect
  <1>2. CASE ~(seen # Files /\ proc[p].background /\ count >= BatchLimit)
    <2> DEFINE n == IF proc[p].background THEN count ELSE 0
    <2> DEFINE c == [proc[p] EXCEPT !.pc = "ask", !.need = IF seen = Files THEN "relist" ELSE "file",
                                    !.seen = seen, !.count = n]
    <2>1. c \in Children /\ c.pc = "ask" /\ c.job = Job(p) /\ c.wake = proc[p].wake
          /\ c.need = (IF seen = Files THEN "relist" ELSE "file") /\ c.seen = seen
      <3>1. proc[p] \in Children
        BY DEF TypeOK
      <3> DEFINE r1 == [proc[p] EXCEPT !.pc = "ask"]
      <3>2. r1 \in Children /\ r1.pc = "ask" /\ r1.job = Job(p) /\ r1.wake = proc[p].wake
        BY <3>1, SetPc DEF Job
      <3> HIDE DEF r1
      <3> DEFINE need == IF seen = Files THEN "relist" ELSE "file"
      <3> DEFINE r2 == [r1 EXCEPT !.need = need]
      <3>3. r2 \in Children /\ r2.pc = "ask" /\ r2.job = Job(p) /\ r2.wake = proc[p].wake
            /\ r2.need = need
        <4>1. need \in {"archive", "list", "file", "relist"}
          OBVIOUS
        <4> HIDE DEF need
        <4>2. QED  BY <3>2, <4>1, SetNeed
      <3> HIDE DEF r2, need
      <3> DEFINE r3 == [r2 EXCEPT !.seen = seen]
      <3>4. r3 \in Children /\ r3.pc = "ask" /\ r3.job = Job(p) /\ r3.wake = proc[p].wake
            /\ r3.need = need /\ r3.seen = seen
        BY <3>3, SetSeen
      <3> HIDE DEF r3
      <3> DEFINE r4 == [r3 EXCEPT !.count = n]
      <3>5. r4 \in Children /\ r4.pc = "ask" /\ r4.job = Job(p) /\ r4.wake = proc[p].wake
            /\ r4.need = need /\ r4.seen = seen
        BY <3>4, SetCount
      <3>6. QED  BY ONLY <3>5 DEF r1, r2, r3, need
    <2>2. proc' = [proc EXCEPT ![p] = c] /\ UNCHANGED state
      BY <1>2 DEF Continue, TypeOK
    <2>3. c.job \in Jobs
      BY <2>1, BusyHasJob
    <2> HIDE DEF c
    <2>4. QED  BY <2>1, <2>2, <2>3, Replaced DEF Sane, TypeOK, At, Job
  <1>3. QED  BY <1>1, <1>2

LEMMA ListType ==
  ASSUME TypeOK, NEW p \in Procs, List(p)
  PROVE  TypeOK'
  <1>1. ~At(p, "free") /\ Job(p) \in Jobs
    BY BusyHasJob DEF List, At
  <1>2. CASE OnlyEnd(p, "integrity")
    BY <1>1, <1>2, EndEffect DEF OnlyEnd, Results, TypeOK, store, account, world
  <1>3. CASE /\ basis' = [basis EXCEPT ![Job(p)] = local[Job(p)]]
             /\ Continue(p, verified[Job(p)], 0)
             /\ UNCHANGED <<verified, complete, account, world>>
    <2>1. verified[Job(p)] \in SUBSET Files
      BY <1>1 DEF TypeOK
    <2>2. basis' \in [Jobs -> {"none", "frozen", "changed"}]
      BY <1>1, <1>3 DEF TypeOK
    <2>3. QED  BY <1>1, <1>3, <2>1, <2>2, ContinueEffect DEF TypeOK, account, world
  <1>4. QED  BY <1>2, <1>3 DEF List

LEMMA FileType ==
  ASSUME TypeOK, NEW p \in Procs, File(p)
  PROVE  TypeOK'
  <1>1. ~At(p, "free") /\ Job(p) \in Jobs
    BY BusyHasJob DEF File, At
  <1>2. CASE OnlyEnd(p, "integrity")
    BY <1>1, <1>2, EndEffect DEF OnlyEnd, Results, TypeOK, store, account, world
  <1>3. ASSUME NEW f \in Files,
               verified' = [verified EXCEPT ![Job(p)] = @ \cup {f}],
               Continue(p, proc[p].seen \cup {f}, proc[p].count + 1),
               UNCHANGED <<basis, complete, account, world>>
        PROVE  TypeOK'
    <2>1. proc[p].seen \cup {f} \in SUBSET Files /\ proc[p].count + 1 \in Nat
      BY DEF TypeOK, Children
    <2>2. verified' \in [Jobs -> SUBSET Files]
      BY <1>1, <1>3 DEF TypeOK
    <2>3. QED  BY <1>1, <1>3, <2>1, <2>2, ContinueEffect DEF TypeOK, account, world
  <1>4. QED  BY <1>2, <1>3 DEF File

(* The other steps of a child change its program counter, or end it.       *)
LEMMA GotoType ==
  ASSUME TypeOK, NEW p \in Procs, ~At(p, "free"),
         NEW l \in {"ask", "turn", "send", "sent", "final"},
         Goto(p, l), UNCHANGED state
  PROVE  /\ state' \in [Jobs -> States]
         /\ proc' \in [Procs -> Children]
         /\ proc'[p] = [proc[p] EXCEPT !.pc = l]
         /\ \A q \in Procs \ {p} : proc'[q] = proc[q]
         /\ \A q \in Procs : Sane(proc'[q])
  <1> DEFINE c == [proc[p] EXCEPT !.pc = l]
  <1>1. c \in Children /\ c.pc = l /\ c.job = Job(p)
    BY DEF TypeOK, Children, Job
  <1>2. proc' = [proc EXCEPT ![p] = c]
    BY DEF Goto, TypeOK
  <1>3. c.job \in Jobs
    BY <1>1, BusyHasJob
  <1> HIDE DEF c
  <1>4. QED  BY <1>1, <1>2, <1>3, Replaced DEF Sane, c, TypeOK

LEMMA OnlyChildType ==
  ASSUME TypeOK, NEW p \in Procs, ~At(p, "free"),
         NEW l \in {"ask", "turn", "send", "sent", "final"}, Goto(p, l), OnlyChild
  PROVE  TypeOK'
  BY GotoType DEF OnlyChild, TypeOK, store, account, world

LEMMA OnlyEndType ==
  ASSUME TypeOK, NEW p \in Procs, ~At(p, "free"), NEW e \in Results, OnlyEnd(p, e)
  PROVE  TypeOK'
  BY EndEffect DEF OnlyEnd, TypeOK, store, account, world

LEMMA ReserveType ==
  ASSUME TypeOK, NEW p \in Procs, Reserve(p)
  PROVE  TypeOK'
  <1>1. ~At(p, "free")
    BY DEF Reserve, At
  <1>2. ASSUME NEW e \in {"transient", "progress"}, End(p, e), UNCHANGED nextIn PROVE TypeOK'
    BY <1>1, <1>2, EndEffect DEF Results, Reserve, TypeOK, store, world
  <1>3. CASE /\ nextIn' = nextIn + Interval
             /\ proc' = [proc EXCEPT ![p].pc = "turn", ![p].wake = nextIn]
             /\ UNCHANGED state
    <2> DEFINE c == [proc[p] EXCEPT !.pc = "turn", !.wake = nextIn]
    <2>1. c \in Children /\ c.pc = "turn" /\ c.job = Job(p)
      <3>1. proc[p] \in Children /\ nextIn \in Nat
        BY DEF TypeOK
      <3> DEFINE r == [proc[p] EXCEPT !.pc = "turn"]
      <3>2. r \in Children /\ r.pc = "turn" /\ r.job = Job(p)
        BY <3>1, SetPc DEF Job
      <3> HIDE DEF r
      <3>3. /\ [r EXCEPT !.wake = nextIn] \in Children
            /\ [r EXCEPT !.wake = nextIn].pc = "turn" /\ [r EXCEPT !.wake = nextIn].job = Job(p)
        BY <3>1, <3>2, SetWake
      <3>4. QED  BY ONLY <3>3 DEF r
    <2>2. proc' = [proc EXCEPT ![p] = c]
      BY <1>3 DEF TypeOK
    <2>3. c.job \in Jobs
      BY <1>1, <2>1, BusyHasJob
    <2> HIDE DEF c
    <2>4. nextIn' \in Nat
      BY <1>3 DEF TypeOK
    <2>5. QED  BY <1>3, <2>1, <2>2, <2>3, <2>4, Replaced DEF Sane, Reserve, TypeOK, store, world
  <1>4. QED  BY <1>2, <1>3 DEF Reserve

LEMMA StepType ==
  ASSUME TypeOK, NEW p \in Procs, Step(p)
  PROVE  TypeOK'
  <1>1. CASE Reserve(p)
    BY <1>1, ReserveType
  <1>2. CASE Clear(p)
    BY <1>2, OnlyChildType, OnlyEndType DEF Clear, At, Results
  <1>3. CASE Send(p)
    BY <1>3, OnlyChildType DEF Send, At
  <1>4. CASE Archive(p)
    <2>1. ~At(p, "free")
      BY <1>4 DEF Archive, At
    <2>2. CASE proc' = [proc EXCEPT ![p].pc = "ask", ![p].need = "list"] /\ OnlyChild
      <3> DEFINE c == [proc[p] EXCEPT !.pc = "ask", !.need = "list"]
      <3>1. c \in Children /\ c.pc = "ask" /\ c.job = Job(p)
        <4>1. proc[p] \in Children
          BY DEF TypeOK
        <4> DEFINE r == [proc[p] EXCEPT !.pc = "ask"]
        <4>2. r \in Children /\ r.pc = "ask" /\ r.job = Job(p)
          BY <4>1, SetPc DEF Job
        <4> HIDE DEF r
        <4>3. /\ [r EXCEPT !.need = "list"] \in Children
              /\ [r EXCEPT !.need = "list"].pc = "ask" /\ [r EXCEPT !.need = "list"].job = Job(p)
          BY <4>2, SetNeed
        <4>4. QED  BY ONLY <4>3 DEF r
      <3>2. proc' = [proc EXCEPT ![p] = c]
        BY <2>2 DEF TypeOK
      <3>3. c.job \in Jobs
        BY <2>1, <3>1, BusyHasJob
      <3> HIDE DEF c
      <3>4. QED  BY <2>2, <3>1, <3>2, <3>3, Replaced DEF Sane, OnlyChild, TypeOK, store, account, world
    <2>3. QED  BY <1>4, <2>1, <2>2, OnlyChildType, OnlyEndType DEF Archive, Results
  <1>5. CASE List(p)
    BY <1>5, ListType
  <1>6. CASE File(p)
    BY <1>6, FileType
  <1>7. CASE Relist(p)
    BY <1>7, OnlyChildType DEF Relist, At
  <1>8. CASE Final(p)
    <2>1. ~At(p, "free") /\ Job(p) \in Jobs
      BY <1>8, BusyHasJob DEF Final, At
    <2>2. CASE /\ complete' = complete \cup {Job(p)}
               /\ End(p, "ok")
               /\ UNCHANGED <<basis, verified, account, world>>
      BY <2>1, <2>2, EndEffect DEF Results, TypeOK, account, world
    <2>3. QED  BY <1>8, <2>1, <2>2, OnlyEndType DEF Final, Results
  <1>9. QED  BY <1>1, <1>2, <1>3, <1>4, <1>5, <1>6, <1>7, <1>8 DEF Step

LEMMA TypeInductive == TypeOK /\ [Next]_vars => TypeOK'
  <1> SUFFICES ASSUME TypeOK, [Next]_vars PROVE TypeOK'
    OBVIOUS
  <1>1. ASSUME NEW p \in Procs, Step(p) PROVE TypeOK'
    BY <1>1, StepType
  <1>2. ASSUME NEW p \in Procs, OrphanEnds(p) PROVE TypeOK'
    <2>1. proc' = [proc EXCEPT ![p] = Free]
      BY <1>2 DEF OrphanEnds
    <2>2. QED  BY <1>2, <2>1, FreeType, Replaced DEF OrphanEnds, TypeOK, store, account, world
  <1>3. ASSUME NEW j \in Jobs, Rescheduled(j) PROVE TypeOK'
    BY <1>3, RescheduledEffect DEF OnlyState, TypeOK, States, Open, At, Job, store, account, world
  <1>4. ASSUME NEW j \in Jobs, Cancel(j) PROVE TypeOK'
    <2>1. ASSUME NEW p \in Procs PROVE proc'[p] \in {Free, proc[p]}
      BY <1>4 DEF Cancel
    <2>2. /\ proc' \in [Procs -> Children]
          /\ \A p \in Procs : Sane(proc'[p])
      BY <1>4, <2>1, FreeType DEF Cancel, TypeOK, At, Job
    <2>3. QED  BY <1>4, <2>2 DEF Cancel, TypeOK, States, store, account, world
  <1>5. ASSUME NEW j \in Jobs, Touch(j) PROVE TypeOK'
    BY <1>5 DEF Touch, TypeOK, At, Job, store, account
  <1>6. ASSUME NEW j \in Jobs, NEW p \in Procs, Spawn(j, p) PROVE TypeOK'
    <2>1. CASE local[j] = "frozen"
      <3> DEFINE c == Child(j, state[j] = "rechecking")
      <3>1. c \in Children /\ c.pc # "free" /\ c.job \in Jobs
        BY DEF Child, Children
      <3>2. proc' = [proc EXCEPT ![p] = c] /\ UNCHANGED state
        BY <1>6, <2>1 DEF Spawn
      <3> HIDE DEF c
      <3>3. QED  BY <1>6, <3>1, <3>2, Replaced DEF Sane, Spawn, TypeOK, store, account, world
    <2>2. CASE local[j] # "frozen"
      BY <1>6, <2>2 DEF Spawn, TypeOK, States, At, Job, store, account, world
    <2>3. QED  BY <2>1, <2>2
  <1>7. CASE Tick
    <2>1. ASSUME NEW p \in Procs
          PROVE  proc'[p] \in Children /\ proc'[p].pc = proc[p].pc /\ Job(p)' = Job(p)
                 /\ Sane(proc'[p])
      <3>1. proc'[p] = [proc[p] EXCEPT !.wake = Less(proc[p].wake)]
        BY <1>7 DEF Tick
      <3>2. proc[p] \in Children /\ Less(proc[p].wake) \in Nat
        BY DEF TypeOK, Children, Less
      <3>3. Sane(proc[p])
        BY DEF TypeOK
      <3>4. QED  BY <3>1, <3>2, <3>3, SetWake DEF Job, Sane
    <2>2. /\ proc' \in [Procs -> Children]
          /\ \A p \in Procs : Sane(proc'[p])
      BY <1>7, <2>1 DEF Tick, TypeOK, At
    <2>3. nextIn' \in Nat /\ coolIn' \in Nat /\ fresh' \in BOOLEAN
      <3>1. \A n \in Nat : Less(n) \in Nat
        BY DEF Less
      <3>2. nextIn' = Less(nextIn) /\ coolIn' = Less(coolIn) /\ fresh' = FALSE
        BY <1>7 DEF Tick
      <3>3. nextIn \in Nat /\ coolIn \in Nat
        BY DEF TypeOK
      <3>4. QED  BY <3>1, <3>2, <3>3
    <2>4. QED  BY <1>7, <2>2, <2>3 DEF Tick, TypeOK, store, world
  <1>8. ASSUME NEW p \in Procs, TooMany(p) PROVE TypeOK'
    <2>1. ~At(p, "free") /\ "transient" \in Results
      BY <1>8 DEF TooMany, At, Results
    <2>2. coolIn' \in Nat /\ fresh' \in BOOLEAN
      BY <1>8 DEF TooMany, TypeOK, Max2
    <2>3. QED  BY <1>8, <2>1, <2>2, EndEffect DEF TooMany, TypeOK, store, world
  <1>9. ASSUME NEW p \in Procs, Fails(p) \/ Unlisted(p) PROVE TypeOK'
    BY <1>9, OnlyEndType DEF Fails, Unlisted, At, Results
  <1>10. ASSUME NEW p \in Procs, TimeUp(p) \/ Kill(p) PROVE TypeOK'
    BY <1>10, OwnedIsBusy, OnlyEndType DEF TimeUp, Kill, Results
  <1>11. CASE Shutdown
    <2>1. ASSUME NEW p \in Procs PROVE proc'[p] \in {Free, proc[p]}
      BY <1>11 DEF Shutdown
    <2>2. /\ proc' \in [Procs -> Children]
          /\ \A p \in Procs : Sane(proc'[p])
      BY <1>11, <2>1, FreeType DEF Shutdown, TypeOK, At, Job
    <2>3. QED  BY <1>11, <2>2 DEF Shutdown, TypeOK, States, store, account, world
  <1>12. CASE Crash
    <2>1. ASSUME NEW p \in Procs
          PROVE  proc'[p] \in Children /\ proc'[p].pc = proc[p].pc /\ Job(p)' = Job(p)
                 /\ Sane(proc'[p])
      <3>1. proc'[p] = [proc[p] EXCEPT !.owned = FALSE]
        BY <1>12 DEF Crash
      <3>2. proc[p] \in Children
        BY DEF TypeOK
      <3>3. Sane(proc[p])
        BY DEF TypeOK
      <3>4. QED  BY <3>1, <3>2, <3>3 DEF Children, Job, Sane
    <2>2. /\ proc' \in [Procs -> Children]
          /\ \A p \in Procs : Sane(proc'[p])
      BY <1>12, <2>1 DEF Crash, TypeOK, At
    <2>3. QED  BY <1>12, <2>2 DEF Crash, TypeOK, store, account, world
  <1>13. CASE UNCHANGED vars
    BY <1>13 DEF vars, TypeOK, At, Job, store, account, world
  <1>14. QED
    BY <1>1, <1>2, <1>3, <1>4, <1>5, <1>6, <1>7, <1>8, <1>9, <1>10, <1>11, <1>12, <1>13
       DEF Next, Calm, Trouble, Rescheduled

(* Every step of the children, the relay and the clock keeps the evidence, *)
(* the account and the children's records well typed.                      *)
THEOREM TypeCorrect == Spec => []TypeOK
  BY InitType, TypeInductive, PTL DEF Spec

-----------------------------------------------------------------------------
(* Evidence *)

(* What the evidence of a job is worth: names match the upload, unless the *)
(* directory was changed before they were computed, and that it stays.     *)
Evidence(j) ==
    /\ basis[j] = "none" => verified[j] = {}
    /\ basis[j] = "changed" => local[j] = "changed"
    /\ basis[j] = "frozen" => verified[j] \cap differ[j] = {}

(* What a child has seen is in its job's evidence, and it gets to the end  *)
(* with all files, or with an archive that was equal to the directory.     *)
Sound(p) ==
    ~At(p, "free") =>
        /\ proc[p].need \in {"file", "relist"}
              => basis[Job(p)] # "none" /\ proc[p].seen \subseteq verified[Job(p)]
        /\ proc[p].need = "relist" => proc[p].seen = Files
        /\ At(p, "final") => proc[p].need \in {"archive", "relist"}
        /\ At(p, "final") /\ proc[p].need = "archive"
              => local[Job(p)] = "changed" \/ differ[Job(p)] = {}

EvidenceInv ==
    /\ \A j \in Jobs : Evidence(j)
    /\ \A p \in Procs : Sound(p)
    /\ AcceptedMatches

LEMMA InitEvidence == Init => EvidenceInv
  BY DEF Init, EvidenceInv, Evidence, Sound, AcceptedMatches, Free, At, Job

(* The evidence of a job only grows, and so does what is known of it.      *)
Grows ==
    /\ \A j \in Jobs : /\ basis[j] # "none" => basis'[j] = basis[j]
                       /\ verified[j] \subseteq verified'[j]
                       /\ local[j] = "changed" => local'[j] = "changed"
    /\ differ' = differ

(* A child that ends, or goes on with the same request.                    *)
Continues(p) ==
    \/ proc'[p] = Free
    \/ /\ At(p, "free")' <=> At(p, "free")
       /\ Job(p)' = Job(p) /\ proc'[p].need = proc[p].need /\ proc'[p].seen = proc[p].seen
       /\ At(p, "final")' => At(p, "final")

LEMMA SoundStays ==
  ASSUME TypeOK, NEW p \in Procs, Sound(p), Continues(p), Grows
  PROVE  Sound(p)'
  <1>1. CASE proc'[p] = Free
    BY <1>1 DEF Sound, At, Free
  <1>2. CASE proc'[p] # Free /\ ~At(p, "free")
    <2>1. Job(p) \in Jobs
      BY <1>2, BusyHasJob
    <2>2. QED  BY <1>2, <2>1 DEF Sound, Continues, Grows, At, Job
  <1>3. CASE proc'[p] # Free /\ At(p, "free")
    BY <1>3 DEF Sound, Continues
  <1>4. QED  BY <1>1, <1>2, <1>3

NothingAccepted == \A j \in Jobs : state'[j] = "accepted" => state[j] = "accepted"

(* Steps that touch neither the evidence nor the world.                    *)
LEMMA EvidenceFrame ==
  ASSUME TypeOK, EvidenceInv, UNCHANGED <<store, world>>, NothingAccepted,
         \A p \in Procs : Continues(p)
  PROVE  EvidenceInv'
  <1>1. Grows
    BY DEF Grows, store, world
  <1>2. \A j \in Jobs : Evidence(j)'
    BY DEF EvidenceInv, Evidence, store, world
  <1>3. \A p \in Procs : Sound(p)'
    BY <1>1, SoundStays DEF EvidenceInv
  <1>4. AcceptedMatches'
    BY DEF EvidenceInv, AcceptedMatches, NothingAccepted, store, world
  <1>5. QED  BY <1>2, <1>3, <1>4 DEF EvidenceInv

LEMMA SameContinues ==
  ASSUME NEW p \in Procs, proc'[p] = proc[p]
  PROVE  Continues(p)
  BY DEF Continues, At, Job

LEMMA OnlyEndEvidence ==
  ASSUME TypeOK, EvidenceInv, NEW p \in Procs, ~At(p, "free"),
         NEW e \in Results \ {"ok"}, End(p, e), UNCHANGED <<store, world>>
  PROVE  EvidenceInv'
  <1>1. NothingAccepted /\ proc'[p] = Free /\ \A q \in Procs \ {p} : proc'[q] = proc[q]
    BY EndEffect DEF NothingAccepted
  <1>2. \A q \in Procs : Continues(q)
    BY <1>1, SameContinues DEF Continues
  <1>3. QED  BY <1>1, <1>2, EvidenceFrame

LEMMA GotoEvidence ==
  ASSUME TypeOK, EvidenceInv, NEW p \in Procs, ~At(p, "free"),
         NEW l \in {"ask", "turn", "send", "sent"}, Goto(p, l), OnlyChild
  PROVE  EvidenceInv'
  <1>1. proc'[p] = [proc[p] EXCEPT !.pc = l] /\ \A q \in Procs \ {p} : proc'[q] = proc[q]
    BY GotoType DEF OnlyChild
  <1>2. /\ proc'[p].pc = l /\ proc'[p].job = proc[p].job
        /\ proc'[p].need = proc[p].need /\ proc'[p].seen = proc[p].seen
    BY <1>1, SetPc DEF TypeOK
  <1>3. Continues(p)
    BY <1>2 DEF Continues, At, Job
  <1>4. \A q \in Procs : Continues(q)
    BY <1>1, <1>3, SameContinues
  <1>5. QED  BY <1>4, EvidenceFrame DEF OnlyChild, NothingAccepted

(* To the end: the result is in, the directory still to be looked at.      *)
LEMMA FinalEvidence ==
  ASSUME TypeOK, EvidenceInv, NEW p \in Procs, ~At(p, "free"), Goto(p, "final"), OnlyChild,
         \/ proc[p].need = "archive" /\ (local[Job(p)] = "changed" \/ differ[Job(p)] = {})
         \/ proc[p].need = "relist"
  PROVE  EvidenceInv'
  <1>1. proc'[p] = [proc[p] EXCEPT !.pc = "final"] /\ \A q \in Procs \ {p} : proc'[q] = proc[q]
    BY GotoType DEF OnlyChild
  <1>2. /\ proc'[p].pc = "final" /\ proc'[p].job = proc[p].job
        /\ proc'[p].need = proc[p].need /\ proc'[p].seen = proc[p].seen
    BY <1>1, SetPc DEF TypeOK
  <1>3. Sound(p)'
    BY <1>2 DEF EvidenceInv, Sound, At, Job, OnlyChild, store, world
  <1>4. Grows
    BY DEF Grows, OnlyChild, store, world
  <1>5. \A q \in Procs \ {p} : Sound(q)'
    BY <1>1, <1>4, SameContinues, SoundStays DEF EvidenceInv
  <1>6. \A j \in Jobs : Evidence(j)'
    BY DEF EvidenceInv, Evidence, OnlyChild, store, world
  <1>7. AcceptedMatches'
    BY DEF EvidenceInv, AcceptedMatches, OnlyChild, store, world
  <1>8. QED  BY <1>3, <1>5, <1>6, <1>7 DEF EvidenceInv

LEMMA ReserveEvidence ==
  ASSUME TypeOK, EvidenceInv, NEW p \in Procs, Reserve(p)
  PROVE  EvidenceInv'
  <1>1. ~At(p, "free") /\ UNCHANGED <<store, world>>
    BY DEF Reserve, At
  <1>2. ASSUME NEW e \in {"transient", "progress"}, End(p, e) PROVE EvidenceInv'
    BY <1>1, <1>2, OnlyEndEvidence DEF Results
  <1>3. CASE /\ proc' = [proc EXCEPT ![p].pc = "turn", ![p].wake = nextIn]
             /\ UNCHANGED state
    <2>1. /\ \A q \in Procs \ {p} : proc'[q] = proc[q]
          /\ proc'[p] = [proc[p] EXCEPT !.pc = "turn", !.wake = nextIn]
      BY <1>3 DEF TypeOK
    <2>2. /\ proc'[p].pc = "turn" /\ proc'[p].job = proc[p].job
          /\ proc'[p].need = proc[p].need /\ proc'[p].seen = proc[p].seen
      <3>1. proc[p] \in Children /\ nextIn \in Nat
        BY DEF TypeOK
      <3> DEFINE r == [proc[p] EXCEPT !.pc = "turn"]
      <3>2. /\ r \in Children /\ r.pc = "turn" /\ r.job = proc[p].job
            /\ r.need = proc[p].need /\ r.seen = proc[p].seen
        BY <3>1, SetPc
      <3>3. proc'[p] = [r EXCEPT !.wake = nextIn]
        BY ONLY <2>1
      <3> HIDE DEF r
      <3>4. QED  BY <3>1, <3>2, <3>3, SetWake
    <2>3. Continues(p)
      BY <1>1, <2>2 DEF Continues, At, Job
    <2>4. QED  BY <1>1, <1>3, <2>1, <2>3, SameContinues, EvidenceFrame DEF NothingAccepted
  <1>4. QED  BY <1>2, <1>3 DEF Reserve

(* The evidence of a job grows by what a child has found, and the child    *)
(* believes what is in it.                                                 *)
LEMMA LoopEvidence ==
  ASSUME TypeOK, EvidenceInv, NEW p \in Procs, ~At(p, "free"),
         NEW seen \in SUBSET Files, NEW count \in Nat, Continue(p, seen, count),
         Grows, UNCHANGED <<complete, local>>,
         \A j \in Jobs : Evidence(j)',
         basis'[Job(p)] # "none", seen \subseteq verified'[Job(p)]
  PROVE  EvidenceInv'
  <1>1. /\ NothingAccepted
        /\ \A q \in Procs \ {p} : proc'[q] = proc[q]
        /\ \/ proc'[p] = Free
           \/ /\ Job(p)' = Job(p) /\ At(p, "ask")'
              /\ proc'[p].need = (IF seen = Files THEN "relist" ELSE "file")
              /\ proc'[p].seen = seen
    BY ContinueEffect DEF NothingAccepted
  <1>2. \A q \in Procs \ {p} : Sound(q)'
    BY <1>1, SameContinues, SoundStays DEF EvidenceInv
  <1>3. Sound(p)'
    <2>1. CASE proc'[p] = Free
      BY <2>1 DEF Sound, At, Free
    <2>2. CASE /\ Job(p)' = Job(p) /\ At(p, "ask")'
               /\ proc'[p].need = (IF seen = Files THEN "relist" ELSE "file")
               /\ proc'[p].seen = seen
      BY <2>2 DEF Sound, At
    <2>3. QED  BY <1>1, <2>1, <2>2
  <1>4. AcceptedMatches'
    BY <1>1 DEF EvidenceInv, AcceptedMatches, NothingAccepted, Grows
  <1>5. QED  BY <1>2, <1>3, <1>4 DEF EvidenceInv

LEMMA ListEvidence ==
  ASSUME TypeOK, EvidenceInv, NEW p \in Procs, List(p)
  PROVE  EvidenceInv'
  <1>1. ~At(p, "free") /\ Job(p) \in Jobs
    BY BusyHasJob DEF List, At
  <1>2. CASE OnlyEnd(p, "integrity")
    BY <1>1, <1>2, OnlyEndEvidence DEF OnlyEnd, Results
  <1>3. CASE /\ basis[Job(p)] \in {"none", local[Job(p)]}
             /\ basis' = [basis EXCEPT ![Job(p)] = local[Job(p)]]
             /\ Continue(p, verified[Job(p)], 0)
             /\ UNCHANGED <<verified, complete, account, world>>
    <2>1. verified[Job(p)] \in SUBSET Files /\ basis'[Job(p)] = local[Job(p)] /\ local[Job(p)] # "none"
      BY <1>1, <1>3 DEF TypeOK
    <2>2. \A j \in Jobs \ {Job(p)} : basis'[j] = basis[j]
      BY <1>3 DEF TypeOK
    <2>3. Grows
      BY <1>3, <2>1, <2>2 DEF Grows, world
    <2>4. \A j \in Jobs : Evidence(j)'
      BY <1>1, <1>3, <2>1, <2>2 DEF EvidenceInv, Evidence, world
    <2>5. UNCHANGED <<complete, local>> /\ verified[Job(p)] \subseteq verified'[Job(p)]
      BY <1>3 DEF world
    <2>6. basis'[Job(p)] # "none"
      BY <2>1
    <2>7. QED  BY <1>1, <1>3, <2>1, <2>3, <2>4, <2>5, <2>6, LoopEvidence
  <1>4. QED  BY <1>2, <1>3 DEF List

LEMMA FileEvidence ==
  ASSUME TypeOK, EvidenceInv, NEW p \in Procs, File(p)
  PROVE  EvidenceInv'
  <1>1. ~At(p, "free") /\ Job(p) \in Jobs /\ proc[p].need = "file"
    BY BusyHasJob DEF File, At
  <1>2. CASE OnlyEnd(p, "integrity")
    BY <1>1, <1>2, OnlyEndEvidence DEF OnlyEnd, Results
  <1>3. ASSUME NEW f \in Files, Matches(Job(p), f),
               verified' = [verified EXCEPT ![Job(p)] = @ \cup {f}],
               Continue(p, proc[p].seen \cup {f}, proc[p].count + 1),
               UNCHANGED <<basis, complete, account, world>>
        PROVE  EvidenceInv'
    <2>1. proc[p].seen \cup {f} \in SUBSET Files /\ proc[p].count + 1 \in Nat
      BY DEF TypeOK, Children
    <2>2. verified'[Job(p)] = verified[Job(p)] \cup {f} /\ \A j \in Jobs \ {Job(p)} : verified'[j] = verified[j]
      BY <1>1, <1>3 DEF TypeOK
    <2>3. Grows
      BY <1>3, <2>2 DEF Grows, world
    <2>4. basis[Job(p)] # "none" /\ proc[p].seen \subseteq verified[Job(p)]
      BY <1>1 DEF EvidenceInv, Sound
    <2>5. \A j \in Jobs : Evidence(j)'
      BY <1>1, <1>3, <2>2, <2>4 DEF EvidenceInv, Evidence, Matches, world
    <2>6. /\ UNCHANGED <<complete, local>> /\ basis'[Job(p)] # "none"
          /\ proc[p].seen \cup {f} \subseteq verified'[Job(p)]
      BY <1>3, <2>2, <2>4 DEF world
    <2>7. QED  BY <1>1, <1>3, <2>1, <2>3, <2>5, <2>6, LoopEvidence
  <1>4. QED  BY <1>2, <1>3 DEF File

LEMMA ArchiveEvidence ==
  ASSUME TypeOK, EvidenceInv, NEW p \in Procs, Archive(p)
  PROVE  EvidenceInv'
  <1>1. ~At(p, "free")
    BY DEF Archive, At
  <1>2. CASE OnlyEnd(p, "integrity")
    BY <1>1, <1>2, OnlyEndEvidence DEF OnlyEnd, Results
  <1>3. CASE /\ local[Job(p)] = "changed" \/ differ[Job(p)] = {}
             /\ Goto(p, "final") /\ OnlyChild
    BY <1>1, <1>3, FinalEvidence DEF Archive
  <1>4. CASE proc' = [proc EXCEPT ![p].pc = "ask", ![p].need = "list"] /\ OnlyChild
    <2>1. /\ \A q \in Procs \ {p} : proc'[q] = proc[q]
          /\ proc'[p] = [proc[p] EXCEPT !.pc = "ask", !.need = "list"]
      BY <1>4 DEF TypeOK
    <2>2. proc'[p].pc = "ask" /\ proc'[p].need = "list"
      <3>1. proc[p] \in Children
        BY DEF TypeOK
      <3> DEFINE r == [proc[p] EXCEPT !.pc = "ask"]
      <3>2. r \in Children /\ r.pc = "ask"
        BY <3>1, SetPc
      <3>3. proc'[p] = [r EXCEPT !.need = "list"]
        BY ONLY <2>1
      <3> HIDE DEF r
      <3>4. QED  BY <3>2, <3>3, SetNeed
    <2>3. Sound(p)'
      BY <2>2 DEF Sound, At
    <2>4. Grows
      BY <1>4 DEF Grows, OnlyChild, store, world
    <2>5. \A q \in Procs \ {p} : Sound(q)'
      BY <2>1, <2>4, SameContinues, SoundStays DEF EvidenceInv
    <2>6. (\A j \in Jobs : Evidence(j)') /\ AcceptedMatches'
      BY <1>4 DEF EvidenceInv, Evidence, AcceptedMatches, OnlyChild, store, world
    <2>7. QED  BY <2>3, <2>5, <2>6 DEF EvidenceInv
  <1>5. QED  BY <1>2, <1>3, <1>4 DEF Archive

(* A good end: the directory is still what was uploaded, so the evidence   *)
(* was computed from that, and all files are in it.                        *)
LEMMA GoodEnd ==
  ASSUME TypeOK, EvidenceInv, NEW p \in Procs, ~At(p, "free"), differ[Job(p)] = {},
         End(p, "ok"), complete' \in {complete, complete \cup {Job(p)}},
         UNCHANGED <<basis, verified, world>>
  PROVE  EvidenceInv'
  <1>1. /\ \A j \in Jobs : state'[j] = "accepted" => state[j] = "accepted" \/ j = Job(p)
        /\ proc'[p] = Free /\ \A q \in Procs \ {p} : proc'[q] = proc[q]
    BY EndEffect DEF Results
  <1>2. Grows
    BY DEF Grows, world
  <1>3. \A q \in Procs : Continues(q)
    BY <1>1, SameContinues DEF Continues
  <1>4. \A q \in Procs : Sound(q)'
    BY <1>2, <1>3, SoundStays DEF EvidenceInv
  <1>5. \A j \in Jobs : Evidence(j)'
    BY DEF EvidenceInv, Evidence, world
  <1>6. AcceptedMatches'
    BY <1>1 DEF EvidenceInv, AcceptedMatches, world
  <1>7. QED  BY <1>4, <1>5, <1>6 DEF EvidenceInv

LEMMA FinalStepEvidence ==
  ASSUME TypeOK, EvidenceInv, NEW p \in Procs, Final(p)
  PROVE  EvidenceInv'
  <1>1. ~At(p, "free") /\ Job(p) \in Jobs /\ At(p, "final")
    BY BusyHasJob DEF Final, At
  <1>2. CASE OnlyEnd(p, "integrity")
    BY <1>1, <1>2, OnlyEndEvidence DEF OnlyEnd, Results
  <1>3. CASE local[Job(p)] = "frozen" /\ proc[p].need = "archive" /\ OnlyEnd(p, "ok")
    <2>1. differ[Job(p)] = {}
      BY <1>1, <1>3 DEF EvidenceInv, Sound
    <2>2. QED  BY <1>1, <1>3, <2>1, GoodEnd DEF OnlyEnd, store
  <1>4. CASE /\ local[Job(p)] = "frozen" /\ proc[p].need = "relist"
             /\ verified[Job(p)] = Files
             /\ complete' = complete \cup {Job(p)}
             /\ End(p, "ok")
             /\ UNCHANGED <<basis, verified, account, world>>
    <2>1. basis[Job(p)] = "frozen"
      BY <1>1, <1>4 DEF EvidenceInv, Sound, Evidence, TypeOK
    <2>2. differ[Job(p)] = {}
      BY <1>1, <1>4, <2>1 DEF EvidenceInv, Evidence, TypeOK
    <2>3. QED  BY <1>1, <1>4, <2>2, GoodEnd
  <1>5. QED  BY <1>2, <1>3, <1>4 DEF Final

LEMMA StepEvidence ==
  ASSUME TypeOK, EvidenceInv, NEW p \in Procs, Step(p)
  PROVE  EvidenceInv'
  <1>1. ~At(p, "free")
    BY DEF Step, Reserve, Clear, Send, Archive, List, File, Relist, Final, At
  <1>2. CASE Clear(p)
    BY <1>1, <1>2, GotoEvidence, OnlyEndEvidence DEF Clear, OnlyEnd, Results
  <1>3. CASE Send(p)
    BY <1>1, <1>3, GotoEvidence DEF Send
  <1>4. CASE Relist(p)
    BY <1>1, <1>4, FinalEvidence DEF Relist
  <1>5. QED
    BY <1>2, <1>3, <1>4, ReserveEvidence, ArchiveEvidence, ListEvidence, FileEvidence,
       FinalStepEvidence DEF Step

LEMMA SpawnEvidence ==
  ASSUME TypeOK, EvidenceInv, NEW j \in Jobs, NEW p \in Procs, Spawn(j, p)
  PROVE  EvidenceInv'
  <1>1. UNCHANGED <<store, world>> /\ NothingAccepted
    BY DEF Spawn, NothingAccepted, TypeOK
  <1>2. CASE proc' = [proc EXCEPT ![p] = Child(j, state[j] = "rechecking")]
    <2>1. proc'[p].need = "archive" /\ proc'[p].pc = "ask" /\ \A q \in Procs \ {p} : proc'[q] = proc[q]
      BY <1>2 DEF TypeOK, Child
    <2>2. Sound(p)'
      BY <2>1 DEF Sound, At
    <2>3. Grows
      BY <1>1 DEF Grows, store, world
    <2>4. \A q \in Procs \ {p} : Sound(q)'
      BY <2>1, <2>3, SameContinues, SoundStays DEF EvidenceInv
    <2>5. (\A i \in Jobs : Evidence(i)') /\ AcceptedMatches'
      BY <1>1 DEF EvidenceInv, Evidence, AcceptedMatches, NothingAccepted, store, world
    <2>6. QED  BY <2>2, <2>4, <2>5 DEF EvidenceInv
  <1>3. CASE UNCHANGED proc
    BY <1>1, <1>3, SameContinues, EvidenceFrame
  <1>4. QED  BY <1>2, <1>3 DEF Spawn

LEMMA EvidenceInductive == TypeOK /\ EvidenceInv /\ [Next]_vars => EvidenceInv'
  <1> SUFFICES ASSUME TypeOK, EvidenceInv, [Next]_vars PROVE EvidenceInv'
    OBVIOUS
  <1>1. ASSUME NEW p \in Procs, Step(p) PROVE EvidenceInv'
    BY <1>1, StepEvidence
  <1>2. ASSUME NEW p \in Procs, OrphanEnds(p) PROVE EvidenceInv'
    <2>1. \A q \in Procs : proc'[q] \in {Free, proc[q]}
      BY <1>2 DEF OrphanEnds, TypeOK
    <2>2. QED  BY <1>2, <2>1, SameContinues, EvidenceFrame DEF OrphanEnds, Continues, NothingAccepted
  <1>3. ASSUME NEW j \in Jobs, Rescheduled(j) PROVE EvidenceInv'
    BY <1>3, RescheduledEffect, SameContinues, EvidenceFrame DEF OnlyState, NothingAccepted, TypeOK
  <1>4. ASSUME NEW j \in Jobs, Cancel(j) PROVE EvidenceInv'
    <2>1. \A q \in Procs : proc'[q] \in {Free, proc[q]}
      BY <1>4 DEF Cancel
    <2>2. \A q \in Procs : Continues(q)
      BY <2>1, SameContinues DEF Continues
    <2>3. QED  BY <1>4, <2>2, EvidenceFrame DEF Cancel, NothingAccepted, TypeOK
  <1>5. ASSUME NEW j \in Jobs, Touch(j) PROVE EvidenceInv'
    <2>1. Grows /\ \A q \in Procs : Continues(q)
      BY <1>5, SameContinues DEF Grows, Touch, store, TypeOK
    <2>2. \A q \in Procs : Sound(q)'
      BY <2>1, SoundStays DEF EvidenceInv
    <2>3. (\A i \in Jobs : Evidence(i)') /\ AcceptedMatches'
      BY <1>5 DEF EvidenceInv, Evidence, AcceptedMatches, Touch, store, TypeOK
    <2>4. QED  BY <2>2, <2>3 DEF EvidenceInv
  <1>6. ASSUME NEW j \in Jobs, NEW p \in Procs, Spawn(j, p) PROVE EvidenceInv'
    BY <1>6, SpawnEvidence
  <1>7. CASE Tick
    <2>1. ASSUME NEW p \in Procs PROVE Continues(p)
      <3>1. proc'[p] = [proc[p] EXCEPT !.wake = Less(proc[p].wake)]
        BY <1>7 DEF Tick
      <3>2. proc[p] \in Children /\ Less(proc[p].wake) \in Nat
        BY DEF TypeOK, Children, Less
      <3>3. QED  BY <3>1, <3>2, SetWake DEF Continues, At, Job
    <2>2. QED  BY <1>7, <2>1, EvidenceFrame DEF Tick, NothingAccepted
  <1>8. ASSUME NEW p \in Procs, TooMany(p) PROVE EvidenceInv'
    BY <1>8, OnlyEndEvidence DEF TooMany, At, Results
  <1>9. ASSUME NEW p \in Procs, Fails(p) \/ Unlisted(p) PROVE EvidenceInv'
    BY <1>9, OnlyEndEvidence DEF Fails, Unlisted, OnlyEnd, At, Results
  <1>10. ASSUME NEW p \in Procs, TimeUp(p) \/ Kill(p) PROVE EvidenceInv'
    BY <1>10, OwnedIsBusy, OnlyEndEvidence DEF TimeUp, Kill, OnlyEnd, Results
  <1>11. CASE Shutdown
    <2>1. \A q \in Procs : proc'[q] \in {Free, proc[q]}
      BY <1>11 DEF Shutdown
    <2>2. \A q \in Procs : Continues(q)
      BY <2>1, SameContinues DEF Continues
    <2>3. QED  BY <1>11, <2>2, EvidenceFrame DEF Shutdown, NothingAccepted
  <1>12. CASE Crash
    <2>1. ASSUME NEW p \in Procs PROVE Continues(p)
      <3>1. proc'[p] = [proc[p] EXCEPT !.owned = FALSE] /\ proc[p] \in Children
        BY <1>12 DEF Crash, TypeOK
      <3>2. QED  BY <3>1 DEF Children, Continues, At, Job
    <2>2. QED  BY <1>12, <2>1, EvidenceFrame DEF Crash, NothingAccepted
  <1>13. CASE UNCHANGED vars
    BY <1>13, SameContinues, EvidenceFrame DEF vars, NothingAccepted
  <1>14. QED
    BY <1>1, <1>2, <1>3, <1>4, <1>5, <1>6, <1>7, <1>8, <1>9, <1>10, <1>11, <1>12, <1>13
       DEF Next, Calm, Trouble, Rescheduled

(* Whatever checks gathered the evidence of a candidate, and whatever      *)
(* happened to the directory meanwhile: what is accepted, or marked        *)
(* complete, is what the job uploaded.                                     *)
THEOREM OnlyGoodAccepted == Spec => []AcceptedMatches
  <1>1. EvidenceInv => AcceptedMatches
    BY DEF EvidenceInv
  <1>2. QED  BY <1>1, InitType, TypeInductive, InitEvidence, EvidenceInductive, PTL DEF Spec

(* Evidence is never lost, whoever of an orphan and its successor writes   *)
(* last: only a file that matched changes the list, and is added to it.    *)
THEOREM EvidenceIsKept == Spec => EvidenceKept
  <1>1. ASSUME TypeOK, [Next]_vars
        PROVE  \A j \in Jobs : verified[j] \subseteq verified'[j]
    <2>1. CASE UNCHANGED verified
      BY <2>1
    <2>2. ASSUME NEW p \in Procs, File(p), ~UNCHANGED verified
          PROVE  \A j \in Jobs : verified[j] \subseteq verified'[j]
      BY <1>1, <2>2 DEF File, OnlyEnd, store, TypeOK
    <2>3. ASSUME NEW p \in Procs, Step(p), ~File(p) PROVE UNCHANGED verified
      BY <2>3 DEF Step, Reserve, Clear, Send, Archive, List, Relist, Final, OnlyChild, OnlyEnd, store
    <2>4. ASSUME ~\E p \in Procs : Step(p) PROVE UNCHANGED verified
      BY <1>1, <2>4 DEF Next, Calm, Trouble, OrphanEnds, Recheck, WindowEnds, RestartRecheck, Revoked,
         OnlyState, Cancel, Touch, Spawn, Tick, TooMany, Fails, Unlisted, TimeUp, Kill, Shutdown, Crash,
         OnlyEnd, store, vars
    <2>5. QED  BY <2>1, <2>2, <2>3, <2>4
  <1>2. TypeOK /\ [Next]_vars => [\A j \in Jobs : verified[j] \subseteq verified'[j]]_verified
    BY <1>1
  <1>3. QED  BY <1>2, TypeCorrect, PTL DEF Spec, EvidenceKept

-----------------------------------------------------------------------------
(* Pace and cooldown *)

(* The account's next turn lies behind all turns that are waited for, and  *)
(* a request that is cleared to go was cleared before the cooldown began.  *)
AccountInv ==
    /\ \A p \in Procs : At(p, "turn") /\ proc[p].wake > 0 => proc[p].wake + Interval <= nextIn
    /\ TurnsApart
    /\ \A p \in Procs : At(p, "send") => coolIn = 0 \/ fresh

LEMMA InitAccount == Init => AccountInv
  BY DEF Init, AccountInv, TurnsApart, Free, At

(* A child that neither takes a turn nor is cleared                        *)
Paced(p) ==
    /\ At(p, "turn")' => At(p, "turn") /\ proc'[p].wake = proc[p].wake
    /\ At(p, "send")' => At(p, "send")

LEMMA AccountFrame ==
  ASSUME AccountInv, \A p \in Procs : Paced(p),
         UNCHANGED nextIn, coolIn = 0 \/ fresh => coolIn' = 0 \/ fresh'
  PROVE  AccountInv'
  BY DEF AccountInv, TurnsApart, Paced, At

LEMMA SamePaced ==
  ASSUME NEW p \in Procs, proc'[p] \in {proc[p], Free}
  PROVE  Paced(p)
  BY DEF Paced, At, Free

LEMMA EndAccount ==
  ASSUME TypeOK, AccountInv, NEW p \in Procs, NEW e, End(p, e),
         UNCHANGED nextIn, coolIn = 0 \/ fresh => coolIn' = 0 \/ fresh'
  PROVE  AccountInv'
  <1>1. \A q \in Procs : proc'[q] \in {proc[q], Free}
    BY DEF End, TypeOK
  <1>2. QED  BY <1>1, SamePaced, AccountFrame

LEMMA GotoAccount ==
  ASSUME TypeOK, AccountInv, NEW p \in Procs, NEW l, Goto(p, l), OnlyChild,
         l \notin {"turn", "send"}
  PROVE  AccountInv'
  <1>1. \A q \in Procs \ {p} : proc'[q] = proc[q]
    BY DEF Goto, TypeOK
  <1>2. proc'[p].pc = l
    BY DEF Goto, TypeOK, Children
  <1>3. \A q \in Procs : Paced(q)
    BY <1>1, <1>2, SamePaced DEF Paced, At
  <1>4. QED  BY <1>3, AccountFrame DEF OnlyChild, account

LEMMA LoopAccount ==
  ASSUME TypeOK, AccountInv, NEW p \in Procs, ~At(p, "free"),
         NEW seen \in SUBSET Files, NEW count \in Nat, Continue(p, seen, count), UNCHANGED account
  PROVE  AccountInv'
  <1>1. /\ \A q \in Procs \ {p} : proc'[q] = proc[q]
        /\ proc'[p] = Free \/ At(p, "ask")'
    BY ContinueEffect
  <1>2. \A q \in Procs : Paced(q)
    BY <1>1, SamePaced DEF Paced, At
  <1>3. QED  BY <1>2, AccountFrame DEF account

(* Taking a turn pushes the account's next turn an interval further.       *)
LEMMA ReserveAccount ==
  ASSUME TypeOK, AccountInv, NEW p \in Procs, Reserve(p)
  PROVE  AccountInv'
  <1>1. UNCHANGED <<coolIn, fresh>>
    BY DEF Reserve
  <1>2. ASSUME NEW e, End(p, e), UNCHANGED nextIn PROVE AccountInv'
    BY <1>1, <1>2, EndAccount
  <1>3. CASE /\ nextIn' = nextIn + Interval
             /\ proc' = [proc EXCEPT ![p].pc = "turn", ![p].wake = nextIn]
             /\ UNCHANGED state
    <2>1. \A q \in Procs \ {p} : proc'[q] = proc[q] /\ proc[q].wake \in Nat
      BY <1>3 DEF TypeOK, Children
    <2>2. proc'[p].pc = "turn" /\ proc'[p].wake = nextIn
      <3>1. proc[p] \in Children /\ nextIn \in Nat
        BY DEF TypeOK
      <3> DEFINE r == [proc[p] EXCEPT !.pc = "turn"]
      <3>2. r \in Children /\ r.pc = "turn"
        BY <3>1, SetPc
      <3>3. proc'[p] = [proc[p] EXCEPT !.pc = "turn", !.wake = nextIn]
        BY <1>3 DEF TypeOK
      <3>4. proc'[p] = [r EXCEPT !.wake = nextIn]
        BY ONLY <3>3
      <3> HIDE DEF r
      <3>5. QED  BY <3>1, <3>2, <3>4, SetWake
    <2>3. nextIn \in Nat /\ Interval \in Nat
      BY DEF TypeOK
    <2>4. \A q \in Procs : At(q, "turn")' /\ proc'[q].wake > 0 => proc'[q].wake + Interval <= nextIn'
      <3>1. nextIn' = nextIn + Interval
        BY <1>3
      <3>2. ASSUME NEW q \in Procs \ {p}, proc[q].pc = "turn", proc[q].wake > 0
            PROVE  proc[q].wake + Interval <= nextIn + Interval
        <4>1. proc[q].wake + Interval <= nextIn /\ proc[q].wake \in Nat
          BY <2>1, <3>2 DEF AccountInv, At
        <4>2. QED  BY <2>3, <4>1
      <3>3. QED  BY <2>1, <2>2, <2>3, <3>1, <3>2 DEF At
    <2>5. TurnsApart'
      BY <2>1, <2>2, <2>3 DEF AccountInv, TurnsApart, At
    <2>6. \A q \in Procs : At(q, "send")' => coolIn' = 0 \/ fresh'
      BY <1>1, <2>1, <2>2 DEF AccountInv, At
    <2>7. QED  BY <2>4, <2>5, <2>6 DEF AccountInv
  <1>4. QED  BY <1>2, <1>3 DEF Reserve

LEMMA ClearAccount ==
  ASSUME TypeOK, AccountInv, NEW p \in Procs, Clear(p)
  PROVE  AccountInv'
  <1>1. CASE OnlyEnd(p, "transient")
    BY <1>1, EndAccount DEF OnlyEnd, account
  <1>2. CASE coolIn = 0 /\ Goto(p, "send") /\ OnlyChild
    <2>1. \A q \in Procs \ {p} : proc'[q] = proc[q]
      BY <1>2 DEF Goto, TypeOK
    <2>2. proc'[p].pc = "send"
      BY <1>2 DEF Goto, TypeOK, Children
    <2>3. QED  BY <1>2, <2>1, <2>2 DEF AccountInv, TurnsApart, At, OnlyChild, account
  <1>3. QED  BY <1>1, <1>2 DEF Clear

(* Time brings all turns, and the account's next one, closer together.     *)
LEMMA TickAccount ==
  ASSUME TypeOK, AccountInv, Tick
  PROVE  AccountInv'
  <1>1. ASSUME NEW p \in Procs
        PROVE  /\ proc[p].wake \in Nat /\ proc'[p].pc = proc[p].pc
               /\ proc'[p].wake = Less(proc[p].wake)
    <2>1. proc'[p] = [proc[p] EXCEPT !.wake = Less(proc[p].wake)]
      BY DEF Tick
    <2>2. proc[p] \in Children /\ Less(proc[p].wake) \in Nat
      BY DEF TypeOK, Children, Less
    <2>3. QED  BY <2>1, <2>2, SetWake DEF Children
  <1>2. nextIn \in Nat /\ nextIn' = Less(nextIn) /\ Interval \in Nat
    BY DEF TypeOK, Tick
  <1>3. \A p \in Procs : At(p, "turn")' /\ proc'[p].wake > 0 => proc'[p].wake + Interval <= nextIn'
    BY <1>1, <1>2 DEF AccountInv, At, Less
  <1>4. TurnsApart'
    BY <1>1, <1>2 DEF AccountInv, TurnsApart, At, Less
  <1>5. \A p \in Procs : ~At(p, "send")'
    BY <1>1 DEF Tick, At
  <1>6. QED  BY <1>3, <1>4, <1>5 DEF AccountInv

LEMMA StepAccount ==
  ASSUME TypeOK, AccountInv, NEW p \in Procs, Step(p)
  PROVE  AccountInv'
  <1>1. CASE Send(p)
    BY <1>1, GotoAccount DEF Send
  <1>2. CASE Archive(p)
    <2>1. CASE OnlyEnd(p, "integrity")
      BY <2>1, EndAccount DEF OnlyEnd, account
    <2>2. CASE Goto(p, "final") /\ OnlyChild
      BY <2>2, GotoAccount
    <2>3. CASE proc' = [proc EXCEPT ![p].pc = "ask", ![p].need = "list"] /\ OnlyChild
      <3>1. /\ \A q \in Procs \ {p} : proc'[q] = proc[q]
            /\ proc'[p] = [proc[p] EXCEPT !.pc = "ask", !.need = "list"]
        BY <2>3 DEF TypeOK
      <3>2. proc'[p].pc = "ask"
        <4>1. proc[p] \in Children
          BY DEF TypeOK
        <4> DEFINE r == [proc[p] EXCEPT !.pc = "ask"]
        <4>2. r \in Children /\ r.pc = "ask"
          BY <4>1, SetPc
        <4>3. proc'[p] = [r EXCEPT !.need = "list"]
          BY ONLY <3>1
        <4> HIDE DEF r
        <4>4. QED  BY <4>2, <4>3, SetNeed
      <3>3. \A q \in Procs : Paced(q)
        BY <3>1, <3>2, SamePaced DEF Paced, At
      <3>4. QED  BY <2>3, <3>3, AccountFrame DEF OnlyChild, account
    <2>4. QED  BY <1>2, <2>1, <2>2, <2>3 DEF Archive
  <1>3. CASE List(p)
    <2>1. CASE OnlyEnd(p, "integrity")
      BY <2>1, EndAccount DEF OnlyEnd, account
    <2>2. CASE Continue(p, verified[Job(p)], 0) /\ UNCHANGED account
      <3>1. ~At(p, "free") /\ verified[Job(p)] \in SUBSET Files
        BY <1>3, BusyHasJob DEF List, At, TypeOK
      <3>2. QED  BY <2>2, <3>1, LoopAccount
    <2>3. QED  BY <1>3, <2>1, <2>2 DEF List
  <1>4. CASE File(p)
    <2>1. CASE OnlyEnd(p, "integrity")
      BY <2>1, EndAccount DEF OnlyEnd, account
    <2>2. ASSUME NEW f \in Files, Continue(p, proc[p].seen \cup {f}, proc[p].count + 1), UNCHANGED account
          PROVE  AccountInv'
      <3>1. /\ ~At(p, "free")
            /\ proc[p].seen \cup {f} \in SUBSET Files /\ proc[p].count + 1 \in Nat
        BY <1>4 DEF File, At, TypeOK, Children
      <3>2. QED  BY <2>2, <3>1, LoopAccount
    <2>3. QED  BY <1>4, <2>1, <2>2 DEF File
  <1>5. CASE Relist(p)
    BY <1>5, GotoAccount DEF Relist
  <1>6. CASE Final(p)
    <2>1. \E e : End(p, e) /\ UNCHANGED account
      BY <1>6 DEF Final, OnlyEnd
    <2>2. QED  BY <2>1, EndAccount DEF account
  <1>7. QED  BY <1>1, <1>2, <1>3, <1>4, <1>5, <1>6, ReserveAccount, ClearAccount DEF Step

LEMMA AccountInductive == TypeOK /\ AccountInv /\ [Next]_vars => AccountInv'
  <1> SUFFICES ASSUME TypeOK, AccountInv, [Next]_vars PROVE AccountInv'
    OBVIOUS
  <1>1. ASSUME NEW p \in Procs, Step(p) PROVE AccountInv'
    BY <1>1, StepAccount
  <1>2. ASSUME NEW p \in Procs, OrphanEnds(p) PROVE AccountInv'
    <2>1. \A q \in Procs : proc'[q] \in {proc[q], Free}
      BY <1>2 DEF OrphanEnds, TypeOK
    <2>2. QED  BY <1>2, <2>1, SamePaced, AccountFrame DEF OrphanEnds, account
  <1>3. ASSUME NEW j \in Jobs, Rescheduled(j) \/ Touch(j) PROVE AccountInv'
    BY <1>3, RescheduledEffect, SamePaced, AccountFrame DEF OnlyState, Touch, account
  <1>4. ASSUME NEW j \in Jobs, Cancel(j) PROVE AccountInv'
    <2>1. \A q \in Procs : proc'[q] \in {proc[q], Free}
      BY <1>4 DEF Cancel
    <2>2. QED  BY <1>4, <2>1, SamePaced, AccountFrame DEF Cancel, account
  <1>5. ASSUME NEW j \in Jobs, NEW p \in Procs, Spawn(j, p) PROVE AccountInv'
    <2>1. UNCHANGED account /\ \A q \in Procs \ {p} : proc'[q] = proc[q]
      BY <1>5 DEF Spawn, TypeOK
    <2>2. Paced(p)
      BY <1>5, SamePaced DEF Spawn, TypeOK, Child, Paced, At
    <2>3. QED  BY <2>1, <2>2, SamePaced, AccountFrame DEF account
  <1>6. CASE Tick
    BY <1>6, TickAccount
  <1>7. ASSUME NEW p \in Procs, TooMany(p) PROVE AccountInv'
    BY <1>7, EndAccount DEF TooMany
  <1>8. ASSUME NEW p \in Procs, Fails(p) \/ Unlisted(p) \/ TimeUp(p) \/ Kill(p) PROVE AccountInv'
    <2>1. \E e : End(p, e) /\ UNCHANGED account
      BY <1>8 DEF Fails, Unlisted, TimeUp, Kill, OnlyEnd
    <2>2. QED  BY <2>1, EndAccount DEF account
  <1>9. CASE Shutdown
    <2>1. \A q \in Procs : proc'[q] \in {proc[q], Free}
      BY <1>9 DEF Shutdown
    <2>2. QED  BY <1>9, <2>1, SamePaced, AccountFrame DEF Shutdown, account
  <1>10. CASE Crash
    <2>1. ASSUME NEW p \in Procs PROVE Paced(p)
      <3>1. proc'[p] = [proc[p] EXCEPT !.owned = FALSE] /\ proc[p] \in Children
        BY <1>10 DEF Crash, TypeOK
      <3>2. QED  BY <3>1 DEF Children, Paced, At
    <2>2. QED  BY <1>10, <2>1, AccountFrame DEF Crash, account
  <1>11. CASE UNCHANGED vars
    BY <1>11, SamePaced, AccountFrame DEF vars, account
  <1>12. QED
    BY <1>1, <1>2, <1>3, <1>4, <1>5, <1>6, <1>7, <1>8, <1>9, <1>10, <1>11 DEF Next, Calm, Trouble, Rescheduled

LEMMA AccountCorrect == Spec => []AccountInv
  BY InitType, TypeInductive, InitAccount, AccountInductive, PTL DEF Spec

(* However many children of however many jobs wait for the account, their  *)
(* turns are REQUEST_INTERVAL_SECONDS apart.                               *)
THEOREM TurnsAreApart == Spec => []TurnsApart
  <1>1. AccountInv => TurnsApart
    BY DEF AccountInv
  <1>2. QED  BY <1>1, AccountCorrect, PTL

(* In a cooldown nobody sends, except who was cleared before it began.     *)
THEOREM CooldownIsHeld == Spec => CooldownHeld
  <1>1. ASSUME AccountInv
        PROVE  \A p \in Procs : At(p, "send") /\ At(p, "sent")' => coolIn = 0 \/ fresh
    BY <1>1 DEF AccountInv
  <1>2. AccountInv => [\A p \in Procs : At(p, "send") /\ At(p, "sent")' => coolIn = 0 \/ fresh]_vars
    BY <1>1
  <1>3. QED  BY <1>2, AccountCorrect, PTL DEF CooldownHeld

=============================================================================
